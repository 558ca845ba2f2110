--------------------------- MODULE SchedulerProofs ---------------------------
(***************************************************************************)
(* One serving instance keeps its queues and the manager's contract, for   *)
(* every trace, pool, batch limit and number of pipeline stages.           *)
(***************************************************************************)
EXTENDS SchedulerRefines, KVCacheProofs

(* The parts of TypeOK that have a name of their own here. *)
Batches == [id : Nat, work : Seq(Work), fired : SUBSET Npus, ended : SUBSET Npus]

Steps ==
  [at : {"idle", "complete", "handover", "raised", "schedule", "running", "waiting", "build"},
   npu : Npus, todo : Seq(Work), handed : Seq(Reqs), budget : Nat, i : Nat \ {0},
   scheduled : Seq(Work), preempted : SUBSET Reqs]

Unfinished == {r \in Reqs : status[r] # "finished"}

(* The tokens each request has slots for, as the manager is told. *)
Slots == [r \in Reqs |-> Granted(r)]

-----------------------------------------------------------------------------
(* Queues of requests. *)

(* Ids are numbers. *)
LEMMA ReqsNat == Reqs \subseteq Nat
<1>1. Cardinality(Reqs) \in Nat /\ Reqs = 1..Cardinality(Reqs)
  BY KVAssumption, SchedulerAssumption, FS_CardinalityType
<1>2. QED
  BY <1>1

LEMMA ReqsQueue == ASSUME NEW q \in Seq(Reqs) PROVE q \in Seq(Nat)
  BY ReqsNat, SeqMonotonic

(* A request taken out of a queue. *)
LEMMA LeavesQueue ==
  ASSUME NEW q \in Seq(Reqs), NEW r, NEW left, left = Without(q, r)
  PROVE  /\ left \in Seq(Reqs) /\ ToSet(left) = ToSet(q) \ {r}
         /\ Ordered(q) => Ordered(left)
<1>1. left = Kept(q, ToSet(q) \ {r})
  BY DEF Without
<1>2. left \in Seq(Reqs) /\ ToSet(left) = ToSet(q) \ {r}
  BY <1>1, KeptProperties
<1>3. QED
  BY <1>1, <1>2, ReqsQueue, WithoutProperties

(* Preemption takes the last of an ordered queue: the rest stays in place. *)
LEMMA LastLeavesQueue ==
  ASSUME NEW q \in Seq(Reqs), q # << >>, Ordered(q)
  PROVE  Without(q, Last(q)) = SubSeq(q, 1, Len(q) - 1)
<1>1. Kept(q, ToSet(q) \ {Last(q)}) = SubSeq(q, 1, Len(q) - 1)
  BY ReqsQueue, WithoutLast
<1>2. QED
  BY <1>1 DEF Without

(* The insort of a request that comes after everything is an append. *)
LEMMA InsortAppends ==
  ASSUME NEW q \in Seq(Reqs), NEW r \in Reqs, \A x \in ToSet(q) : x < r
  PROVE  Insort(q, r) = Append(q, r)
<1>1. q \in Seq(Nat) /\ r \in Nat
  BY ReqsNat, ReqsQueue
<1>2. InsertAt(q, Cardinality({i \in DOMAIN q : q[i] < r}) + 1, r) = Append(q, r)
  BY <1>1, InsortLast
<1>3. QED
  BY <1>2 DEF Insort

(* A request put at the end of a queue, and at its head. *)
LEMMA EndsQueue ==
  ASSUME NEW q \in Seq(Reqs), Ordered(q), NEW r \in Reqs, \A x \in ToSet(q) : x < r,
         NEW more, more = Append(q, r)
  PROVE  more \in Seq(Reqs) /\ ToSet(more) = ToSet(q) \cup {r} /\ Ordered(more)
<1>1. q \in Seq(Nat) /\ r \in Nat
  BY ReqsNat, ReqsQueue
<1>2. ToSet(more) = ToSet(q) \cup {r} /\ Ordered(more)
  BY <1>1, AppendOrdered
<1>3. more \in Seq(Reqs)
  BY AppendProperties
<1>4. QED
  BY <1>2, <1>3

LEMMA HeadsQueue ==
  ASSUME NEW q \in Seq(Reqs), Ordered(q), NEW r \in Reqs, \A x \in ToSet(q) : r < x,
         NEW more, more = <<r>> \o q
  PROVE  more \in Seq(Reqs) /\ ToSet(more) = ToSet(q) \cup {r} /\ Ordered(more)
<1>1. q \in Seq(Nat) /\ r \in Nat
  BY ReqsNat, ReqsQueue
<1>2. ToSet(more) = ToSet(q) \cup {r} /\ Ordered(more)
  BY <1>1, PrependOrdered
<1>3. more \in Seq(Reqs)
  <2>1. <<r>> \in Seq(Reqs)
    OBVIOUS
  <2>2. QED
    BY <2>1, ConcatProperties
<1>4. QED
  BY <1>2, <1>3

(* The head of a queue leaves it. *)
LEMMA HeadLeavesQueue ==
  ASSUME NEW q \in Seq(Reqs), q # << >>, Ordered(q), NEW rest, rest = Tail(q)
  PROVE  /\ Head(q) \in ToSet(q)
         /\ rest \in Seq(Reqs) /\ ToSet(rest) = ToSet(q) \ {Head(q)} /\ Ordered(rest)
         /\ \A x \in ToSet(rest) : Head(q) < x
<1>1. /\ Head(q) \in ToSet(q) /\ ToSet(rest) = ToSet(q) \ {Head(q)} /\ Ordered(rest)
      /\ \A x \in ToSet(rest) : Head(q) < x
  BY ReqsQueue, TailOrdered
<1>2. rest \in Seq(Reqs)
  BY HeadTailProperties
<1>3. QED
  BY <1>1, <1>2

-----------------------------------------------------------------------------
(* The inductive invariant. *)

(* Every request is in the queue of its status; the queues are in order of *)
(* arrival, what runs before what waits; what has not arrived yet comes    *)
(* after what has.                                                         *)
InLine ==
  /\ \A r \in Reqs : /\ r \in ToSet(running) <=> status[r] = "running"
                     /\ r \in ToSet(waiting) <=> status[r] \in {"waiting", "preempted"}
                     /\ r \in ToSet(finished) <=> status[r] = "finished"
  /\ Distinct(finished) /\ Ordered(running) /\ Ordered(waiting)
  /\ \A r \in ToSet(running), q \in ToSet(waiting) : r < q
  /\ \A r, q \in Reqs : status[r] = "future" /\ r < q => status[q] = "future"

(* Who runs holds blocks, and nobody else.  (With Lengths: a request can   *)
(* only be finished by a batch while it runs.)                             *)
RunningHold == \A r \in Reqs : kv.table[r] # << >> <=> status[r] = "running"

(* A request that is not over has slots for what it has reached at most.   *)
Lengths == \A r \in Unfinished : /\ reached[r] >= 1 /\ reached[r] < Output[r]
                                 /\ Slots[r] <= reached[r]

(* What a step has scheduled: running requests, each once, from where they *)
(* are; at "running", none that the loop has still to come to, so a victim *)
(* taken from the tail is never in the batch being built.                  *)
Planned(W, c, q) ==
  /\ \A w \in W : w \in Work /\ w.n > 0 /\ w.req \in ToSet(q) /\ w.before = c[w.req]
  /\ \A v, w \in W : v.req = w.req => v = w

StepFits ==
  /\ Planned(ToSet(step.scheduled), computed, running)
  /\ At("running") => \A j \in DOMAIN running : j >= step.i => ~InBatch(running[j])
  /\ step.at \notin {"running", "waiting", "build"} => step.scheduled = << >>

IInv ==
  /\ TypeOK
  /\ Booked(kv, computed, Slots, Unfinished)
  /\ InLine /\ RunningHold /\ Lengths /\ StepFits

-----------------------------------------------------------------------------
(* The tokens a request has slots for, from the work W of a step and the   *)
(* counters c.                                                             *)
GrantedBy(W, c, r) ==
  IF \E w \in W : w.req = r
  THEN (CHOOSE w \in W : w.req = r).before + (CHOOSE w \in W : w.req = r).n
  ELSE c[r]

SlotsBy(W, c) == [r \in Reqs |-> GrantedBy(W, c, r)]

Missing(W, r) == \A w \in W : w.req # r

LEMMA SlotsAreBy == Slots = SlotsBy(ToSet(step.scheduled), computed)
  BY DEF Slots, SlotsBy, GrantedBy, Granted, InBatch, WorkOf

LEMMA SlotsAreByNext == Slots' = SlotsBy(ToSet(step'.scheduled), computed')
  BY DEF Slots, SlotsBy, GrantedBy, Granted, InBatch, WorkOf

LEMMA GrantedByPlan ==
  ASSUME NEW W, NEW c \in [Reqs -> Nat], NEW q, Planned(W, c, q)
  PROVE  /\ \A w \in W : GrantedBy(W, c, w.req) = w.before + w.n
         /\ \A r : Missing(W, r) => GrantedBy(W, c, r) = c[r]
         /\ SlotsBy(W, c) \in [Reqs -> Nat]
<1>1. ASSUME NEW w \in W PROVE (CHOOSE v \in W : v.req = w.req) = w
  BY DEF Planned
<1>2. \A w \in W : GrantedBy(W, c, w.req) = w.before + w.n
  BY <1>1 DEF GrantedBy
<1>3. \A r : Missing(W, r) => GrantedBy(W, c, r) = c[r]
  BY DEF GrantedBy, Missing
<1>4. ASSUME NEW r \in Reqs PROVE GrantedBy(W, c, r) \in Nat
  <2>1. CASE Missing(W, r)
    BY <1>3, <2>1
  <2>2. CASE ~Missing(W, r)
    <3>1. PICK w \in W : w.req = r
      BY <2>2 DEF Missing
    <3>2. w.before \in Nat /\ w.n \in Nat
      BY DEF Planned, Work
    <3>3. QED
      BY <1>2, <3>1, <3>2
  <2>3. QED
    BY <2>1, <2>2
<1>5. QED
  BY <1>2, <1>3, <1>4 DEF SlotsBy

(* One more piece of work, for a request that has none. *)
LEMMA PlanMore ==
  ASSUME NEW W, NEW c \in [Reqs -> Nat], NEW q, Planned(W, c, q),
         NEW r \in Reqs, Missing(W, r), NEW n \in Nat, n > 0, NEW before \in Nat,
         NEW d \in [Reqs -> Nat], With(c, r, before, d),
         NEW more, ToSet(more) = ToSet(q) \cup {r},
         NEW V, V = W \cup {[req |-> r, n |-> n, before |-> before]}
  PROVE  Planned(V, d, more) /\ With(SlotsBy(W, c), r, before + n, SlotsBy(V, d))
<1> DEFINE w0 == [req |-> r, n |-> n, before |-> before]
<1>1. w0 \in Work /\ w0.req = r /\ w0.n = n /\ w0.before = before
  BY DEF Work
<1> HIDE DEF w0
<1>2. V = W \cup {w0}
  BY DEF w0
<1>3. d[r] = before /\ \A x \in Reqs \ {r} : d[x] = c[x]
  BY DEF With
<1>4. ASSUME NEW w \in W PROVE w \in Work /\ w.n > 0 /\ w.req \in ToSet(more) /\ w.before = d[w.req]
  <2>1. w \in Work /\ w.n > 0 /\ w.req \in ToSet(q) /\ w.before = c[w.req]
    BY DEF Planned
  <2>2. w.req \in Reqs \ {r}
    BY <2>1 DEF Missing, Work
  <2>3. QED
    BY <1>3, <2>1, <2>2
<1>5. ASSUME NEW v \in V, NEW w \in V, v.req = w.req PROVE v = w
  <2>1. CASE v \in W /\ w \in W
    BY <1>5, <2>1 DEF Planned
  <2>2. CASE v = w0 \/ w = w0
    BY <1>1, <1>2, <1>5, <2>2 DEF Missing
  <2>3. QED
    BY <1>2, <2>1, <2>2
<1>6. Planned(V, d, more)
  BY <1>1, <1>2, <1>3, <1>4, <1>5 DEF Planned
<1>7. /\ \A w \in V : GrantedBy(V, d, w.req) = w.before + w.n
      /\ \A x : Missing(V, x) => GrantedBy(V, d, x) = d[x]
  BY ONLY d \in [Reqs -> Nat], <1>6, GrantedByPlan
<1>8. /\ \A w \in W : GrantedBy(W, c, w.req) = w.before + w.n
      /\ \A x : Missing(W, x) => GrantedBy(W, c, x) = c[x]
  BY GrantedByPlan
<1>9. GrantedBy(V, d, r) = before + n
  BY <1>1, <1>2, <1>7
<1>10. ASSUME NEW x \in Reqs \ {r} PROVE GrantedBy(V, d, x) = GrantedBy(W, c, x)
  <2>1. CASE Missing(W, x)
    <3>1. Missing(V, x)
      BY <1>1, <1>2, <2>1 DEF Missing
    <3>2. GrantedBy(V, d, x) = d[x] /\ GrantedBy(W, c, x) = c[x]
      BY <1>7, <1>8, <2>1, <3>1
    <3>3. QED
      BY <1>3, <3>2
  <2>2. CASE ~Missing(W, x)
    <3>1. PICK w \in W : w.req = x
      BY <2>2 DEF Missing
    <3>2. w \in V
      BY <1>2
    <3>3. QED
      BY <1>7, <1>8, <3>1, <3>2
  <2>3. QED
    BY <2>1, <2>2
<1>11. With(SlotsBy(W, c), r, before + n, SlotsBy(V, d))
  BY <1>9, <1>10 DEF With, SlotsBy
<1>12. QED
  BY <1>6, <1>11

(* A request without work in the step is preempted. *)
LEMMA PlanWithout ==
  ASSUME NEW W, NEW c \in [Reqs -> Nat], NEW q, Planned(W, c, q),
         NEW r \in Reqs, Missing(W, r), NEW d \in [Reqs -> Nat], With(c, r, 0, d),
         NEW left, ToSet(left) = ToSet(q) \ {r}
  PROVE  Planned(W, d, left) /\ With(SlotsBy(W, c), r, 0, SlotsBy(W, d))
<1>1. d[r] = 0 /\ \A x \in Reqs \ {r} : d[x] = c[x]
  BY DEF With
<1>2. ASSUME NEW w \in W PROVE w \in Work /\ w.n > 0 /\ w.req \in ToSet(left) /\ w.before = d[w.req]
  <2>1. w \in Work /\ w.n > 0 /\ w.req \in ToSet(q) /\ w.before = c[w.req]
    BY DEF Planned
  <2>2. w.req \in Reqs \ {r}
    BY <2>1 DEF Missing, Work
  <2>3. QED
    BY <1>1, <2>1, <2>2
<1>3. \A v, w \in W : v.req = w.req => v = w
  BY DEF Planned
<1>4. Planned(W, d, left)
  BY <1>2, <1>3 DEF Planned
<1>5. GrantedBy(W, d, r) = 0
  BY <1>1 DEF GrantedBy, Missing
<1>6. \A x \in Reqs \ {r} : GrantedBy(W, d, x) = GrantedBy(W, c, x)
  BY <1>1 DEF GrantedBy
<1>7. With(SlotsBy(W, c), r, 0, SlotsBy(W, d))
  BY <1>5, <1>6 DEF With, SlotsBy
<1>8. QED
  BY <1>4, <1>7

-----------------------------------------------------------------------------
(* Types. *)
LEMMA IdleTyped == StartNpu \in Npus /\ LastNpu \in Npus /\ Idle \in Steps
<1>1. NumNpus \in Nat \ {0}
  BY SchedulerAssumption
<1>2. LastNpu \in Nat
  BY <1>1 DEF LastNpu
<1>3. StartNpu \in Npus /\ LastNpu \in Npus
  BY <1>2 DEF StartNpu, Npus
<1>4. << >> \in Seq(Work) /\ << >> \in Seq(Reqs)
  OBVIOUS
<1>5. QED
  BY <1>3, <1>4 DEF Idle, Steps

LEMMA Typed ==
  ASSUME TypeOK
  PROVE  /\ status \in [Reqs -> {"future", "waiting", "running", "preempted", "finished"}]
         /\ computed \in [Reqs -> Nat] /\ reached \in [Reqs -> Nat] /\ isInit \subseteq Reqs
         /\ waiting \in Seq(Reqs) /\ running \in Seq(Reqs) /\ finished \in Seq(Reqs)
         /\ inflight \in Seq(Batches) /\ nextId \in Nat
         /\ ran \in [Npus -> Nat] /\ busy \subseteq Npus
         /\ shipping \in [hit : [Reqs -> Nat], sent : [Reqs -> Nat]]
         /\ step \in Steps
  BY DEF TypeOK, Batches, Steps

LEMMA TypedNext ==
  ASSUME status' \in [Reqs -> {"future", "waiting", "running", "preempted", "finished"}],
         computed' \in [Reqs -> Nat], reached' \in [Reqs -> Nat], isInit' \subseteq Reqs,
         waiting' \in Seq(Reqs), running' \in Seq(Reqs), finished' \in Seq(Reqs),
         inflight' \in Seq(Batches), nextId' \in Nat,
         ran' \in [Npus -> Nat], busy' \subseteq Npus,
         shipping' \in [hit : [Reqs -> Nat], sent : [Reqs -> Nat]],
         step' \in Steps
  PROVE  TypeOK'
  BY DEF TypeOK, Batches, Steps

(* A step that leaves requests, queues and manager alone. *)
LEMMA Unmoved ==
  ASSUME IInv, UNCHANGED <<kv, requests, queues, finished>>,
         step'.scheduled = step.scheduled, StepFits', TypeOK'
  PROVE  IInv' /\ Slots' = Slots
<1>1. Slots' = Slots
  BY SlotsAreBy, SlotsAreByNext DEF requests
<1>2. Unfinished' = Unfinished
  BY DEF requests, Unfinished
<1>3. Booked(kv', computed', Slots', Unfinished')
  BY <1>1, <1>2 DEF IInv, requests
<1>4. InLine' /\ RunningHold'
  BY DEF IInv, InLine, RunningHold, requests, queues
<1>5. Lengths'
  BY <1>1, <1>2 DEF IInv, Lengths, requests
<1>6. QED
  BY <1>1, <1>3, <1>4, <1>5 DEF IInv

LEMMA InitIInv == Init => IInv
<1> SUFFICES ASSUME Init PROVE IInv
  OBVIOUS
<1>1. TypeOK
  <2>1. Prompt \in [Reqs -> Nat] /\ << >> \in Seq(Reqs) /\ << >> \in Seq(Batches)
    BY SchedulerAssumption
  <2>2. QED
    BY <2>1, IdleTyped DEF Init, TypeOK, Steps, Batches
<1>2. /\ step.scheduled = << >> /\ step.at = "idle" /\ ToSet(<< >>) = {}
      /\ kv = NewKV /\ computed = [r \in Reqs |-> 0] /\ reached = Prompt
      /\ status = [r \in Reqs |-> "future"]
      /\ running = << >> /\ waiting = << >> /\ finished = << >>
  BY EmptyElements DEF Init, Idle
<1>3. StepFits
  BY <1>2 DEF StepFits, Planned, At
<1>4. \A r \in Reqs : Slots[r] = 0
  BY <1>2 DEF Slots, Granted, InBatch
<1>5. Booked(kv, computed, Slots, Unfinished)
  <2>1. Unfinished \in SUBSET Reqs
    BY DEF Unfinished
  <2>2. \A r \in Reqs : computed[r] = 0 /\ Slots[r] = 0
    BY <1>2, <1>4
  <2>3. QED
    BY <1>2, <2>1, <2>2, NewBooked
<1>6. InLine
  BY <1>2 DEF InLine, Distinct, Ordered
<1>7. RunningHold
  BY <1>2, NewKVOK DEF RunningHold
<1>8. Lengths
  <2>1. \A r \in Reqs : Prompt[r] \in Nat \ {0} /\ Prompt[r] < Output[r]
    BY SchedulerAssumption
  <2>2. QED
    BY <1>2, <1>4, <2>1 DEF Lengths, Unfinished
<1>9. QED
  BY <1>1, <1>3, <1>5, <1>6, <1>7, <1>8 DEF IInv

-----------------------------------------------------------------------------
(* The steps of a handshake that move no request. *)
LEMMA NothingPlanned ==
  ASSUME step'.scheduled = << >>
  PROVE  StepFits'
<1>1. ToSet(step'.scheduled) = {}
  BY EmptyElements
<1>2. QED
  BY <1>1 DEF StepFits, Planned, InBatch

LEMMA HandBackStep ==
  ASSUME IInv, NEW n \in Npus, HandBack(n)
  PROVE  IInv' /\ Slots' = Slots
<1>1. /\ UNCHANGED <<kv, requests, queues, nextId, finished, shipping>>
      /\ busy' = busy \ {n} /\ ran' = [ran EXCEPT ![n] = @ + 1] /\ step.at = "idle"
  BY DEF HandBack, At
<1>2. PICK k \in DOMAIN inflight :
        /\ inflight' = [inflight EXCEPT ![k] = Ended(@, n)]
        /\ step' = IF BatchOver(inflight'[k])
                   THEN [Idle EXCEPT !.at = "complete", !.npu = n, !.todo = inflight[k].work]
                   ELSE [Idle EXCEPT !.at = "schedule", !.npu = n]
  BY DEF HandBack
<1>3. TypeOK
  BY DEF IInv
<1>4. inflight \in Seq(Batches) /\ k \in 1..Len(inflight) /\ inflight[k] \in Batches
  BY <1>3, Typed, ElementOfSeq
<1>5. inflight' \in Seq(Batches)
  <2>1. Ended(inflight[k], n) \in Batches
    BY <1>4 DEF Ended, Batches
  <2>2. QED
    BY <1>2, <1>4, <2>1, ExceptSeq
<1>6. step' \in Steps /\ step'.scheduled = << >>
  <2>1. inflight[k].work \in Seq(Work)
    BY <1>4 DEF Batches
  <2>2. QED
    BY <1>2, <2>1, IdleTyped DEF Steps, Idle
<1>7. ran' \in [Npus -> Nat] /\ busy' \subseteq Npus
  BY <1>1, <1>3, Typed
<1>8. TypeOK'
  BY <1>1, <1>3, <1>5, <1>6, <1>7, Typed, TypedNext DEF requests, queues
<1>9. step'.scheduled = step.scheduled
  BY <1>1, <1>6 DEF IInv, StepFits
<1>10. QED
  BY <1>1, <1>6, <1>8, <1>9, NothingPlanned, Unmoved

(* What only moves the handshake on, and the batches in flight. *)
LEMMA HandshakeTyped ==
  ASSUME TypeOK, UNCHANGED <<requests, queues, nextId, finished, shipping, ran>>,
         inflight' \in Seq(Batches), busy' \subseteq Npus, step' \in Steps
  PROVE  TypeOK'
  BY Typed, TypedNext DEF requests, queues

LEMMA PollStep ==
  ASSUME IInv, NEW n \in Npus, Poll(n)
  PROVE  IInv' /\ Slots' = Slots
<1>1. /\ UNCHANGED <<kv, requests, queues, batches, finished, shipping, npus>>
      /\ step' = [Idle EXCEPT !.at = "schedule", !.npu = n] /\ step.at = "idle"
  BY DEF Poll, At
<1>2. TypeOK
  BY DEF IInv
<1>3. step' \in Steps /\ step'.scheduled = << >>
  BY <1>1, IdleTyped DEF Steps, Idle
<1>4. TypeOK'
  BY <1>1, <1>2, <1>3, Typed, HandshakeTyped DEF batches, npus
<1>5. step'.scheduled = step.scheduled
  BY <1>1, <1>3 DEF IInv, StepFits
<1>6. QED
  BY <1>1, <1>3, <1>4, <1>5, NothingPlanned, Unmoved

LEMMA SkipFinishedStep ==
  ASSUME IInv, SkipFinished
  PROVE  IInv' /\ Slots' = Slots
<1>1. /\ UNCHANGED <<kv, requests, queues, batches, finished, shipping, npus>>
      /\ step' = [step EXCEPT !.todo = Tail(@)] /\ step.at = "complete" /\ step.todo # << >>
  BY DEF SkipFinished, At
<1>2. TypeOK
  BY DEF IInv
<1>3. step \in Steps
  BY <1>2, Typed
<1>4. Tail(step.todo) \in Seq(Work)
  BY <1>1, <1>3, HeadTailProperties DEF Steps
<1>5. step' \in Steps /\ step'.scheduled = step.scheduled
  BY <1>1, <1>3, <1>4 DEF Steps
<1>6. TypeOK'
  BY <1>1, <1>2, <1>5, Typed, HandshakeTyped DEF batches, npus
<1>7. step.scheduled = << >>
  BY <1>1 DEF IInv, StepFits
<1>8. QED
  BY <1>1, <1>5, <1>6, <1>7, NothingPlanned, Unmoved

LEMMA DropBatchStep ==
  ASSUME IInv, DropBatch
  PROVE  IInv' /\ Slots' = Slots
<1>1. /\ UNCHANGED <<kv, requests, queues, nextId, finished, shipping, npus>>
      /\ inflight' = Kept(inflight, {batch \in ToSet(inflight) : ~BatchOver(batch)})
      /\ \E where \in {"schedule", "handover"} : step' = [step EXCEPT !.at = where]
      /\ step.at = "complete"
  BY DEF DropBatch, At, Goto
<1>2. TypeOK
  BY DEF IInv
<1>3. step \in Steps /\ inflight \in Seq(Batches)
  BY <1>2, Typed
<1>4. inflight' \in Seq(Batches)
  BY <1>1, <1>3, KeptProperties
<1>5. step' \in Steps /\ step'.scheduled = step.scheduled
  BY <1>1, <1>3 DEF Steps
<1>6. TypeOK'
  BY <1>1, <1>2, <1>4, <1>5, Typed, HandshakeTyped DEF npus
<1>7. step.scheduled = << >>
  BY <1>1 DEF IInv, StepFits
<1>8. QED
  BY <1>1, <1>5, <1>6, <1>7, NothingPlanned, Unmoved

LEMMA JoinBatchStep ==
  ASSUME IInv, JoinBatch
  PROVE  IInv' /\ Slots' = Slots
<1>1. /\ UNCHANGED <<kv, requests, queues, nextId, finished, shipping, ran>>
      /\ busy' = busy \cup {step.npu} /\ step' = Idle /\ step.at = "schedule"
  BY DEF JoinBatch, At, Return
<1>2. PICK k \in DOMAIN inflight : inflight' = [inflight EXCEPT ![k].fired = @ \cup {step.npu}]
  BY DEF JoinBatch, Joinable
<1>3. TypeOK
  BY DEF IInv
<1>4. /\ inflight \in Seq(Batches) /\ k \in 1..Len(inflight) /\ inflight[k] \in Batches
      /\ step.npu \in Npus
  BY <1>3, Typed, ElementOfSeq DEF Steps
<1>5. inflight' \in Seq(Batches)
  <2>1. [inflight[k] EXCEPT !.fired = @ \cup {step.npu}] \in Batches
    BY <1>4 DEF Batches
  <2>2. QED
    BY <1>2, <1>4, <2>1, ExceptSeq
<1>6. step' \in Steps /\ step'.scheduled = << >>
  BY <1>1, IdleTyped DEF Idle
<1>7. TypeOK'
  BY <1>1, <1>3, <1>4, <1>5, <1>6, Typed, HandshakeTyped
<1>8. step'.scheduled = step.scheduled
  BY <1>1, <1>6 DEF IInv, StepFits
<1>9. QED
  BY <1>1, <1>6, <1>7, <1>8, NothingPlanned, Unmoved

(* Pass and NothingToBuild: the handshake ends with nothing scheduled. *)
LEMMA ReturnStep ==
  ASSUME IInv, Return, step.scheduled = << >>,
         UNCHANGED <<kv, requests, queues, batches, finished, shipping, npus>>
  PROVE  IInv' /\ Slots' = Slots
<1>1. TypeOK
  BY DEF IInv
<1>2. step' \in Steps /\ step'.scheduled = << >>
  BY IdleTyped DEF Return, Idle
<1>3. TypeOK'
  BY <1>1, <1>2, Typed, HandshakeTyped DEF batches, npus
<1>4. QED
  BY <1>2, <1>3, NothingPlanned, Unmoved

(* StartSchedule, EndRunning, EndWaiting: what is scheduled stays so. *)
LEMMA GotoStep ==
  ASSUME IInv, UNCHANGED <<kv, requests, queues, batches, finished, shipping, npus>>,
         step' \in Steps, step'.scheduled = step.scheduled,
         step'.at \in {"waiting", "build"} \/ step.scheduled = << >>
  PROVE  IInv' /\ Slots' = Slots
<1>1. TypeOK'
  BY Typed, HandshakeTyped DEF IInv, batches, npus
<1>2. StepFits'
  <2>1. CASE step.scheduled = << >>
    BY <2>1, NothingPlanned
  <2>2. CASE step'.at \in {"waiting", "build"}
    BY <2>2 DEF IInv, StepFits, At, requests, queues
  <2>3. QED
    BY <2>1, <2>2
<1>3. QED
  BY <1>1, <1>2, Unmoved

LEMMA StartScheduleStep ==
  ASSUME IInv, StartSchedule
  PROVE  IInv' /\ Slots' = Slots
<1>1. step \in Steps /\ MaxBatchedTokens \in Nat
  BY Typed, SchedulerAssumption DEF IInv
<1>2. /\ step' \in Steps /\ step'.scheduled = step.scheduled /\ step.scheduled = << >>
  BY <1>1 DEF StartSchedule, Steps, IInv, StepFits, At
<1>3. QED
  BY <1>2, GotoStep DEF StartSchedule

LEMMA EndRunningStep ==
  ASSUME IInv, EndRunning
  PROVE  IInv' /\ Slots' = Slots
<1>1. step \in Steps
  BY Typed DEF IInv
<1>2. step' \in Steps /\ step'.scheduled = step.scheduled /\ step'.at \in {"waiting", "build"}
  BY <1>1 DEF EndRunning, Steps, Goto
<1>3. QED
  BY <1>2, GotoStep DEF EndRunning

LEMMA EndWaitingStep ==
  ASSUME IInv, EndWaiting
  PROVE  IInv' /\ Slots' = Slots
<1>1. step \in Steps
  BY Typed DEF IInv
<1>2. step' \in Steps /\ step'.scheduled = step.scheduled /\ step'.at \in {"waiting", "build"}
  BY <1>1 DEF EndWaiting, Steps, Goto
<1>3. QED
  BY <1>2, GotoStep DEF EndWaiting

LEMMA SkipRunningStep ==
  ASSUME IInv, SkipRunning
  PROVE  IInv' /\ Slots' = Slots
<1>1. step \in Steps /\ step' = [step EXCEPT !.i = @ + 1]
  BY Typed DEF IInv, SkipRunning
<1>2. step' \in Steps /\ step'.scheduled = step.scheduled /\ step'.at = step.at /\ step'.i = step.i + 1
      /\ step.i \in Nat
  BY SMTT(30), <1>1 DEF Steps
<1>3. UNCHANGED <<kv, requests, queues, batches, finished, shipping, npus>>
  BY DEF SkipRunning
<1>4. TypeOK'
  BY <1>2, <1>3, Typed, HandshakeTyped DEF IInv, batches, npus
<1>5. StepFits'
  <2>1. DOMAIN running \subseteq Nat
    BY Typed, LenProperties, SMTT(30) DEF IInv
  <2>2. \A j \in DOMAIN running : j >= step.i + 1 => j >= step.i
    BY <1>2, <2>1
  <2>3. QED
    BY <1>2, <1>3, <2>2 DEF IInv, StepFits, At, InBatch, requests, queues
<1>6. QED
  BY <1>2, <1>3, <1>4, <1>5, Unmoved

-----------------------------------------------------------------------------
(* A request arrives. *)
LEMMA Arrival ==
  ASSUME TypeOK, InLine, NEW r \in Reqs, status[r] = "future",
         NEW x \in Reqs, status[x] # "future"
  PROVE  x < r
<1>1. x \in Nat /\ r \in Nat /\ x # r
  BY ReqsNat
<1>2. ~(r < x)
  BY DEF InLine
<1>3. QED
  BY <1>1, <1>2

LEMMA AddRequestStep ==
  ASSUME IInv, NEW r \in Reqs, AddRequest(r)
  PROVE  IInv' /\ Slots' = Slots
<1>1. /\ UNCHANGED <<kv, computed, reached, isInit, running, batches, finished, shipping, npus, step>>
      /\ status[r] = "future" /\ \A q \in Reqs : q < r => status[q] # "future"
      /\ status' = [status EXCEPT ![r] = "waiting"]
      /\ waiting' = Insort(waiting, r)
  BY DEF AddRequest
<1>2. TypeOK /\ InLine
  BY DEF IInv
<1>3. waiting \in Seq(Reqs) /\ running \in Seq(Reqs)
  BY <1>2, Typed
<1>4. ToSet(waiting) \subseteq Reqs /\ ToSet(running) \subseteq Reqs
  BY <1>3, ToSetType
<1>5. \A x \in ToSet(waiting) \cup ToSet(running) : x < r
  <2>1. ASSUME NEW x \in ToSet(waiting) \cup ToSet(running) PROVE x < r
    <3>1. x \in Reqs /\ status[x] # "future"
      BY <1>2, <1>4 DEF InLine
    <3>2. QED
      BY <1>1, <1>2, <3>1, Arrival
  <2>2. QED
    BY <2>1
<1>6. waiting' = Append(waiting, r)
  BY <1>1, <1>3, <1>5, InsortAppends
<1>7. waiting' \in Seq(Reqs) /\ ToSet(waiting') = ToSet(waiting) \cup {r} /\ Ordered(waiting')
  BY <1>2, <1>3, <1>5, <1>6, EndsQueue DEF InLine
<1>8. /\ status' \in [Reqs -> {"future", "waiting", "running", "preempted", "finished"}]
      /\ status'[r] = "waiting" /\ \A x \in Reqs \ {r} : status'[x] = status[x]
  BY <1>1, <1>2, Typed
<1>9. TypeOK'
  BY <1>1, <1>2, <1>7, <1>8, Typed, TypedNext DEF batches, npus
<1>10. Slots' = Slots /\ Unfinished' = Unfinished
  BY <1>1, <1>8, SlotsAreBy, SlotsAreByNext DEF Unfinished
<1>11. Booked(kv', computed', Slots', Unfinished') /\ Lengths' /\ StepFits'
  BY <1>1, <1>10 DEF IInv, Lengths, StepFits, At, InBatch
<1>12. RunningHold'
  BY <1>1, <1>8 DEF IInv, RunningHold
<1>13. InLine'
  <2>1. \A x \in Reqs : /\ x \in ToSet(running') <=> status'[x] = "running"
                        /\ x \in ToSet(waiting') <=> status'[x] \in {"waiting", "preempted"}
                        /\ x \in ToSet(finished') <=> status'[x] = "finished"
    BY <1>1, <1>2, <1>7, <1>8 DEF InLine
  <2>2. Distinct(finished') /\ Ordered(running')
    BY <1>1, <1>2 DEF InLine
  <2>3. \A x \in ToSet(running'), q \in ToSet(waiting') : x < q
    BY <1>1, <1>2, <1>5, <1>7 DEF InLine
  <2>4. ASSUME NEW x \in Reqs, NEW q \in Reqs, status'[x] = "future", x < q
        PROVE  status'[q] = "future"
    <3>1. x # r /\ status[x] = "future" /\ ~(x < r)
      BY <1>1, <1>8, <2>4
    <3>2. q # r /\ status[q] = "future"
      BY <1>2, <2>4, <3>1 DEF InLine
    <3>3. QED
      BY <1>8, <3>2
  <2>5. QED
    BY <1>7, <2>1, <2>2, <2>3, <2>4 DEF InLine
<1>14. QED
  BY <1>9, <1>10, <1>11, <1>12, <1>13 DEF IInv

-----------------------------------------------------------------------------
(* The request that the running loop has come to. *)
LEMMA Served ==
  ASSUME IInv, Serving
  PROVE  /\ Current \in Reqs /\ status[Current] = "running" /\ kv.table[Current] # << >>
         /\ step.i \in DOMAIN running /\ Current \in Unfinished /\ Current \in ToSet(running)
         /\ ~InBatch(Current) /\ Slots[Current] = computed[Current]
         /\ computed[Current] \in Nat /\ reached[Current] \in Nat \ {0}
         /\ step.budget \in Nat /\ step.at = "running"
<1>1. TypeOK /\ InLine /\ step \in Steps /\ running \in Seq(Reqs)
  BY Typed DEF IInv
<1>2. step.i \in Nat \ {0} /\ step.i <= Len(running) /\ step.at = "running" /\ step.budget \in Nat
  BY <1>1 DEF Serving, Steps, At
<1>3. step.i \in DOMAIN running /\ Current \in Reqs /\ Current \in ToSet(running)
  BY <1>1, <1>2, LenProperties, ElementOfSeq DEF Current, ToSet
<1>4. status[Current] = "running" /\ Current \in Unfinished
  BY <1>1, <1>3 DEF InLine, Unfinished
<1>5. ~InBatch(Current)
  BY <1>2, <1>3 DEF IInv, StepFits, At, Current
<1>6. Slots[Current] = computed[Current]
  BY <1>3, <1>5 DEF Slots, Granted
<1>7. kv.table[Current] # << >>
  BY <1>3, <1>4 DEF IInv, RunningHold
<1>8. computed[Current] \in Nat /\ reached[Current] \in Nat /\ reached[Current] >= 1
  BY <1>1, <1>3, <1>4, Typed DEF IInv, Lengths
<1>9. QED
  BY <1>2, <1>3, <1>4, <1>5, <1>6, <1>7, <1>8

(* What it may get: tokens that are left to compute, within the budget.    *)
LEMMA NewTokens ==
  ASSUME IInv, Serving, NumNewTokens(Current) > 0
  PROVE  /\ NumNewTokens(Current) \in Nat \ {0}
         /\ NumNewTokens(Current) <= reached[Current] - computed[Current]
         /\ NumNewTokens(Current) <= step.budget
<1>1. /\ computed[Current] \in Nat /\ reached[Current] \in Nat \ {0} /\ step.budget \in Nat
      /\ LongPrefillThreshold \in Nat
  BY Served, SchedulerAssumption
<1>2. QED
  BY <1>1 DEF NumNewTokens, Capped, Lesser

-----------------------------------------------------------------------------
(* A running request gets slots for more tokens. *)
LEMMA AppendElements ==
  ASSUME NEW S, NEW q \in Seq(S), NEW e \in S
  PROVE  Append(q, e) \in Seq(S) /\ ToSet(Append(q, e)) = ToSet(q) \cup {e}
<1>1. /\ Append(q, e) \in Seq(S) /\ Len(Append(q, e)) = Len(q) + 1 /\ Len(q) \in Nat
      /\ \A i \in 1..Len(q) : Append(q, e)[i] = q[i]
      /\ Append(q, e)[Len(q) + 1] = e
  BY AppendProperties, LenProperties
<1>2. DOMAIN q = 1..Len(q) /\ DOMAIN Append(q, e) = 1..(Len(q) + 1)
  BY <1>1, LenProperties
<1>3. \A i \in 1..(Len(q) + 1) : i \in 1..Len(q) \/ i = Len(q) + 1
  BY <1>1
<1>4. ToSet(Append(q, e)) \subseteq ToSet(q) \cup {e}
  BY <1>1, <1>2, <1>3 DEF ToSet
<1>5. ToSet(q) \subseteq ToSet(Append(q, e))
  BY <1>1, <1>2 DEF ToSet
<1>6. e \in ToSet(Append(q, e))
  BY <1>1, <1>2 DEF ToSet
<1>7. QED
  BY <1>1, <1>4, <1>5, <1>6

(* Schedule(r, n, before) of the code, as the step's record. *)
LEMMA ScheduleMoves ==
  ASSUME step \in Steps, NEW r \in Reqs, NEW n \in Nat, n <= step.budget, NEW before \in Nat,
         Schedule(r, n, before)
  PROVE  /\ step' \in Steps /\ step'.at = step.at /\ step'.i = step.i + 1
         /\ ToSet(step'.scheduled) = ToSet(step.scheduled) \cup {[req |-> r, n |-> n, before |-> before]}
         /\ step'.todo = step.todo
<1> DEFINE w0 == [req |-> r, n |-> n, before |-> before]
<1>1. w0 \in Work /\ step.scheduled \in Seq(Work)
  BY DEF Work, Steps
<1>2. /\ Append(step.scheduled, w0) \in Seq(Work)
      /\ ToSet(Append(step.scheduled, w0)) = ToSet(step.scheduled) \cup {w0}
  BY <1>1, AppendElements
<1> DEFINE more == Append(step.scheduled, w0)
<1>3. step' = [step EXCEPT !.scheduled = more, !.budget = step.budget - n, !.i = step.i + 1]
  BY DEF Schedule
<1>4. step.budget - n \in Nat /\ step.i + 1 \in Nat \ {0} /\ more \in Seq(Work)
  BY <1>2 DEF Steps
<1> HIDE DEF w0, more
<1>5. /\ step' \in Steps /\ step'.at = step.at /\ step'.i = step.i + 1
      /\ step'.scheduled = more /\ step'.todo = step.todo
  BY <1>3, <1>4 DEF Steps
<1>6. QED
  BY <1>2, <1>5 DEF w0, more

LEMMA ServeRunningStep ==
  ASSUME IInv, ServeRunning
  PROVE  IInv' /\ With(Slots, Current, computed[Current] + NumNewTokens(Current), Slots')
<1> DEFINE r == Current
<1> DEFINE n == NumNewTokens(Current)
<1> DEFINE W == ToSet(step.scheduled)
<1> DEFINE V == ToSet(step'.scheduled)
<1>1. /\ Serving /\ n > 0 /\ SlotsFit(kv, r, computed[r], n, NoHit)
      /\ kv' = AllocateSlots(kv, r, computed[r], reached[r], n, NoHit)
      /\ Schedule(r, n, computed[r])
      /\ UNCHANGED <<requests, queues, batches, finished, shipping, npus>>
  BY DEF ServeRunning
<1>2. /\ r \in Reqs /\ status[r] = "running" /\ kv.table[r] # << >>
      /\ step.i \in DOMAIN running /\ r \in Unfinished /\ r \in ToSet(running)
      /\ ~InBatch(r) /\ Slots[r] = computed[r]
      /\ computed[r] \in Nat /\ reached[r] \in Nat \ {0}
      /\ step.budget \in Nat /\ step.at = "running"
  BY <1>1, Served
<1>3. n \in Nat \ {0} /\ n <= reached[r] - computed[r] /\ n <= step.budget
  BY <1>1, NewTokens
<1>4. r = running[step.i]
  BY DEF Current
<1> HIDE DEF r, n
<1>5. /\ TypeOK /\ InLine /\ step \in Steps /\ computed \in [Reqs -> Nat] /\ running \in Seq(Reqs)
      /\ Planned(W, computed, running)
  BY Typed DEF IInv, StepFits
<1>6. /\ step' \in Steps /\ step'.at = step.at /\ step'.i = step.i + 1
      /\ V = W \cup {[req |-> r, n |-> n, before |-> computed[r]]}
  BY <1>1, <1>2, <1>3, <1>5, ScheduleMoves
<1>7. Missing(W, r)
  BY <1>2 DEF InBatch, Missing
<1>8. /\ computed' = computed /\ reached' = reached /\ status' = status /\ isInit' = isInit
      /\ running' = running /\ waiting' = waiting /\ finished' = finished
      /\ inflight' = inflight /\ nextId' = nextId /\ shipping' = shipping
      /\ ran' = ran /\ busy' = busy
  BY <1>1 DEF requests, queues, batches, npus
<1> HIDE DEF W, V
<1>9. /\ Planned(V, computed, running)
      /\ With(SlotsBy(W, computed), r, computed[r] + n, SlotsBy(V, computed))
  <2>1. With(computed, r, computed[r], computed) /\ ToSet(running) = ToSet(running) \cup {r} /\ n > 0
    BY <1>2, <1>3, <1>5 DEF With
  <2>2. QED
    BY <1>2, <1>3, <1>5, <1>6, <1>7, <2>1, PlanMore
<1>10. With(Slots, r, computed[r] + n, Slots')
  BY <1>8, <1>9, SlotsAreBy, SlotsAreByNext DEF W, V
<1>11. TypeOK'
  BY <1>5, <1>6, <1>8, Typed, TypedNext
<1>12. Slots \in [Reqs -> Nat]
  BY <1>5, GrantedByPlan, SlotsAreBy DEF W
<1>13. /\ Booked(kv', computed, Slots', Unfinished) /\ OnlyTableOf(r, kv, kv')
  <2>1. Booked(kv, computed, Slots, Unfinished) /\ Unfinished \in SUBSET Reqs
    BY DEF IInv, Unfinished
  <2>2. QED
    BY <1>1, <1>2, <1>3, <1>5, <1>10, <1>12, <2>1, ExtendBooked
<1>14. Unfinished' = Unfinished /\ InLine'
  BY <1>8 DEF IInv, InLine, Unfinished
<1>15. Slots'[r] = computed[r] + n /\ \A x \in Reqs \ {r} : Slots'[x] = Slots[x]
  BY <1>10, <1>12, <1>2 DEF With
<1>16. RunningHold'
  <2>1. kv'.table[r] # << >>
    <3>1. Slots'[r] \in Nat /\ Slots'[r] # 0 /\ Unfinished \in SUBSET Reqs
      BY <1>2, <1>3, <1>15 DEF Unfinished
    <3>2. Booked(kv', computed, Slots', Unfinished)
      BY <1>13
    <3>3. kv'.table[r] = << >> <=> Slots'[r] = 0
      BY ONLY <1>2, <3>1, <3>2, HoldsWhenGranted
    <3>4. QED
      BY <3>1, <3>3
  <2>2. \A x \in Reqs \ {r} : kv'.table[x] = kv.table[x]
    BY <1>13 DEF OnlyTableOf
  <2>3. QED
    BY <1>2, <1>8, <2>1, <2>2 DEF IInv, RunningHold
<1>17. Lengths'
  <2>1. Slots'[r] <= reached[r]
    BY <1>2, <1>3, <1>15
  <2>2. \A x \in Unfinished \ {r} : x \in Reqs \ {r}
    BY DEF Unfinished
  <2>3. QED
    BY <1>8, <1>14, <1>15, <2>1, <2>2 DEF IInv, Lengths
<1>18. StepFits'
  <2>1. ASSUME NEW j \in DOMAIN running, j >= step.i + 1, NEW w \in V PROVE w.req # running[j]
    <3>1. j \in Nat /\ step.i \in Nat /\ j >= step.i /\ step.i < j
      BY SMTT(30), <1>2, <1>5, <2>1, LenProperties
    <3>2. CASE w \in W
      BY <1>2, <2>1, <3>1, <3>2 DEF IInv, StepFits, At, InBatch, W
    <3>3. CASE w = [req |-> r, n |-> n, before |-> computed[r]]
      <4>1. r < running[j] /\ r \in Nat
        BY <1>2, <1>4, <1>5, <3>1, ReqsNat DEF InLine, Ordered
      <4>2. QED
        BY <3>3, <4>1
    <3>4. QED
      BY <1>6, <2>1, <3>2, <3>3
  <2>2. QED
    BY <1>2, <1>6, <1>8, <1>9, <2>1 DEF StepFits, At, InBatch, V
<1>19. IInv'
  BY <1>8, <1>11, <1>13, <1>14, <1>16, <1>17, <1>18 DEF IInv
<1>20. QED
  BY <1>10, <1>19 DEF r, n

-----------------------------------------------------------------------------
(* The tail of running is preempted. *)
LEMMA VictimFacts ==
  ASSUME IInv, Serving
  PROVE  /\ Victim \in Reqs /\ status[Victim] = "running" /\ Victim \in Unfinished
         /\ Victim \in ToSet(running) /\ kv.table[Victim] # << >>
         /\ ~InBatch(Victim) /\ Slots[Victim] = computed[Victim]
         /\ Len(running) \in Nat \ {0} /\ Victim = running[Len(running)]
         /\ running # << >>
<1>1. TypeOK /\ InLine /\ step \in Steps /\ running \in Seq(Reqs)
  BY Typed DEF IInv
<1>2. /\ step.i \in Nat \ {0} /\ step.i <= Len(running) /\ step.at = "running"
      /\ Len(running) \in Nat
  BY <1>1, LenProperties DEF Serving, Steps, At
<1>3. Len(running) \in Nat \ {0} /\ Len(running) >= step.i
  BY <1>2
<1>4. Len(running) \in DOMAIN running /\ Victim = running[Len(running)]
  BY <1>1, <1>3, LenProperties DEF Victim, Last
<1>5. Victim \in Reqs /\ Victim \in ToSet(running)
  BY <1>1, <1>4, ElementOfSeq, LenProperties DEF ToSet
<1>6. status[Victim] = "running" /\ Victim \in Unfinished
  BY <1>1, <1>5 DEF InLine, Unfinished
<1>7. ~InBatch(Victim)
  BY <1>2, <1>3, <1>4 DEF IInv, StepFits, At
<1>8. Slots[Victim] = computed[Victim]
  BY <1>5, <1>7 DEF Slots, Granted
<1>9. kv.table[Victim] # << >>
  BY <1>5, <1>6 DEF IInv, RunningHold
<1>10. running # << >>
  BY <1>3
<1>11. QED
  BY <1>3, <1>4, <1>5, <1>6, <1>7, <1>8, <1>9, <1>10

LEMMA PreemptTailStep ==
  ASSUME IInv, PreemptTail
  PROVE  IInv' /\ With(computed, Victim, 0, computed') /\ With(Slots, Victim, 0, Slots')
<1> DEFINE v == Victim
<1> DEFINE W == ToSet(step.scheduled)
<1> DEFINE n == Len(running) - 1
<1>1. /\ Serving /\ kv' = Free(kv, v)
      /\ status' = [status EXCEPT ![v] = "preempted"]
      /\ computed' = [computed EXCEPT ![v] = 0]
      /\ running' = Without(running, v)
      /\ waiting' = <<v>> \o waiting
      /\ \E where \in {step.at, "build"} :
           step' = [step EXCEPT !.preempted = @ \cup {v}, !.at = where]
      /\ UNCHANGED <<reached, isInit, batches, finished, shipping, npus>>
  BY DEF PreemptTail
<1>2. /\ v \in Reqs /\ status[v] = "running" /\ v \in Unfinished /\ v \in ToSet(running)
      /\ kv.table[v] # << >> /\ ~InBatch(v) /\ Slots[v] = computed[v]
      /\ Len(running) \in Nat \ {0} /\ v = running[Len(running)] /\ v = Last(running)
      /\ running # << >>
  BY <1>1, VictimFacts DEF Victim
<1> HIDE DEF v
<1>3. /\ TypeOK /\ InLine /\ step \in Steps /\ computed \in [Reqs -> Nat]
      /\ running \in Seq(Reqs) /\ waiting \in Seq(Reqs) /\ Planned(W, computed, running)
  BY Typed DEF IInv, StepFits
<1>4. /\ step' \in Steps /\ step'.scheduled = step.scheduled /\ step'.i = step.i
      /\ step'.at \in {step.at, "build"}
  <2>1. PICK where \in {step.at, "build"} :
             step' = [step EXCEPT !.preempted = step.preempted \cup {v}, !.at = where]
    BY <1>1
  <2>2. step.at = "running"
    BY <1>1 DEF Serving, At
  <2>3. step.preempted \cup {v} \in SUBSET Reqs
    BY <1>2, <1>3 DEF Steps
  <2>4. QED
    BY <1>3, <2>1, <2>2, <2>3 DEF Steps
<1>5. /\ running' \in Seq(Reqs) /\ ToSet(running') = ToSet(running) \ {v} /\ Ordered(running')
  BY <1>1, <1>3, LeavesQueue DEF InLine
<1>6. running' = SubSeq(running, 1, n) /\ n \in Nat
  BY <1>1, <1>2, <1>3, LastLeavesQueue DEF InLine
<1>7. /\ Len(running') = n /\ \A j \in 1..n : running'[j] = running[j] /\ j \in DOMAIN running
  <2>1. \A j \in 1..n : running[j] \in Reqs /\ j \in DOMAIN running
    BY <1>2, <1>3, LenProperties, ElementOfSeq
  <2>2. /\ Len(running') = IF 1 <= n THEN n - 1 + 1 ELSE 0
        /\ \A j \in 1..(n - 1 + 1) : running'[j] = running[1 + j - 1]
    BY <1>6, <2>1, SubSeqProperties
  <2>3. (1 <= n => n - 1 + 1 = n) /\ (~(1 <= n) => n = 0) /\ n - 1 + 1 = n
    <3>1. \A m \in Nat : (1 <= m => m - 1 + 1 = m) /\ (~(1 <= m) => m = 0) /\ m - 1 + 1 = m
      OBVIOUS
    <3> HIDE DEF n
    <3>2. QED
      BY <1>6, <3>1
  <2>4. \A j \in 1..n : 1 + j - 1 = j
    BY SMTT(30)
  <2>5. Len(running') = n
    BY <2>2, <2>3
  <2>6. \A j \in 1..n : running'[j] = running[j]
    BY <2>2, <2>3, <2>4
  <2>7. QED
    BY <2>1, <2>5, <2>6
<1>8. /\ \A x \in ToSet(running') : x < v
      /\ \A x \in ToSet(waiting) : v < x
  <2>1. ASSUME NEW j \in DOMAIN running' PROVE running'[j] < v
    <3>1. j \in 1..n /\ j < Len(running) /\ Len(running) \in DOMAIN running
      BY <1>2, <1>3, <1>5, <1>7, <2>1, LenProperties
    <3>2. running'[j] = running[j] /\ j \in DOMAIN running
      BY <1>7, <3>1
    <3>3. running[j] < running[Len(running)]
      BY <1>3, <3>1, <3>2 DEF InLine, Ordered
    <3>4. QED
      BY <1>2, <3>2, <3>3
  <2>2. \A x \in ToSet(running') : x < v
    BY <2>1 DEF ToSet
  <2>3. QED
    BY <1>2, <1>3, <2>2 DEF InLine
<1>9. waiting' \in Seq(Reqs) /\ ToSet(waiting') = ToSet(waiting) \cup {v} /\ Ordered(waiting')
  <2>1. Ordered(waiting)
    BY <1>3 DEF InLine
  <2>2. QED
    BY <1>1, <1>2, <1>3, <1>8, <2>1, HeadsQueue
<1>10. /\ status' \in [Reqs -> {"future", "waiting", "running", "preempted", "finished"}]
       /\ status'[v] = "preempted" /\ \A x \in Reqs \ {v} : status'[x] = status[x]
       /\ computed' \in [Reqs -> Nat] /\ With(computed, v, 0, computed')
  BY <1>1, <1>2, <1>3, Typed DEF With
<1>11. /\ reached' = reached /\ isInit' = isInit /\ finished' = finished /\ shipping' = shipping
       /\ inflight' = inflight /\ nextId' = nextId /\ ran' = ran /\ busy' = busy
  BY <1>1 DEF batches, npus
<1>12. TypeOK'
  BY <1>3, <1>4, <1>5, <1>9, <1>10, <1>11, Typed, TypedNext
<1>13. Missing(W, v)
  BY <1>2 DEF InBatch, Missing
<1> HIDE DEF W, n
<1>14. Planned(W, computed', running') /\ With(SlotsBy(W, computed), v, 0, SlotsBy(W, computed'))
  BY <1>2, <1>3, <1>5, <1>10, <1>13, PlanWithout
<1>15. With(Slots, v, 0, Slots')
  BY <1>4, <1>14, SlotsAreBy, SlotsAreByNext DEF W
<1>16. Slots \in [Reqs -> Nat]
  BY <1>3, GrantedByPlan, SlotsAreBy DEF W
<1>17. /\ Booked(kv', computed', Slots', Unfinished) /\ OnlyTableOf(v, kv, kv')
       /\ kv'.table[v] = << >>
  <2>1. Booked(kv, computed, Slots, Unfinished) /\ Unfinished \in SUBSET Reqs
    BY DEF IInv, Unfinished
  <2>2. kv' = Free(kv, v) /\ v \in Unfinished /\ With(computed, v, 0, computed')
    BY <1>1, <1>2, <1>10
  <2>3. QED
    BY ONLY <1>3, <1>15, <1>16, <2>1, <2>2, PreemptBooked, ZenonT(40)
<1>18. Unfinished' = Unfinished
  BY <1>2, <1>10 DEF Unfinished
<1>19. RunningHold'
  BY <1>10, <1>17 DEF IInv, RunningHold, OnlyTableOf
<1>20. Lengths'
  <2>1. Slots'[v] = 0 /\ \A x \in Reqs \ {v} : Slots'[x] = Slots[x]
    BY <1>2, <1>15, <1>16 DEF With
  <2>2. reached[v] \in Nat
    BY <1>2, <1>3, Typed
  <2>3. \A x \in Unfinished \ {v} : x \in Reqs \ {v}
    BY DEF Unfinished
  <2>4. QED
    BY <1>11, <1>18, <2>1, <2>2, <2>3 DEF IInv, Lengths
<1>21. InLine'
  <2>1. \A x \in Reqs : /\ x \in ToSet(running') <=> status'[x] = "running"
                        /\ x \in ToSet(waiting') <=> status'[x] \in {"waiting", "preempted"}
                        /\ x \in ToSet(finished') <=> status'[x] = "finished"
    <3>1. ASSUME NEW x \in Reqs \ {v}
          PROVE  /\ x \in ToSet(running') <=> status'[x] = "running"
                 /\ x \in ToSet(waiting') <=> status'[x] \in {"waiting", "preempted"}
                 /\ x \in ToSet(finished') <=> status'[x] = "finished"
      BY <1>3, <1>5, <1>9, <1>10, <1>11 DEF InLine
    <3>2. /\ v \notin ToSet(running') /\ v \in ToSet(waiting') /\ v \notin ToSet(finished')
      BY <1>2, <1>3, <1>5, <1>9, <1>11 DEF InLine
    <3>3. QED
      BY <1>10, <3>1, <3>2
  <2>2. Distinct(finished')
    BY <1>3, <1>11 DEF InLine
  <2>3. \A x \in ToSet(running'), q \in ToSet(waiting') : x < q
    BY <1>3, <1>5, <1>8, <1>9 DEF InLine
  <2>4. \A x, q \in Reqs : status'[x] = "future" /\ x < q => status'[q] = "future"
    BY ZenonT(40), <1>2, <1>3, <1>10 DEF InLine
  <2>5. QED
    BY <1>5, <1>9, <2>1, <2>2, <2>3, <2>4 DEF InLine
<1>22. StepFits'
  <2>1. ASSUME step'.at = "running", NEW j \in DOMAIN running', j >= step.i
        PROVE  Missing(W, running'[j])
    <3>1. j \in 1..n
      BY <1>5, <1>7, LenProperties
    <3>2. step.at = "running" /\ j \in DOMAIN running /\ running'[j] = running[j]
      BY <1>4, <1>7, <2>1, <3>1
    <3>3. ~InBatch(running[j])
      BY <2>1, <3>2 DEF IInv, StepFits, At
    <3>4. QED
      BY <3>2, <3>3 DEF InBatch, Missing, W
  <2>2. step.at = "running"
    BY <1>1 DEF Serving, At
  <2>3. QED
    BY <1>4, <1>14, <2>1, <2>2 DEF StepFits, At, InBatch, Missing, W
<1>23. IInv'
  BY <1>12, <1>17, <1>18, <1>19, <1>20, <1>21, <1>22 DEF IInv
<1>24. QED
  BY <1>10, <1>15, <1>23 DEF v

-----------------------------------------------------------------------------
(* The head of waiting is admitted.  It has computed nothing, so it is     *)
(* looked up in the cache.                                                 *)
LEMMA NextFacts ==
  ASSUME IInv, At("waiting"), waiting # << >>
  PROVE  /\ Head(waiting) \in Reqs /\ Head(waiting) \in ToSet(waiting)
         /\ status[Head(waiting)] \in {"waiting", "preempted"}
         /\ Head(waiting) \in Unfinished /\ Head(waiting) \notin ToSet(running)
         /\ kv.table[Head(waiting)] = << >> /\ ~InBatch(Head(waiting))
         /\ computed[Head(waiting)] = 0 /\ Slots[Head(waiting)] = 0
         /\ reached[Head(waiting)] \in Nat \ {0}
         /\ NextHit = GetComputedBlocks(kv, Head(waiting), reached[Head(waiting)])
         /\ HitTokens(NextHit) \in Nat /\ NextBefore = HitTokens(NextHit)
<1> DEFINE r == Head(waiting)
<1>1. /\ TypeOK /\ InLine /\ step \in Steps /\ waiting \in Seq(Reqs)
      /\ computed \in [Reqs -> Nat] /\ reached \in [Reqs -> Nat]
      /\ Planned(ToSet(step.scheduled), computed, running)
  BY Typed DEF IInv, StepFits
<1>2. r \in ToSet(waiting) /\ r \in Reqs
  <2>1. Ordered(waiting)
    BY <1>1 DEF InLine
  <2>2. r \in ToSet(waiting)
    BY <1>1, <2>1, HeadLeavesQueue
  <2>3. QED
    BY <1>1, <2>2, ToSetType
<1>3. status[r] \in {"waiting", "preempted"} /\ r \in Unfinished /\ r \notin ToSet(running)
  BY <1>1, <1>2 DEF InLine, Unfinished
<1>4. kv.table[r] = << >>
  BY <1>2, <1>3 DEF IInv, RunningHold
<1>5. ~InBatch(r)
  BY <1>1, <1>3 DEF InBatch, Planned
<1>6. Slots[r] = computed[r] /\ computed[r] \in Nat /\ reached[r] \in Nat
  BY <1>1, <1>2, <1>5 DEF Slots, Granted
<1> HIDE DEF r
<1>7. computed[r] = 0 /\ Slots[r] = 0
  <2>1. Booked(kv, computed, Slots, Unfinished) /\ Unfinished \in SUBSET Reqs
    BY DEF IInv, Unfinished
  <2>2. Slots[r] \in Nat
    BY <1>6
  <2>3. QED
    BY ONLY <1>3, <1>4, <1>6, <2>1, <2>2, NothingHeld
<1>8. reached[r] \in Nat \ {0}
  BY <1>3, <1>6 DEF IInv, Lengths
<1>9. NextHit = GetComputedBlocks(kv, r, reached[r])
  BY <1>7 DEF NextHit, r
<1>10. HitTokens(NextHit) \in Nat
  <2>1. KVOK(kv)
    BY DEF IInv, Booked
  <2>2. NextHit.npu \in Nat /\ NextHit.lower \in Nat
    BY <1>2, <1>8, <1>9, <2>1, GetComputedBlocksOK
  <2>3. QED
    BY <2>2 DEF HitTokens
<1>11. NextBefore = HitTokens(NextHit)
  BY <1>7, <1>10 DEF NextBefore, r
<1>12. QED
  BY <1>2, <1>3, <1>4, <1>5, <1>7, <1>8, <1>9, <1>10, <1>11 DEF r

(* What it may get. *)
LEMMA NextTokensType ==
  ASSUME IInv, At("waiting"), Admissible
  PROVE  /\ NextTokens \in Nat \ {0} /\ NextTokens <= step.budget
         /\ HitTokens(NextHit) + NextTokens <= reached[Head(waiting)]
<1>1. waiting # << >> /\ NextTokens > 0 /\ step.budget \in Nat /\ LongPrefillThreshold \in Nat
  BY Typed, SchedulerAssumption DEF Admissible, IInv, Steps
<1>2. /\ reached[Head(waiting)] \in Nat \ {0} /\ HitTokens(NextHit) \in Nat
      /\ NextBefore = HitTokens(NextHit)
  BY <1>1, NextFacts
<1>3. QED
  BY <1>1, <1>2 DEF NextTokens, NextWanted, Capped, Lesser

LEMMA AdmitWaitingStep ==
  ASSUME IInv, AdmitWaiting
  PROVE  /\ IInv'
         /\ With(computed, Head(waiting), HitTokens(NextHit), computed')
         /\ With(Slots, Head(waiting), HitTokens(NextHit) + NextTokens, Slots')
<1> DEFINE r == Head(waiting)
<1> DEFINE hit == NextHit
<1> DEFINE n == NextTokens
<1> DEFINE W == ToSet(step.scheduled)
<1> DEFINE V == ToSet(step'.scheduled)
<1>1. /\ At("waiting") /\ Admissible /\ waiting # << >> /\ SlotsFit(kv, r, computed[r], n, hit)
      /\ kv' = AllocateSlots(kv, r, computed[r], reached[r], n, hit)
      /\ computed' = [computed EXCEPT ![r] = NextBefore]
      /\ status' = [status EXCEPT ![r] = "running"]
      /\ running' = Append(running, r)
      /\ Schedule(r, n, NextBefore)
      /\ shipping' = IF PdType = "prefill" THEN [shipping EXCEPT !.hit[r] = HitTokens(hit)]
                     ELSE shipping
      /\ waiting' = Tail(waiting)
      /\ UNCHANGED <<reached, isInit, batches, finished, npus>>
  BY DEF AdmitWaiting, Admissible
<1>2. /\ r \in Reqs /\ r \in ToSet(waiting) /\ status[r] \in {"waiting", "preempted"}
      /\ r \in Unfinished /\ r \notin ToSet(running)
      /\ kv.table[r] = << >> /\ ~InBatch(r) /\ computed[r] = 0 /\ Slots[r] = 0
      /\ reached[r] \in Nat \ {0}
      /\ hit = GetComputedBlocks(kv, r, reached[r])
      /\ HitTokens(hit) \in Nat /\ NextBefore = HitTokens(hit)
  BY <1>1, NextFacts
<1>3. n \in Nat \ {0} /\ n <= step.budget /\ HitTokens(hit) + n <= reached[r]
  BY <1>1, NextTokensType
<1>4. r = Head(waiting)
  OBVIOUS
<1> HIDE DEF r, n, hit
<1>5. /\ TypeOK /\ InLine /\ step \in Steps /\ computed \in [Reqs -> Nat]
      /\ running \in Seq(Reqs) /\ waiting \in Seq(Reqs)
      /\ Ordered(running) /\ Ordered(waiting)
      /\ Planned(W, computed, running)
  BY Typed DEF IInv, StepFits, InLine
<1>6. /\ step' \in Steps /\ step'.at = step.at
      /\ V = W \cup {[req |-> r, n |-> n, before |-> HitTokens(hit)]}
  BY <1>1, <1>2, <1>3, <1>5, ScheduleMoves
<1>7. Missing(W, r)
  BY <1>2 DEF InBatch, Missing
<1>8. /\ reached' = reached /\ isInit' = isInit /\ finished' = finished
      /\ inflight' = inflight /\ nextId' = nextId /\ ran' = ran /\ busy' = busy
  BY <1>1 DEF batches, npus
<1>9. /\ status' \in [Reqs -> {"future", "waiting", "running", "preempted", "finished"}]
      /\ status'[r] = "running" /\ \A x \in Reqs \ {r} : status'[x] = status[x]
      /\ computed' \in [Reqs -> Nat] /\ With(computed, r, HitTokens(hit), computed')
  BY <1>1, <1>2, <1>5, Typed DEF With
<1>10. \A x \in ToSet(running) : x < r
  BY <1>2, <1>5 DEF InLine
<1>11. running' \in Seq(Reqs) /\ ToSet(running') = ToSet(running) \cup {r} /\ Ordered(running')
  BY <1>1, <1>2, <1>5, <1>10, EndsQueue
<1>12. /\ waiting' \in Seq(Reqs) /\ ToSet(waiting') = ToSet(waiting) \ {r} /\ Ordered(waiting')
       /\ \A x \in ToSet(waiting') : r < x
  BY <1>1, <1>4, <1>5, HeadLeavesQueue
<1>13. shipping' \in [hit : [Reqs -> Nat], sent : [Reqs -> Nat]]
  <2>1. shipping \in [hit : [Reqs -> Nat], sent : [Reqs -> Nat]]
    BY <1>5, Typed
  <2>2. [shipping.hit EXCEPT ![r] = HitTokens(hit)] \in [Reqs -> Nat]
    BY <1>2, <2>1
  <2>3. QED
    BY <1>1, <2>1, <2>2
<1>14. TypeOK'
  BY <1>5, <1>6, <1>8, <1>9, <1>11, <1>12, <1>13, Typed, TypedNext
<1> HIDE DEF W, V
<1>15. /\ Planned(V, computed', running')
       /\ With(SlotsBy(W, computed), r, HitTokens(hit) + n, SlotsBy(V, computed'))
  <2>1. r \in Reqs /\ HitTokens(hit) \in Nat /\ n \in Nat /\ n > 0
    BY <1>2, <1>3
  <2>2. /\ computed \in [Reqs -> Nat] /\ Planned(W, computed, running)
        /\ computed' \in [Reqs -> Nat] /\ With(computed, r, HitTokens(hit), computed')
        /\ ToSet(running') = ToSet(running) \cup {r}
        /\ V = W \cup {[req |-> r, n |-> n, before |-> HitTokens(hit)]}
    BY <1>5, <1>6, <1>9, <1>11
  <2>3. QED
    BY ONLY SMTT(30), <1>7, <2>1, <2>2, PlanMore
<1>16. With(Slots, r, HitTokens(hit) + n, Slots')
  BY <1>15, SlotsAreBy, SlotsAreByNext DEF W, V
<1>17. Slots \in [Reqs -> Nat]
  BY <1>5, GrantedByPlan, SlotsAreBy DEF W
<1>18. Booked(kv', computed', Slots', Unfinished) /\ OnlyTableOf(r, kv, kv')
  <2>1. Booked(kv, computed, Slots, Unfinished) /\ Unfinished \in SUBSET Reqs
    BY DEF IInv, Unfinished
  <2>2. /\ r \in Unfinished /\ kv.table[r] = << >> /\ reached[r] \in Nat \ {0}
        /\ hit = GetComputedBlocks(kv, r, reached[r]) /\ SlotsFit(kv, r, computed[r], n, hit)
        /\ kv' = AllocateSlots(kv, r, computed[r], reached[r], n, hit)
        /\ computed \in [Reqs -> Nat] /\ With(computed, r, HitTokens(hit), computed')
    BY <1>1, <1>2, <1>5, <1>9
  <2>3. QED
    BY ONLY <1>3, <1>16, <1>17, <2>1, <2>2, AdmitBooked
<1>19. Unfinished' = Unfinished
  BY <1>2, <1>9 DEF Unfinished
<1>20. Slots'[r] = HitTokens(hit) + n /\ \A x \in Reqs \ {r} : Slots'[x] = Slots[x]
  BY <1>2, <1>16, <1>17 DEF With
<1>21. RunningHold'
  <2>1. kv'.table[r] # << >>
    <3>1. Slots'[r] \in Nat /\ Slots'[r] # 0 /\ Unfinished \in SUBSET Reqs
      BY <1>2, <1>3, <1>20 DEF Unfinished
    <3>2. kv'.table[r] = << >> <=> Slots'[r] = 0
      BY ONLY <1>2, <1>18, <3>1, HoldsWhenGranted
    <3>3. QED
      BY <3>1, <3>2
  <2>2. \A x \in Reqs \ {r} : kv'.table[x] = kv.table[x]
    BY <1>18 DEF OnlyTableOf
  <2>3. QED
    BY <1>2, <1>9, <2>1, <2>2 DEF IInv, RunningHold
<1>22. Lengths'
  <2>1. \A x \in Unfinished \ {r} : x \in Reqs \ {r}
    BY DEF Unfinished
  <2>2. QED
    BY <1>3, <1>8, <1>19, <1>20, <2>1 DEF IInv, Lengths
<1>23. InLine'
  <2>1. \A x \in Reqs : /\ x \in ToSet(running') <=> status'[x] = "running"
                        /\ x \in ToSet(waiting') <=> status'[x] \in {"waiting", "preempted"}
                        /\ x \in ToSet(finished') <=> status'[x] = "finished"
    <3>1. ASSUME NEW x \in Reqs \ {r}
          PROVE  /\ x \in ToSet(running') <=> status'[x] = "running"
                 /\ x \in ToSet(waiting') <=> status'[x] \in {"waiting", "preempted"}
                 /\ x \in ToSet(finished') <=> status'[x] = "finished"
      BY <1>5, <1>8, <1>9, <1>11, <1>12 DEF InLine
    <3>2. /\ r \in ToSet(running') /\ r \notin ToSet(waiting') /\ r \notin ToSet(finished')
      BY <1>2, <1>5, <1>8, <1>11, <1>12 DEF InLine
    <3>3. QED
      BY <1>9, <3>1, <3>2
  <2>2. Distinct(finished')
    BY <1>5, <1>8 DEF InLine
  <2>3. \A x \in ToSet(running'), q \in ToSet(waiting') : x < q
    BY <1>5, <1>11, <1>12 DEF InLine
  <2>4. \A x, q \in Reqs : status'[x] = "future" /\ x < q => status'[q] = "future"
    BY <1>2, <1>5, <1>9 DEF InLine
  <2>5. QED
    BY <1>11, <1>12, <2>1, <2>2, <2>3, <2>4 DEF InLine
<1>24. StepFits'
  BY <1>1, <1>6, <1>15 DEF StepFits, At, V
<1>25. IInv'
  BY <1>14, <1>18, <1>19, <1>21, <1>22, <1>23, <1>24 DEF IInv
<1>26. QED
  BY <1>9, <1>16, <1>25 DEF r, n, hit

-----------------------------------------------------------------------------
(* A batch completes, for one of its requests: nothing happens to it, its  *)
(* blocks are indexed and a token may be appended, or it ends.             *)
Stays == UNCHANGED <<kv, status, computed, reached, running, finished>>

Indexed(r) ==
  /\ kv' = CacheBlocks(kv, r, computed[r])
  /\ \/ reached' = reached
     \/ /\ computed[r] = reached[r] /\ reached[r] + 1 < Output[r]
        /\ reached' = [reached EXCEPT ![r] = @ + 1]
  /\ UNCHANGED <<status, computed, running, finished>>

Ends(r) ==
  /\ status[r] = "running"
  /\ computed[r] = reached[r] /\ reached[r] + 1 = Output[r]
  /\ kv' = Free(CacheBlocks(kv, r, computed[r]), r)
  /\ reached' = [reached EXCEPT ![r] = @ + 1]
  /\ status' = [status EXCEPT ![r] = "finished"]
  /\ running' = Without(running, r)
  /\ finished' = Append(finished, r)
  /\ UNCHANGED computed

LEMMA CompleteCases ==
  ASSUME IInv, CompleteRequest, NEW r, r = Head(step.todo).req
  PROVE  /\ r \in Unfinished /\ step.at = "complete"
         /\ Stays \/ Indexed(r) \/ Ends(r)
<1>1. /\ step.at = "complete" /\ step.todo # << >> /\ status[r] # "finished"
      /\ computed' = computed
      /\ reached' = [reached EXCEPT ![r] = IF CaughtUp(r) THEN @ + 1 ELSE @]
  BY DEF CompleteRequest, Over, At
<1>2. PICK cached \in {kv, CacheBlocks(kv, r, computed[r])} :
        /\ CaughtUp(r) => cached = CacheBlocks(kv, r, computed[r])
        /\ \/ /\ reached'[r] < Output[r]
              /\ kv' = cached
              /\ UNCHANGED <<status, running, finished>>
           \/ /\ reached'[r] >= Output[r]
              /\ kv' = Free(cached, r)
              /\ status' = [status EXCEPT ![r] = "finished"]
              /\ running' = Without(running, r)
              /\ finished' = Append(finished, r)
  BY DEF CompleteRequest
<1>3. TypeOK /\ step \in Steps /\ computed \in [Reqs -> Nat] /\ reached \in [Reqs -> Nat]
  BY Typed DEF IInv
<1>4. r \in Reqs /\ r \in Unfinished
  <2>1. Head(step.todo) \in Work
    BY <1>1, <1>3, HeadTailProperties DEF Steps
  <2>2. QED
    BY <1>1, <2>1 DEF Work, Unfinished
<1>5. step.scheduled = << >>
  BY <1>1 DEF IInv, StepFits
<1>6. Slots[r] = computed[r]
  BY <1>4, <1>5, EmptyElements DEF Slots, Granted, InBatch
<1>7. /\ computed[r] \in Nat /\ reached[r] \in Nat /\ Output[r] \in Nat
      /\ reached[r] >= 1 /\ reached[r] < Output[r] /\ computed[r] <= reached[r]
  BY <1>3, <1>4, <1>6, SchedulerAssumption DEF IInv, Lengths
<1>8. CASE ~CaughtUp(r)
  <2>1. reached' = reached
    BY <1>1, <1>3, <1>8
  <2>2. QED
    BY <1>1, <1>2, <1>4, <1>7, <2>1 DEF Stays, Indexed
<1>9. CASE CaughtUp(r)
  <2>1. /\ computed[r] = reached[r] /\ reached' = [reached EXCEPT ![r] = @ + 1]
        /\ reached'[r] = reached[r] + 1
    BY <1>1, <1>3, <1>4, <1>7, <1>9 DEF CaughtUp
  <2>2. CASE reached'[r] < Output[r]
    BY <1>1, <1>2, <1>4, <1>7, <1>9, <2>1, <2>2 DEF Indexed
  <2>3. CASE reached'[r] >= Output[r]
    <3>1. reached[r] + 1 = Output[r]
      BY <1>7, <2>1, <2>3
    <3>2. kv.table[r] # << >>
      <4>1. Booked(kv, computed, Slots, Unfinished) /\ Unfinished \in SUBSET Reqs
        BY DEF IInv, Unfinished
      <4>2. Slots[r] \in Nat /\ Slots[r] # 0
        BY <1>6, <1>7, <2>1
      <4>3. kv.table[r] = << >> <=> Slots[r] = 0
        BY ONLY <1>4, <4>1, <4>2, HoldsWhenGranted
      <4>4. QED
        BY <4>2, <4>3
    <3>3. status[r] = "running"
      BY <1>4, <3>2 DEF IInv, RunningHold
    <3>4. ~(reached'[r] < Output[r])
      BY <1>7, <2>1, <2>3
    <3>5. QED
      BY <1>1, <1>2, <1>4, <1>9, <2>1, <3>1, <3>3, <3>4 DEF Ends
  <2>4. QED
    BY <1>7, <2>1, <2>2, <2>3
<1>10. QED
  BY <1>8, <1>9

LEMMA CompleteRequestStep ==
  ASSUME IInv, CompleteRequest
  PROVE  IInv' /\ Slots' = Slots
<1> DEFINE r == Head(step.todo).req
<1>1. /\ r \in Unfinished /\ r \in Reqs /\ step.at = "complete"
      /\ Stays \/ Indexed(r) \/ Ends(r)
  BY CompleteCases DEF Unfinished
<1>2. /\ UNCHANGED <<computed, waiting, batches, shipping, npus>>
      /\ step' = [step EXCEPT !.todo = Tail(@)] /\ step.todo # << >>
      /\ isInit' \in {isInit, isInit \ {r}}
  BY DEF CompleteRequest
<1> HIDE DEF r
<1>3. /\ TypeOK /\ InLine /\ step \in Steps /\ computed \in [Reqs -> Nat]
      /\ running \in Seq(Reqs) /\ finished \in Seq(Reqs) /\ Ordered(running)
      /\ reached \in [Reqs -> Nat]
  BY Typed DEF IInv, InLine
<1>4. step' \in Steps /\ step'.scheduled = << >>
  <2>1. Tail(step.todo) \in Seq(Work)
    BY <1>2, <1>3, HeadTailProperties DEF Steps
  <2>2. step.scheduled = << >>
    BY <1>1 DEF IInv, StepFits
  <2>3. QED
    BY <1>2, <1>3, <2>1, <2>2 DEF Steps
<1>5. Slots' = Slots /\ Slots = computed /\ StepFits'
  <2>1. step.scheduled = << >>
    BY <1>1 DEF IInv, StepFits
  <2>2. Slots' = Slots
    BY <1>2, <1>4, <2>1, SlotsAreBy, SlotsAreByNext
  <2>3. Slots = computed
    BY <1>3, <2>1, EmptyElements DEF Slots, Granted, InBatch
  <2>4. QED
    BY <1>4, <2>2, <2>3, NothingPlanned
<1>6. /\ Booked(kv, computed, Slots, Unfinished) /\ Unfinished \in SUBSET Reqs
      /\ Slots \in [Reqs -> Nat]
  BY <1>3, <1>5 DEF IInv, Unfinished
<1>7. /\ waiting' = waiting /\ shipping' = shipping /\ computed' = computed
      /\ inflight' = inflight /\ nextId' = nextId /\ ran' = ran /\ busy' = busy
  BY <1>2 DEF batches, npus
<1>8. isInit' \subseteq Reqs
  BY <1>2, <1>3, Typed
<1>9. CASE Stays
  <2>1. TypeOK'
    BY <1>3, <1>4, <1>7, <1>8, <1>9, Typed, TypedNext DEF Stays
  <2>2. InLine' /\ Lengths' /\ RunningHold' /\ Unfinished' = Unfinished
    BY <1>5, <1>7, <1>9 DEF Stays, IInv, InLine, Lengths, RunningHold, Unfinished
  <2>3. QED
    BY <1>5, <1>6, <1>7, <1>9, <2>1, <2>2 DEF Stays, IInv
<1>10. CASE Indexed(r)
  <2>1. reached' \in [Reqs -> Nat]
    BY <1>1, <1>3, <1>10 DEF Indexed
  <2>2. TypeOK'
    BY <1>3, <1>4, <1>7, <1>8, <1>10, <2>1, Typed, TypedNext DEF Indexed
  <2>3. InLine' /\ Unfinished' = Unfinished
    BY <1>7, <1>10 DEF Indexed, IInv, InLine, Unfinished
  <2>4. Booked(kv', computed, Slots, Unfinished) /\ kv'.table = kv.table
    <3>1. kv' = CacheBlocks(kv, r, computed[r])
      BY <1>10 DEF Indexed
    <3>2. r \in Unfinished /\ computed \in [Reqs -> Nat]
      BY <1>1, <1>3
    <3>3. Booked(kv', computed, Slots, Unfinished) /\ kv'.table = kv.table
      BY ONLY <1>6, <3>1, <3>2, CompleteBooked
    <3>4. QED
      BY <3>3
  <2>5. RunningHold'
    BY <1>10, <2>4 DEF Indexed, IInv, RunningHold
  <2>6. Lengths'
    <3>1. ASSUME NEW x \in Unfinished
          PROVE  reached'[x] >= 1 /\ reached'[x] < Output[x] /\ Slots[x] <= reached'[x]
      <4>1. /\ reached[x] \in Nat /\ reached[x] >= 1 /\ reached[x] < Output[x]
            /\ Slots[x] <= reached[x] /\ Slots[x] \in Nat
        BY <1>3, <1>6, <3>1 DEF IInv, Lengths, Unfinished
      <4>2. \/ reached'[x] = reached[x]
            \/ reached'[x] = reached[x] + 1 /\ reached[x] + 1 < Output[x]
        BY <1>1, <1>3, <1>10, <3>1 DEF Indexed, Unfinished
      <4>3. QED
        BY <4>1, <4>2
    <3>2. QED
      BY <1>5, <2>3, <3>1 DEF Lengths
  <2>7. QED
    BY <1>5, <1>7, <2>2, <2>3, <2>4, <2>5, <2>6 DEF IInv
<1>11. CASE Ends(r)
  <2>1. /\ status[r] = "running" /\ kv' = Free(CacheBlocks(kv, r, computed[r]), r)
        /\ reached' = [reached EXCEPT ![r] = @ + 1]
        /\ status' = [status EXCEPT ![r] = "finished"]
        /\ running' = Without(running, r)
        /\ finished' = Append(finished, r)
    BY <1>11 DEF Ends
  <2>2. /\ status' \in [Reqs -> {"future", "waiting", "running", "preempted", "finished"}]
        /\ status'[r] = "finished" /\ \A x \in Reqs \ {r} : status'[x] = status[x]
        /\ reached' \in [Reqs -> Nat] /\ \A x \in Reqs \ {r} : reached'[x] = reached[x]
    BY <1>1, <1>3, <2>1, Typed
  <2>3. running' \in Seq(Reqs) /\ ToSet(running') = ToSet(running) \ {r} /\ Ordered(running')
    BY <1>3, <2>1, LeavesQueue
  <2>4. finished' \in Seq(Reqs) /\ ToSet(finished') = ToSet(finished) \cup {r}
    BY <1>1, <1>3, <2>1, AppendElements
  <2>5. Distinct(finished')
    <3>1. /\ Len(finished') = Len(finished) + 1 /\ Len(finished) \in Nat
          /\ \A i \in 1..Len(finished) : finished'[i] = finished[i]
          /\ finished'[Len(finished) + 1] = r
      BY <1>1, <1>3, <2>1, AppendProperties, LenProperties
    <3>2. DOMAIN finished = 1..Len(finished) /\ DOMAIN finished' = 1..(Len(finished) + 1)
      BY <1>3, <2>4, <3>1, LenProperties
    <3>3. \A i \in DOMAIN finished : finished[i] # r
      <4>1. r \notin ToSet(finished)
        BY <1>1, <1>3, <2>1 DEF InLine
      <4>2. QED
        BY <4>1 DEF ToSet
    <3>4. Distinct(finished)
      BY <1>3 DEF InLine
    <3>5. \A i \in DOMAIN finished' : i \in DOMAIN finished \/ i = Len(finished) + 1
      BY <3>1, <3>2
    <3>6. QED
      BY <3>1, <3>2, <3>3, <3>4, <3>5 DEF Distinct
  <2>6. TypeOK'
    BY <1>3, <1>4, <1>7, <1>8, <2>2, <2>3, <2>4, Typed, TypedNext
  <2>7. Unfinished' = Unfinished \ {r}
    BY <2>2 DEF Unfinished
  <2>8. Booked(kv', computed, Slots, Unfinished') /\ OnlyTableOf(r, kv, kv') /\ kv'.table[r] = << >>
    <3>1. r \in Unfinished /\ computed \in [Reqs -> Nat]
      BY <1>1, <1>3
    <3>2. kv' = Free(CacheBlocks(kv, r, computed[r]), r)
      BY <2>1
    <3>3. Booked(kv', computed, Slots, Unfinished')
      BY ONLY <1>6, <2>7, <3>1, <3>2, FinishBooked
    <3>4. OnlyTableOf(r, kv, kv')
      BY ONLY <1>6, <2>7, <3>1, <3>2, FinishBooked
    <3>5. kv'.table[r] = << >>
      <4>1. CacheBlocks(kv, r, computed[r]).table = kv.table
        BY ONLY <1>6, <3>1, CompleteBooked
      <4>2. kv.table \in [Reqs -> Seq(1..NumBlocks)]
        BY <1>6 DEF Booked, KVOK
      <4>3. QED
        BY <1>1, <3>2, <4>1, <4>2 DEF Free
    <3>6. QED
      BY <3>3, <3>4, <3>5
  <2>9. RunningHold'
    BY <2>2, <2>8 DEF IInv, RunningHold, OnlyTableOf
  <2>10. Lengths'
    <3>1. \A x \in Unfinished \ {r} : x \in Reqs \ {r}
      BY DEF Unfinished
    <3>2. QED
      BY <1>5, <2>2, <2>7, <3>1 DEF IInv, Lengths
  <2>11. InLine'
    <3>1. ASSUME NEW x \in Reqs \ {r}
          PROVE  /\ x \in ToSet(running') <=> status'[x] = "running"
                 /\ x \in ToSet(waiting') <=> status'[x] \in {"waiting", "preempted"}
                 /\ x \in ToSet(finished') <=> status'[x] = "finished"
      BY <1>3, <1>7, <2>2, <2>3, <2>4 DEF InLine
    <3>2. /\ r \notin ToSet(running') /\ r \notin ToSet(waiting') /\ r \in ToSet(finished')
      BY <1>1, <1>3, <1>7, <2>1, <2>3, <2>4 DEF InLine
    <3>3. \A x \in Reqs : /\ x \in ToSet(running') <=> status'[x] = "running"
                          /\ x \in ToSet(waiting') <=> status'[x] \in {"waiting", "preempted"}
                          /\ x \in ToSet(finished') <=> status'[x] = "finished"
      BY <2>2, <3>1, <3>2
    <3>4. Ordered(waiting') /\ \A x \in ToSet(running'), q \in ToSet(waiting') : x < q
      BY <1>3, <1>7, <2>3 DEF InLine
    <3>5. \A x, q \in Reqs : status'[x] = "future" /\ x < q => status'[q] = "future"
      BY <1>1, <1>3, <2>1, <2>2 DEF InLine
    <3>6. QED
      BY <2>3, <2>5, <3>3, <3>4, <3>5 DEF InLine
  <2>12. QED
    BY <1>5, <1>7, <2>6, <2>7, <2>8, <2>9, <2>10, <2>11 DEF IInv
<1>12. QED
  BY <1>1, <1>5, <1>9, <1>10, <1>11

-----------------------------------------------------------------------------
(* The batch is built: the counters move to where slots were granted. *)
LEMMA SentTyped ==
  ASSUME IInv
  PROVE  Sent \in [Reqs -> Nat]
<1>1. /\ shipping.hit \in [Reqs -> Nat] /\ shipping.sent \in [Reqs -> Nat]
      /\ Planned(ToSet(step.scheduled), computed, running)
  BY Typed DEF IInv, StepFits
<1>2. ASSUME NEW r \in Reqs, InBatch(r) PROVE Shipped(WorkOf(r)) \in Nat
  <2>1. WorkOf(r) \in ToSet(step.scheduled)
    BY <1>2 DEF InBatch, WorkOf
  <2>2. WorkOf(r) \in Work
    BY <1>1, <2>1 DEF Planned
  <2>3. WorkOf(r).n \in Nat /\ shipping.hit[WorkOf(r).req] \in Nat
    BY <1>1, <2>2 DEF Work
  <2>4. QED
    BY <2>3 DEF Shipped
<1>3. QED
  BY <1>1, <1>2 DEF Sent

LEMMA BuildBatchStep ==
  ASSUME IInv, BuildBatch
  PROVE  IInv' /\ Slots' = Slots /\ computed' = Slots
<1>1. /\ computed' = Slots
      /\ inflight' = Append(inflight, [id |-> nextId, work |-> step.scheduled,
                                       fired |-> {StartNpu}, ended |-> {}])
      /\ nextId' = nextId + 1
      /\ busy' = busy \cup {StartNpu}
      /\ shipping' = IF PdType = "prefill" THEN [shipping EXCEPT !.sent = Sent] ELSE shipping
      /\ step' = Idle
      /\ UNCHANGED <<kv, status, reached, isInit, queues, finished, ran>>
  BY DEF BuildBatch, Slots, Granted, Advanced, Return
<1>2. /\ TypeOK /\ computed \in [Reqs -> Nat] /\ inflight \in Seq(Batches) /\ nextId \in Nat
      /\ busy \subseteq Npus /\ step \in Steps
      /\ Planned(ToSet(step.scheduled), computed, running)
  BY Typed DEF IInv, StepFits
<1>3. Slots \in [Reqs -> Nat]
  BY <1>2, GrantedByPlan, SlotsAreBy
<1>4. inflight' \in Seq(Batches)
  <2>1. [id |-> nextId, work |-> step.scheduled, fired |-> {StartNpu}, ended |-> {}] \in Batches
    BY <1>2, IdleTyped DEF Batches, Steps
  <2>2. QED
    BY <1>1, <1>2, <2>1, AppendProperties
<1>5. shipping' \in [hit : [Reqs -> Nat], sent : [Reqs -> Nat]]
  BY <1>1, <1>2, SentTyped, Typed
<1>6. TypeOK'
  <2>1. /\ computed' \in [Reqs -> Nat] /\ nextId' \in Nat /\ busy' \subseteq Npus /\ step' \in Steps
    BY <1>1, <1>2, <1>3, IdleTyped
  <2>2. /\ status' = status /\ reached' = reached /\ isInit' = isInit /\ waiting' = waiting
        /\ running' = running /\ finished' = finished /\ ran' = ran
    BY <1>1 DEF queues
  <2>3. QED
    BY <1>2, <1>4, <1>5, <2>1, <2>2, Typed, TypedNext
<1>7. step'.scheduled = << >>
  BY <1>1 DEF Idle
<1>8. Slots' = Slots
  <2>1. Slots' = [r \in Reqs |-> computed'[r]]
    BY <1>7, EmptyElements DEF Slots, Granted, InBatch
  <2>2. QED
    BY <1>1, <1>3, <2>1
<1>9. Unfinished' = Unfinished /\ InLine' /\ RunningHold' /\ Lengths' /\ StepFits'
  BY <1>1, <1>7, <1>8, NothingPlanned
     DEF IInv, InLine, RunningHold, Lengths, Unfinished, queues
<1>10. Booked(kv', computed', Slots', Unfinished')
  <2>1. ASSUME NEW r \in Unfinished PROVE Covered(kv, Slots, Slots, r)
    <3>1. Slots[r] \in Nat /\ Covered(kv, computed, Slots, r)
      BY <1>3 DEF IInv, Booked, Unfinished
    <3>2. QED
      BY <3>1 DEF Covered
  <2>2. QED
    BY <1>1, <1>8, <1>9, <2>1 DEF IInv, Booked
<1>11. QED
  BY <1>1, <1>6, <1>8, <1>9, <1>10 DEF IInv

-----------------------------------------------------------------------------
(* Every step. *)
LEMMA NextStep == IInv /\ [Next]_vars => IInv'
<1> SUFFICES ASSUME IInv, [Next]_vars PROVE IInv'
  OBVIOUS
<1>1. CASE UNCHANGED vars
  <2>1. /\ kv' = kv /\ status' = status /\ computed' = computed /\ reached' = reached
        /\ isInit' = isInit /\ waiting' = waiting /\ running' = running /\ inflight' = inflight
        /\ nextId' = nextId /\ finished' = finished /\ shipping' = shipping /\ ran' = ran
        /\ busy' = busy /\ step' = step
    BY <1>1 DEF vars, requests, queues, batches, npus
  <2>2. TypeOK' /\ StepFits'
    BY <2>1 DEF IInv, TypeOK, StepFits, At, InBatch
  <2>3. QED
    BY <2>1, <2>2, Unmoved DEF requests, queues
<1>2. ASSUME NEW r \in Reqs, AddRequest(r) PROVE IInv'
  BY <1>2, AddRequestStep
<1>3. ASSUME NEW n \in Npus, Handshake(n) PROVE IInv'
  BY <1>3, HandBackStep, PollStep DEF Handshake
<1>4. ASSUME InStep PROVE IInv'
  <2>1. CASE SkipFinished
    BY <2>1, SkipFinishedStep
  <2>2. CASE CompleteRequest
    BY <2>2, CompleteRequestStep
  <2>3. CASE DropBatch
    BY <2>3, DropBatchStep
  <2>4. CASE JoinBatch
    BY <2>4, JoinBatchStep
  <2>5. CASE Pass
    <3>1. step.scheduled = << >>
      BY <2>5 DEF Pass, At, IInv, StepFits
    <3>2. QED
      BY <2>5, <3>1, ReturnStep DEF Pass
  <2>6. CASE StartSchedule
    BY <2>6, StartScheduleStep
  <2>7. CASE ServeRunning
    BY <2>7, ServeRunningStep
  <2>8. CASE SkipRunning
    BY <2>8, SkipRunningStep
  <2>9. CASE PreemptTail
    BY <2>9, PreemptTailStep
  <2>10. CASE EndRunning
    BY <2>10, EndRunningStep
  <2>11. CASE AdmitWaiting
    BY <2>11, AdmitWaitingStep
  <2>12. CASE EndWaiting
    BY <2>12, EndWaitingStep
  <2>13. CASE BuildBatch
    BY <2>13, BuildBatchStep
  <2>14. CASE NothingToBuild
    BY <2>14, ReturnStep DEF NothingToBuild
  <2>15. QED
    BY <1>4, <2>1, <2>2, <2>3, <2>4, <2>5, <2>6, <2>7, <2>8, <2>9, <2>10, <2>11, <2>12,
       <2>13, <2>14 DEF InStep
<1>5. QED
  BY <1>1, <1>2, <1>3, <1>4 DEF Next

(* Every state an instance can be in satisfies the inductive invariant. *)
THEOREM Inductive == Spec => []IInv
<1>1. QED
  BY InitIInv, NextStep, PTL DEF Spec

(* Every request is in exactly the queue its status says, in the order of  *)
(* arrival, at most once among the finished ones, and holds blocks only    *)
(* while it runs, in the middle of a step too (add_request, schedule,      *)
(* _preempt_request, add_done).                                            *)
THEOREM QueuesAreInOrder == Spec => []QueuesMatchStatus
<1>1. IInv => QueuesMatchStatus
  <2> SUFFICES ASSUME IInv PROVE QueuesMatchStatus
    OBVIOUS
  <2> DEFINE line == running \o waiting
  <2>1. TypeOK /\ InLine /\ running \in Seq(Reqs) /\ waiting \in Seq(Reqs) /\ finished \in Seq(Reqs)
    BY Typed DEF IInv
  <2>2. IsInjective(finished)
    BY <2>1 DEF InLine, Distinct, IsInjective
  <2>3. ASSUME NEW i \in DOMAIN line, NEW j \in DOMAIN line, i < j PROVE line[i] < line[j]
    <3>1. /\ Len(line) = Len(running) + Len(waiting) /\ line \in Seq(Reqs)
          /\ \A k \in 1..(Len(running) + Len(waiting)) :
               line[k] = IF k <= Len(running) THEN running[k] ELSE waiting[k - Len(running)]
      BY <2>1, ConcatProperties
    <3>2. /\ Len(running) \in Nat /\ Len(waiting) \in Nat
          /\ DOMAIN running = 1..Len(running) /\ DOMAIN waiting = 1..Len(waiting)
          /\ DOMAIN line = 1..(Len(running) + Len(waiting))
      BY <2>1, <3>1, LenProperties
    <3> HIDE DEF line
    <3>3. CASE j <= Len(running)
      <4>1. /\ i \in DOMAIN running /\ j \in DOMAIN running
            /\ line[i] = running[i] /\ line[j] = running[j]
        BY <2>3, <3>1, <3>2, <3>3
      <4>2. QED
        BY <2>1, <2>3, <4>1 DEF InLine, Ordered
    <3>4. CASE i <= Len(running) /\ j > Len(running)
      <4>1. /\ i \in DOMAIN running /\ j - Len(running) \in DOMAIN waiting
            /\ line[i] = running[i] /\ line[j] = waiting[j - Len(running)]
        BY <2>3, <3>1, <3>2, <3>4
      <4>2. running[i] \in ToSet(running) /\ waiting[j - Len(running)] \in ToSet(waiting)
        BY <4>1 DEF ToSet
      <4>3. QED
        BY <2>1, <4>1, <4>2 DEF InLine
    <3>5. CASE i > Len(running)
      <4>1. /\ i - Len(running) \in DOMAIN waiting /\ j - Len(running) \in DOMAIN waiting
            /\ line[i] = waiting[i - Len(running)] /\ line[j] = waiting[j - Len(running)]
            /\ i - Len(running) < j - Len(running)
        BY <2>3, <3>1, <3>2, <3>5
      <4>2. QED
        BY <2>1, <4>1 DEF InLine, Ordered
    <3>6. QED
      BY <2>3, <3>2, <3>3, <3>4, <3>5
  <2>4. QED
    BY <2>1, <2>2, <2>3 DEF QueuesMatchStatus, InLine, IInv, RunningHold
<1>2. QED
  BY Inductive, <1>1, PTL

-----------------------------------------------------------------------------
(* The end of a run. *)

(* A pool with no holder has every block on its free list. *)
LEMMA NobodyHolds ==
  ASSUME NEW n \in Nat, NEW p, PoolOK(n, p), \A b \in 1..n : p.ref[b] = 0
  PROVE  IsFree(p)
<1>1. /\ DOMAIN p.ref = 1..n /\ p.free \in Seq(1..n)
      /\ \A b \in 1..n : b \in ToSet(p.free) <=> p.ref[b] = 0
      /\ Cardinality(ToSet(p.free)) = Len(p.free)
  BY PoolOKFacts
<1>2. ToSet(p.free) = 1..n
  <2>1. ToSet(p.free) \subseteq 1..n
    BY <1>1, ToSetType
  <2>2. QED
    BY <1>1, <2>1
<1>3. QED
  BY <1>1, <1>2 DEF IsFree, NumFree

(* When every request is done, every tier has all its blocks back: no      *)
(* path of a run, with preemptions, hits, shared blocks and write-downs,   *)
(* leaves one behind (free, the leak check at the end of __main__.py).     *)
THEOREM EverythingComesBack == Spec => []NothingLeaked
<1>1. IInv => NothingLeaked
  <2> SUFFICES ASSUME IInv, \A r \in Reqs : status[r] = "finished"
               PROVE  IsFree(kv.npu) /\ \A t \in DOMAIN Tiers : IsFree(kv.lower[t])
    BY DEF NothingLeaked
  <2>1. KVOK(kv) /\ Victims(kv.lower) /\ NumBlocks \in Nat
    BY KVAssumption DEF IInv, Booked
  <2>2. \A r \in Reqs : kv.table[r] = << >>
    BY DEF IInv, RunningHold
  <2>3. ASSUME NEW b \in 1..NumBlocks PROVE kv.npu.ref[b] = 0
    <3>1. Sharers(kv, b) = {}
      BY <2>2, EmptyElements DEF Sharers
    <3>2. QED
      BY <2>1, <3>1, FS_EmptySet DEF KVOK
  <2>4. IsFree(kv.npu)
    BY <2>1, <2>3, NobodyHolds DEF KVOK
  <2>5. ASSUME NEW t \in DOMAIN Tiers PROVE IsFree(kv.lower[t])
    <3>1. Unpinned(Tiers[t].blocks, kv.lower[t]) /\ Tiers[t].blocks \in Nat
      BY <2>1, TierFactor DEF Victims
    <3>2. QED
      BY <3>1, NobodyHolds DEF Unpinned
  <2>6. QED
    BY <2>4, <2>5
<1>2. QED
  BY Inductive, <1>1, PTL

-----------------------------------------------------------------------------
(* The oldest running request. *)

(* What is free when one request has everything that is held. *)
LEMMA AloneInPool ==
  ASSUME NEW k, KVOK(k), NEW r \in Reqs, \A q \in Reqs \ {r} : k.table[q] = << >>
  PROVE  NumFree(k.npu) = NumBlocks - Len(k.table[r]) /\ Len(k.table[r]) <= NumBlocks
<1>1. /\ PoolOK(NumBlocks, k.npu) /\ k.table[r] \in Seq(1..NumBlocks) /\ Distinct(k.table[r])
      /\ NumBlocks \in Nat
      /\ \A b \in 1..NumBlocks : k.npu.ref[b] = Cardinality(Sharers(k, b))
  BY KVAssumption DEF KVOK
<1>2. /\ k.npu.free \in Seq(1..NumBlocks)
      /\ \A b \in 1..NumBlocks : b \in ToSet(k.npu.free) <=> k.npu.ref[b] = 0
      /\ Cardinality(ToSet(k.npu.free)) = Len(k.npu.free)
  BY <1>1, PoolOKFacts
<1>3. ASSUME NEW b \in 1..NumBlocks PROVE k.npu.ref[b] = 0 <=> b \notin ToSet(k.table[r])
  <2>1. CASE b \in ToSet(k.table[r])
    <3>1. k.npu.ref[b] > 0
      BY <2>1, TableIsHeld
    <3>2. QED
      BY <2>1, <3>1
  <2>2. CASE b \notin ToSet(k.table[r])
    <3>1. Sharers(k, b) = {}
      BY <2>2, EmptyElements DEF Sharers
    <3>2. QED
      BY <1>1, <2>2, <3>1, FS_EmptySet
  <2>3. QED
    BY <2>1, <2>2
<1>4. ToSet(k.table[r]) \subseteq 1..NumBlocks /\ ToSet(k.npu.free) \subseteq 1..NumBlocks
  BY <1>1, <1>2, ToSetType
<1>5. ToSet(k.npu.free) = (1..NumBlocks) \ ToSet(k.table[r])
  BY <1>2, <1>3, <1>4
<1>6. /\ IsFiniteSet(ToSet(k.table[r])) /\ Cardinality(ToSet(k.table[r])) = Len(k.table[r])
      /\ IsFiniteSet(1..NumBlocks) /\ Cardinality(1..NumBlocks) = NumBlocks
  <2>1. IsFiniteSet(1..NumBlocks) /\ Cardinality(1..NumBlocks) = IF 1 > NumBlocks THEN 0 ELSE NumBlocks - 1 + 1
    BY <1>1, FS_Interval
  <2>2. IsFiniteSet(ToSet(k.table[r])) /\ Cardinality(ToSet(k.table[r])) = Len(k.table[r])
    BY <1>1, DistinctLength
  <2>3. QED
    BY <1>1, <2>1, <2>2
<1>7. /\ Cardinality((1..NumBlocks) \ ToSet(k.table[r]))
           = Cardinality(1..NumBlocks) - Cardinality((1..NumBlocks) \cap ToSet(k.table[r]))
      /\ (1..NumBlocks) \cap ToSet(k.table[r]) = ToSet(k.table[r])
  BY <1>4, <1>6, FS_Difference
<1>8. Len(k.npu.free) = NumBlocks - Len(k.table[r])
  BY <1>2, <1>5, <1>6, <1>7
<1>9. Len(k.table[r]) \in Nat /\ Len(k.npu.free) \in Nat
  BY <1>1, <1>2, LenProperties
<1>10. QED
  BY <1>1, <1>8, <1>9 DEF NumFree

(* A running request alone on the instance always gets its slots: every    *)
(* request fits the pool on its own.                                       *)
LEMMA AloneFits ==
  ASSUME IInv, Serving, NumNewTokens(Current) > 0, Len(running) = 1
  PROVE  SlotsFit(kv, Current, computed[Current], NumNewTokens(Current), NoHit)
<1> DEFINE r == Current
           n == NumNewTokens(Current)
<1>1. /\ r \in Reqs /\ r \in Unfinished /\ step.i \in DOMAIN running /\ r = running[step.i]
      /\ computed[r] \in Nat /\ reached[r] \in Nat
      /\ n \in Nat \ {0} /\ n <= reached[r] - computed[r]
      /\ Slots[r] = computed[r]
  BY Served, NewTokens DEF Current
<1>2. TypeOK /\ running \in Seq(Reqs) /\ InLine
  BY Typed DEF IInv
<1>3. ToSet(running) = {r}
  <2>1. DOMAIN running = {1}
    BY <1>2, LenProperties
  <2>2. QED
    BY <1>1, <2>1 DEF ToSet
<1> HIDE DEF r, n
<1>4. \A q \in Reqs \ {r} : kv.table[q] = << >>
  BY <1>2, <1>3 DEF InLine, IInv, RunningHold
<1>5. KVOK(kv) /\ NumFree(kv.npu) = NumBlocks - Len(kv.table[r]) /\ Len(kv.table[r]) <= NumBlocks
  BY <1>1, <1>4, AloneInPool DEF IInv, Booked
<1>6. BlockSize \in Nat \ {0} /\ NumBlocks \in Nat /\ Len(kv.table[r]) \in Nat
  BY <1>1, <1>5, KVAssumption, TableElement
<1>7. CDiv(computed[r] + n, BlockSize) <= NumBlocks /\ CDiv(computed[r] + n, BlockSize) \in Nat
  <2>1. reached[r] < Output[r] /\ Output[r] \in Nat /\ CDiv(Output[r] - 1, BlockSize) <= NumBlocks
    BY <1>1, SchedulerAssumption DEF IInv, Lengths
  <2>2. computed[r] + n \in Nat /\ Output[r] - 1 \in Nat /\ computed[r] + n <= Output[r] - 1
    BY <1>1, <2>1
  <2>3. CDiv(computed[r] + n, BlockSize) <= CDiv(Output[r] - 1, BlockSize)
    BY <1>6, <2>2, CDivMonotonic
  <2>4. CDiv(computed[r] + n, BlockSize) \in Nat /\ CDiv(Output[r] - 1, BlockSize) \in Nat
    BY <1>6, <2>2, CDivBounds
  <2>5. QED
    BY <1>6, <2>1, <2>3, <2>4
<1>8. NumBlocksToAllocate(kv, r, computed[r] + n, << >>)
        = Larger(CDiv(computed[r] + n, BlockSize) - Len(kv.table[r]), 0)
  <2>1. Evictable(kv, << >>) = 0
    <3>1. {b \in ToSet(<< >>) : kv.npu.ref[b] = 0} = {}
      BY EmptyElements
    <3>2. QED
      BY <3>1, FS_EmptySet DEF Evictable
  <2>2. Len(<< >>) = 0
    OBVIOUS
  <2>3. Larger(CDiv(computed[r] + n, BlockSize) - Len(kv.table[r]), 0) \in Nat
    BY <1>6, <1>7 DEF Larger
  <2>4. Len(kv.table[r]) + (IF kv.cached[r] = Untracked THEN 0 ELSE 0) = Len(kv.table[r])
    BY <1>6
  <2>5. QED
    BY <2>1, <2>2, <2>3, <2>4 DEF NumBlocksToAllocate
<1>9. HitTokens(NoHit) = 0 /\ NoHit.blocks = << >>
  BY DEF HitTokens, NoHit
<1>10. computed[r] + 0 + n = computed[r] + n
  BY <1>1
<1>11. Larger(CDiv(computed[r] + n, BlockSize) - Len(kv.table[r]), 0) <= NumBlocks - Len(kv.table[r])
  BY <1>5, <1>6, <1>7 DEF Larger
<1>12. SlotsFit(kv, r, computed[r], n, NoHit)
  BY <1>5, <1>8, <1>9, <1>10, <1>11 DEF SlotsFit
<1>13. QED
  BY <1>12 DEF r, n

(* No step of the instance preempts the oldest running request, so with    *)
(* every batch the line moves (_schedule_running, _preempt_request).       *)
THEOREM OldestStays == Spec => OldestNeverPreempted
<1>1. ASSUME IInv, Next, running # << >> PROVE status'[running[1]] # "preempted"
  <2> DEFINE r == running[1]
  <2>1. /\ TypeOK /\ running \in Seq(Reqs) /\ Len(running) \in Nat /\ 1 \in DOMAIN running
        /\ status \in [Reqs -> {"future", "waiting", "running", "preempted", "finished"}]
    <3>1. TypeOK /\ running \in Seq(Reqs) /\ status \in [Reqs -> {"future", "waiting", "running", "preempted", "finished"}]
      BY <1>1, Typed DEF IInv
    <3>2. QED
      BY <1>1, <3>1, LenProperties, EmptySeq
  <2>2. r \in Reqs /\ status[r] = "running"
    <3>1. r \in Reqs /\ r \in ToSet(running)
      BY <2>1, ElementOfSeq, LenProperties DEF ToSet
    <3>2. QED
      BY <1>1, <3>1 DEF IInv, InLine
  <2> HIDE DEF r
  <2>3. CASE status' = status
    BY <2>2, <2>3 DEF r
  <2>4. CASE \E q \in Reqs : status' = [status EXCEPT ![q] = "waiting"]
    BY <2>1, <2>2, <2>4 DEF r
  <2>5. CASE \E q : status' = [status EXCEPT ![q] = "finished"]
    BY <2>1, <2>2, <2>5 DEF r
  <2>6. CASE \E q : status' = [status EXCEPT ![q] = "running"]
    BY <2>1, <2>2, <2>6 DEF r
  <2>7. CASE PreemptTail
    <3>1. Serving /\ status' = [status EXCEPT ![Victim] = "preempted"]
      BY <2>7 DEF PreemptTail
    <3>2. CASE Victim # r
      BY <2>1, <2>2, <3>1, <3>2 DEF r
    <3>3. CASE Victim = r
      <4>1. Len(running) \in Nat \ {0} /\ Victim = running[Len(running)]
        BY <1>1, <3>1, VictimFacts
      <4>2. Len(running) \in DOMAIN running /\ Ordered(running)
        BY <1>1, <2>1, <4>1, LenProperties DEF IInv, InLine
      <4>3. Len(running) = 1
        <5>1. ~(1 < Len(running))
          <6>1. r \in Nat
            BY <2>2, ReqsNat
          <6>2. 1 < Len(running) => running[1] < running[Len(running)]
            BY <2>1, <4>2 DEF Ordered
          <6>3. QED
            BY <3>3, <4>1, <6>1, <6>2 DEF r
        <5>2. \A m \in Nat \ {0} : 1 < m \/ m = 1
          OBVIOUS
        <5>3. QED
          BY <4>1, <5>1, <5>2
      <4>4. QED
        BY <1>1, <2>7, <3>1, <4>3, AloneFits DEF PreemptTail
    <3>4. QED
      BY <3>2, <3>3
  <2>8. QED
    <3>1. \/ status' = status
          \/ \E q \in Reqs : status' = [status EXCEPT ![q] = "waiting"]
          \/ \E q : status' = [status EXCEPT ![q] = "finished"]
          \/ \E q : status' = [status EXCEPT ![q] = "running"]
          \/ PreemptTail
      BY <1>1
         DEF Next, InStep, Handshake, AddRequest, HandBack, Poll, SkipFinished, CompleteRequest,
             DropBatch, JoinBatch, Pass, StartSchedule, ServeRunning, SkipRunning, EndRunning,
             AdmitWaiting, EndWaiting, BuildBatch, NothingToBuild, requests
    <3>2. QED
      BY <2>3, <2>4, <2>5, <2>6, <2>7, <3>1, SMTT(30)
<1>2. IInv /\ [Next]_vars => [running # << >> => status'[running[1]] # "preempted"]_vars
  BY <1>1
<1>3. QED
  BY Inductive, <1>2, PTL DEF Spec, OldestNeverPreempted

-----------------------------------------------------------------------------
(* Each batch once. *)

(* The order ASTRA-Sim keeps among the stages: no NPU lags behind both the *)
(* first and the last one of the instance.                                 *)
InStages == \A n \in Npus : ran[n] >= ran[StartNpu] \/ ran[n] >= ran[LastNpu]

LEMMA TwoNpusInStages ==
  ASSUME LastNpu <= 1, IInv
  PROVE  InStages
<1>1. LastNpu \in Nat /\ LastNpu <= 1 /\ ran \in [Npus -> Nat]
  <2>1. LastNpu \in Npus
    BY IdleTyped
  <2>2. LastNpu \in Nat
    BY <2>1 DEF Npus, StartNpu
  <2>3. QED
    BY <2>2, Typed DEF IInv
<1>2. \A n \in Npus : n = StartNpu \/ n = LastNpu
  BY <1>1 DEF Npus, StartNpu
<1>3. StartNpu \in Npus /\ LastNpu \in Npus
  BY IdleTyped
<1>4. \A n \in Npus : ran[n] >= ran[n]
  BY <1>1
<1>5. QED
  BY <1>2, <1>3, <1>4 DEF InStages

(* Batches are in flight in the order they were formed; one is marked by   *)
(* the NPUs that have run it; and an NPU's next batch is there.            *)
Rising(q) == \A j, k \in DOMAIN q : j < k => q[j].id < q[k].id

Marked(q, r, last) ==
  \A k \in DOMAIN q : q[k].id < last /\ q[k].ended = {n \in Npus : r[n] > q[k].id}

InOrder ==
  /\ Rising(inflight) /\ Marked(inflight, ran, nextId)
  /\ \A n \in Npus : ran[n] <= nextId

Awaited(q, r, last) ==
  \A n \in Npus, m \in Nat : r[n] <= m /\ m < last => \E k \in DOMAIN q : q[k].id = m

Numbered == InOrder /\ Awaited(inflight, ran, nextId)

(* Positions ahead of the counters are in no batch. *)
Behind ==
  \A k \in DOMAIN inflight : \A w \in ToSet(inflight[k].work) : w.before + w.n <= computed[w.req]

(* Batches that are those of s, or some of them, but for their marks. *)
Those(q, s, at) ==
  /\ at \in [DOMAIN q -> DOMAIN s]
  /\ \A j, k \in DOMAIN q : j < k => at[j] < at[k]
  /\ \A k \in DOMAIN q : q[k].id = s[at[k]].id /\ q[k].work = s[at[k]].work

LEMMA ThoseSame ==
  ASSUME NEW s, NEW q, DOMAIN q = DOMAIN s,
         \A k \in DOMAIN s : q[k].id = s[k].id /\ q[k].work = s[k].work
  PROVE  \E at : Those(q, s, at)
<1> DEFINE at == [k \in DOMAIN q |-> k]
<1>1. /\ at \in [DOMAIN q -> DOMAIN s]
      /\ \A k \in DOMAIN q : at[k] = k
  OBVIOUS
<1> HIDE DEF at
<1>2. Those(q, s, at)
  BY <1>1 DEF Those
<1>3. QED
  BY <1>2

LEMMA InFlightWork ==
  ASSUME inflight \in Seq(Batches), NEW k \in DOMAIN inflight, NEW w \in ToSet(inflight[k].work)
  PROVE  w \in Work
<1>1. inflight[k] \in Batches
  BY LenProperties, ElementOfSeq
<1>2. inflight[k].work \in Seq(Work)
  BY <1>1 DEF Batches
<1>3. PICK i \in DOMAIN inflight[k].work : w = inflight[k].work[i]
  BY DEF ToSet
<1>4. QED
  BY <1>2, <1>3, LenProperties, ElementOfSeq

LEMMA ThoseApart ==
  ASSUME NothingInFlightTwice, Behind, NEW at, Those(inflight', inflight, at),
         inflight \in Seq(Batches), computed \in [Reqs -> Nat], computed' \in [Reqs -> Nat],
         \A r \in Reqs : computed[r] <= computed'[r]
  PROVE  NothingInFlightTwice' /\ Behind'
<1>1. ASSUME NEW j \in DOMAIN inflight', NEW k \in DOMAIN inflight', j < k,
             NEW v \in ToSet(inflight'[j].work), NEW w \in ToSet(inflight'[k].work), v.req = w.req
      PROVE  v.before + v.n <= w.before
  <2>1. at[j] \in DOMAIN inflight /\ at[k] \in DOMAIN inflight /\ at[j] < at[k]
    BY <1>1 DEF Those
  <2>2. inflight'[j].work = inflight[at[j]].work /\ inflight'[k].work = inflight[at[k]].work
    BY DEF Those
  <2>3. QED
    BY <1>1, <2>1, <2>2 DEF NothingInFlightTwice
<1>2. ASSUME NEW k \in DOMAIN inflight', NEW w \in ToSet(inflight'[k].work)
      PROVE  w.before + w.n <= computed'[w.req]
  <2>1. at[k] \in DOMAIN inflight /\ w \in ToSet(inflight[at[k]].work)
    BY DEF Those
  <2>2. w.before + w.n <= computed[w.req]
    BY <2>1 DEF Behind
  <2>3. w \in Work
    BY <2>1, InFlightWork
  <2>4. w.before + w.n \in Nat /\ w.req \in Reqs
    BY <2>3 DEF Work
  <2> DEFINE sum == w.before + w.n
  <2> HIDE DEF sum
  <2>5. sum \in Nat /\ sum <= computed[w.req] /\ computed[w.req] <= computed'[w.req]
        /\ computed[w.req] \in Nat /\ computed'[w.req] \in Nat
    BY <2>2, <2>4 DEF sum
  <2>6. sum <= computed'[w.req]
    BY <2>5
  <2>7. QED
    BY <2>6 DEF sum
<1>3. QED
  BY <1>1, <1>2 DEF NothingInFlightTwice, Behind

(* Which steps touch the batches in flight, what NPUs have run, and the    *)
(* counters.                                                               *)
LEMMA WhatMoves ==
  ASSUME [Next]_vars
  PROVE  /\ \/ inflight' = inflight /\ nextId' = nextId /\ ran' = ran
            \/ (\E n \in Npus : HandBack(n)) \/ JoinBatch \/ DropBatch \/ BuildBatch
         /\ computed' = computed \/ PreemptTail \/ AdmitWaiting \/ BuildBatch
<1>1. CASE UNCHANGED vars
  BY <1>1 DEF vars, requests, batches, npus
<1>2. ASSUME NEW r \in Reqs, AddRequest(r) PROVE inflight' = inflight /\ nextId' = nextId /\ ran' = ran /\ computed' = computed
  BY <1>2 DEF AddRequest, batches, npus
<1>3. ASSUME NEW n \in Npus, HandBack(n) PROVE computed' = computed
  BY <1>3 DEF HandBack, requests
<1>4. ASSUME NEW n \in Npus, Poll(n) PROVE inflight' = inflight /\ nextId' = nextId /\ ran' = ran /\ computed' = computed
  BY <1>4 DEF Poll, requests, batches, npus
<1>5. CASE SkipFinished \/ CompleteRequest \/ Pass \/ StartSchedule \/ NothingToBuild
  BY <1>5 DEF SkipFinished, CompleteRequest, Pass, StartSchedule, NothingToBuild, requests, batches, npus
<1>6. CASE ServeRunning \/ SkipRunning \/ EndRunning \/ EndWaiting
  BY <1>6 DEF ServeRunning, SkipRunning, EndRunning, EndWaiting, requests, batches, npus
<1>7. CASE PreemptTail \/ AdmitWaiting
  BY <1>7 DEF PreemptTail, AdmitWaiting, batches, npus
<1>8. CASE JoinBatch \/ DropBatch
  BY <1>8 DEF JoinBatch, DropBatch, requests
<1>9. CASE BuildBatch
  BY <1>9
<1>10. QED
  BY <1>1, <1>2, <1>3, <1>4, <1>5, <1>6, <1>7, <1>8, <1>9 DEF Next, InStep, Handshake

(* An NPU is marked on the batch it has ended. *)
LEMMA HandBackMarks ==
  ASSUME IInv, NEW n \in Npus, HandBack(n)
  PROVE  /\ ran' = [ran EXCEPT ![n] = @ + 1] /\ nextId' = nextId
         /\ DOMAIN inflight' = DOMAIN inflight
         /\ \E k \in DOMAIN inflight :
              /\ inflight[k].id = ran[n]
              /\ \A j \in DOMAIN inflight :
                   /\ inflight'[j].id = inflight[j].id /\ inflight'[j].work = inflight[j].work
                   /\ inflight'[j].ended = inflight[j].ended \cup (IF j = k THEN {n} ELSE {})
<1>1. /\ inflight \in Seq(Batches) /\ ran \in [Npus -> Nat]
  BY Typed DEF IInv
<1>2. ran' = [ran EXCEPT ![n] = @ + 1] /\ nextId' = nextId
  BY DEF HandBack
<1>3. PICK k \in DOMAIN inflight : /\ inflight[k].id = ran'[n] - 1
                                   /\ inflight' = [inflight EXCEPT ![k] = Ended(@, n)]
  BY DEF HandBack
<1>4. inflight[k].id = ran[n]
  BY <1>1, <1>2, <1>3
<1>5. inflight[k] \in Batches
  BY <1>1, LenProperties, ElementOfSeq
<1>6. /\ Ended(inflight[k], n).id = inflight[k].id /\ Ended(inflight[k], n).work = inflight[k].work
      /\ Ended(inflight[k], n).ended = inflight[k].ended \cup {n}
  BY <1>5 DEF Ended, Batches
<1>7. DOMAIN inflight' = DOMAIN inflight
  BY <1>3
<1>8. ASSUME NEW j \in DOMAIN inflight
      PROVE  /\ inflight'[j].id = inflight[j].id /\ inflight'[j].work = inflight[j].work
             /\ inflight'[j].ended = inflight[j].ended \cup (IF j = k THEN {n} ELSE {})
  <2>1. CASE j = k
    BY <1>3, <1>6, <2>1
  <2>2. CASE j # k
    BY <1>3, <2>2
  <2>3. QED
    BY <2>1, <2>2
<1>9. QED
  BY <1>2, <1>4, <1>7, <1>8

LEMMA JoinBatchMarks ==
  ASSUME IInv, JoinBatch
  PROVE  /\ ran' = ran /\ nextId' = nextId /\ DOMAIN inflight' = DOMAIN inflight
         /\ \A j \in DOMAIN inflight :
              /\ inflight'[j].id = inflight[j].id /\ inflight'[j].work = inflight[j].work
              /\ inflight'[j].ended = inflight[j].ended
<1>1. inflight \in Seq(Batches)
  BY Typed DEF IInv
<1>2. PICK k \in DOMAIN inflight : inflight' = [inflight EXCEPT ![k].fired = @ \cup {step.npu}]
  BY DEF JoinBatch, Joinable
<1>3. inflight[k] \in Batches
  BY <1>1, LenProperties, ElementOfSeq
<1> DEFINE b == [inflight[k] EXCEPT !.fired = @ \cup {step.npu}]
<1>4. inflight' = [inflight EXCEPT ![k] = b]
  BY <1>2
<1>5. b.id = inflight[k].id /\ b.work = inflight[k].work /\ b.ended = inflight[k].ended
  BY <1>3 DEF Batches
<1> HIDE DEF b
<1>6. ran' = ran /\ nextId' = nextId
  BY DEF JoinBatch
<1>7. QED
  BY <1>4, <1>5, <1>6

(* What is dropped is over, and the rest stays in order. *)
LEMMA DropBatchKeeps ==
  ASSUME IInv, DropBatch
  PROVE  /\ ran' = ran /\ nextId' = nextId
         /\ \E at : Places(at, inflight', inflight)
         /\ \A k \in DOMAIN inflight :
              BatchOver(inflight[k]) \/ \E j \in DOMAIN inflight' : inflight'[j] = inflight[k]
<1> DEFINE T == {batch \in ToSet(inflight) : ~BatchOver(batch)}
<1>1. /\ inflight \in Seq(Batches) /\ inflight' = Kept(inflight, T) /\ ran' = ran /\ nextId' = nextId
  BY Typed DEF IInv, DropBatch, npus
<1>2. \A k \in DOMAIN inflight : BatchOver(inflight[k]) \/ inflight[k] \in ToSet(inflight) \cap T
  BY DEF ToSet
<1> HIDE DEF T
<1>3. (\E at : Places(at, inflight', inflight)) /\ ToSet(inflight') = ToSet(inflight) \cap T
  BY <1>1, KeptPlaces, KeptProperties
<1>4. \A k \in DOMAIN inflight : BatchOver(inflight[k]) \/ inflight[k] \in ToSet(inflight')
  BY <1>2, <1>3
<1>5. \A b \in ToSet(inflight') : \E j \in DOMAIN inflight' : inflight'[j] = b
  BY DEF ToSet
<1>6. QED
  BY <1>1, <1>3, <1>4, <1>5

LEMMA BuildBatchAppends ==
  ASSUME IInv, BuildBatch
  PROVE  /\ ran' = ran /\ nextId' = nextId + 1
         /\ DOMAIN inflight = 1..Len(inflight) /\ Len(inflight) \in Nat
         /\ DOMAIN inflight' = 1..(Len(inflight) + 1)
         /\ \A j \in DOMAIN inflight : inflight'[j] = inflight[j]
         /\ inflight'[Len(inflight) + 1].id = nextId
         /\ inflight'[Len(inflight) + 1].work = step.scheduled
         /\ inflight'[Len(inflight) + 1].ended = {}
<1> DEFINE b == [id |-> nextId, work |-> step.scheduled, fired |-> {StartNpu}, ended |-> {}]
<1>1. inflight \in Seq(Batches) /\ nextId \in Nat /\ step \in Steps
  BY Typed DEF IInv
<1>2. inflight' = Append(inflight, b) /\ nextId' = nextId + 1 /\ ran' = ran
  BY DEF BuildBatch
<1>3. b.id = nextId /\ b.work = step.scheduled /\ b.ended = {}
  OBVIOUS
<1>4. b \in Batches
  <2>1. step.scheduled \in Seq(Work) /\ StartNpu \in Npus
    BY <1>1, IdleTyped DEF Steps
  <2>2. QED
    BY <1>1, <2>1 DEF Batches
<1> HIDE DEF b
<1>5. /\ Append(inflight, b) \in Seq(Batches) /\ Len(Append(inflight, b)) = Len(inflight) + 1
      /\ Len(inflight) \in Nat
      /\ \A i \in 1..Len(inflight) : Append(inflight, b)[i] = inflight[i]
      /\ Append(inflight, b)[Len(inflight) + 1] = b
  BY <1>1, <1>4, AppendProperties, LenProperties
<1>6. DOMAIN inflight = 1..Len(inflight) /\ DOMAIN inflight' = 1..(Len(inflight) + 1)
  BY <1>1, <1>2, <1>5, LenProperties
<1>7. QED
  BY <1>2, <1>3, <1>5, <1>6

(* The marks stay true. *)
LEMMA InOrderStep ==
  ASSUME IInv, InOrder, [Next]_vars
  PROVE  InOrder'
<1>1. /\ inflight \in Seq(Batches) /\ ran \in [Npus -> Nat] /\ nextId \in Nat
  BY Typed DEF IInv
<1>2. \A k \in DOMAIN inflight : inflight[k].id \in Nat
  <2>1. \A k \in DOMAIN inflight : inflight[k] \in Batches
    BY <1>1, LenProperties, ElementOfSeq
  <2>2. QED
    BY <2>1 DEF Batches
<1>3. /\ Rising(inflight) /\ Marked(inflight, ran, nextId)
      /\ \A n \in Npus : ran[n] \in Nat /\ ran[n] <= nextId
  BY <1>1 DEF InOrder
<1>4. CASE inflight' = inflight /\ nextId' = nextId /\ ran' = ran
  BY <1>4 DEF InOrder
<1>5. ASSUME NEW n \in Npus, HandBack(n) PROVE InOrder'
  <2>1. /\ ran' = [ran EXCEPT ![n] = @ + 1] /\ nextId' = nextId
        /\ DOMAIN inflight' = DOMAIN inflight
    BY <1>5, HandBackMarks
  <2>2. PICK k \in DOMAIN inflight :
          /\ inflight[k].id = ran[n]
          /\ \A j \in DOMAIN inflight :
               /\ inflight'[j].id = inflight[j].id /\ inflight'[j].work = inflight[j].work
               /\ inflight'[j].ended = inflight[j].ended \cup (IF j = k THEN {n} ELSE {})
    BY <1>5, HandBackMarks
  <2>3. /\ ran'[n] = ran[n] + 1 /\ ran[n] \in Nat
        /\ \A i \in Npus \ {n} : ran'[i] = ran[i]
    BY <1>1, <2>1
  <2>4. Rising(inflight')
    BY <1>3, <2>1, <2>2 DEF Rising
  <2>5. ASSUME NEW j \in DOMAIN inflight
        PROVE  inflight'[j].ended = {i \in Npus : ran'[i] > inflight[j].id}
    <3> DEFINE id == inflight[j].id
    <3>1. id \in Nat /\ inflight[j].ended = {i \in Npus : ran[i] > id}
      BY <1>2, <1>3 DEF Marked
    <3>2. inflight'[j].ended = inflight[j].ended \cup (IF j = k THEN {n} ELSE {})
      BY <2>2
    <3>3. j = k <=> id = ran[n]
      <4>1. j # k => id # inflight[k].id
        <5>1. j \in Nat /\ k \in Nat
          BY <1>1, LenProperties
        <5>2. j # k => j < k \/ k < j
          BY <5>1
        <5>3. j < k => id < inflight[k].id
          BY <1>3 DEF Rising
        <5>4. k < j => inflight[k].id < id
          BY <1>3 DEF Rising
        <5>5. id \in Nat /\ inflight[k].id \in Nat
          BY <1>2
        <5> HIDE DEF id
        <5>6. QED
          BY <5>2, <5>3, <5>4, <5>5
      <4>2. QED
        BY <2>2, <4>1
    <3> HIDE DEF id
    <3>4. n \in {i \in Npus : ran'[i] > id} <=> ran[n] > id \/ ran[n] = id
      BY <2>3, <3>1
    <3>5. \A i \in Npus \ {n} : i \in {x \in Npus : ran'[x] > id} <=> ran[i] > id
      BY <2>3
    <3>6. inflight'[j].ended = {i \in Npus : ran'[i] > id}
      BY <3>1, <3>2, <3>3, <3>4, <3>5
    <3>7. QED
      BY <3>6 DEF id
  <2>6. Marked(inflight', ran', nextId')
    BY <1>3, <2>1, <2>2, <2>5 DEF Marked
  <2>7. ASSUME NEW i \in Npus PROVE ran'[i] <= nextId
    <3>1. ran[n] < nextId
      BY <1>3, <2>2 DEF Marked
    <3>2. ran'[i] = IF i = n THEN ran[i] + 1 ELSE ran[i]
      BY <2>3
    <3>3. QED
      BY <1>1, <1>3, <3>1, <3>2
  <2>8. QED
    BY <2>1, <2>4, <2>6, <2>7 DEF InOrder
<1>6. CASE JoinBatch
  <2>1. /\ ran' = ran /\ nextId' = nextId /\ DOMAIN inflight' = DOMAIN inflight
        /\ \A j \in DOMAIN inflight :
             inflight'[j].id = inflight[j].id /\ inflight'[j].ended = inflight[j].ended
    BY <1>6, JoinBatchMarks
  <2>2. Rising(inflight')
    BY <1>3, <2>1 DEF Rising
  <2>3. Marked(inflight', ran', nextId')
    BY <1>3, <2>1 DEF Marked
  <2>4. QED
    BY <1>3, <2>1, <2>2, <2>3 DEF InOrder
<1>7. CASE DropBatch
  <2>1. ran' = ran /\ nextId' = nextId
    BY <1>7, DropBatchKeeps
  <2>2. PICK at : Places(at, inflight', inflight)
    BY <1>7, DropBatchKeeps
  <2>3. /\ \A k \in DOMAIN inflight' : at[k] \in DOMAIN inflight /\ inflight'[k] = inflight[at[k]]
        /\ \A j, k \in DOMAIN inflight' : j < k => at[j] < at[k]
    BY <2>2 DEF Places
  <2>4. Rising(inflight')
    BY <1>3, <2>3 DEF Rising
  <2>5. Marked(inflight', ran', nextId')
    BY <1>3, <2>1, <2>3 DEF Marked
  <2>6. QED
    BY <1>3, <2>1, <2>4, <2>5 DEF InOrder
<1>8. CASE BuildBatch
  <2> DEFINE len == Len(inflight)
  <2>1. /\ ran' = ran /\ nextId' = nextId + 1
        /\ DOMAIN inflight = 1..len /\ len \in Nat /\ DOMAIN inflight' = 1..(len + 1)
        /\ \A j \in DOMAIN inflight : inflight'[j] = inflight[j]
        /\ inflight'[len + 1].id = nextId /\ inflight'[len + 1].ended = {}
    BY <1>8, BuildBatchAppends
  <2> HIDE DEF len
  <2>2. \A j \in DOMAIN inflight' : j = len + 1 \/ j \in DOMAIN inflight
    BY <2>1
  <2>3. \A j \in DOMAIN inflight : inflight[j].id < nextId
    BY <1>3 DEF Marked
  <2>4. Rising(inflight')
    <3>1. SUFFICES ASSUME NEW j \in DOMAIN inflight', NEW k \in DOMAIN inflight', j < k
                   PROVE  inflight'[j].id < inflight'[k].id
      BY DEF Rising
    <3>2. j \in DOMAIN inflight
      BY <2>1, <3>1
    <3>3. CASE k = len + 1
      BY <2>1, <2>3, <3>2, <3>3
    <3>4. CASE k \in DOMAIN inflight
      BY <1>3, <2>1, <3>1, <3>2, <3>4 DEF Rising
    <3>5. QED
      BY <2>2, <3>3, <3>4
  <2>5. Marked(inflight', ran', nextId')
    <3>1. SUFFICES ASSUME NEW k \in DOMAIN inflight'
                   PROVE  /\ inflight'[k].id < nextId + 1
                          /\ inflight'[k].ended = {n \in Npus : ran[n] > inflight'[k].id}
      BY <2>1 DEF Marked
    <3>2. CASE k = len + 1
      <4>1. \A n \in Npus : ~(ran[n] > nextId)
        BY <1>1, <1>3
      <4>2. nextId < nextId + 1
        BY <1>1
      <4>3. QED
        BY <2>1, <3>2, <4>1, <4>2
    <3>3. CASE k \in DOMAIN inflight
      <4>1. inflight[k].id < nextId /\ inflight[k].ended = {n \in Npus : ran[n] > inflight[k].id}
        BY <1>3, <3>3 DEF Marked
      <4>2. inflight[k].id < nextId + 1
        BY <1>1, <1>2, <3>3, <4>1
      <4>3. QED
        BY <2>1, <3>3, <4>1, <4>2
    <3>4. QED
      BY <2>2, <3>2, <3>3
  <2>6. \A n \in Npus : ran[n] <= nextId + 1
    BY <1>1, <1>3
  <2>7. QED
    BY <2>1, <2>4, <2>5, <2>6 DEF InOrder
<1>9. QED
  BY <1>4, <1>5, <1>6, <1>7, <1>8, WhatMoves

(* A batch is over before every later one. *)
LEMMA OverInOrder ==
  ASSUME IInv, InOrder, NEW j \in DOMAIN inflight, NEW k \in DOMAIN inflight,
         inflight[j].id <= inflight[k].id, BatchOver(inflight[k])
  PROVE  BatchOver(inflight[j])
<1>1. inflight[j].id \in Nat /\ inflight[k].id \in Nat
  <2>1. inflight \in Seq(Batches)
    BY Typed DEF IInv
  <2>2. inflight[j] \in Batches /\ inflight[k] \in Batches
    BY <2>1, LenProperties, ElementOfSeq
  <2>3. QED
    BY <2>2 DEF Batches
<1>2. \A n \in Npus : ran[n] \in Nat
  BY Typed DEF IInv
<1>3. /\ inflight[j].ended = {n \in Npus : ran[n] > inflight[j].id}
      /\ inflight[k].ended = {n \in Npus : ran[n] > inflight[k].id}
  BY DEF InOrder, Marked
<1>4. \A n \in Npus : ran[n] > inflight[k].id => ran[n] > inflight[j].id
  BY <1>1, <1>2
<1>5. inflight[k].ended \subseteq inflight[j].ended
  BY <1>3, <1>4
<1>6. QED
  BY <1>5 DEF BatchOver

(* A batch is dropped only when all have run it. *)
LEMMA NumberedStep ==
  ASSUME IInv, InStages, Numbered, [Next]_vars
  PROVE  Numbered'
<1>1. /\ inflight \in Seq(Batches) /\ ran \in [Npus -> Nat] /\ nextId \in Nat
  BY Typed DEF IInv
<1>2. InOrder' /\ Marked(inflight, ran, nextId) /\ Awaited(inflight, ran, nextId)
  BY InOrderStep DEF Numbered, InOrder
<1>3. CASE inflight' = inflight /\ nextId' = nextId /\ ran' = ran
  BY <1>2, <1>3 DEF Numbered
<1>4. ASSUME NEW n \in Npus, HandBack(n) PROVE Awaited(inflight', ran', nextId')
  <2>1. /\ ran' = [ran EXCEPT ![n] = @ + 1] /\ nextId' = nextId
        /\ DOMAIN inflight' = DOMAIN inflight
        /\ \A j \in DOMAIN inflight : inflight'[j].id = inflight[j].id
    BY <1>4, HandBackMarks
  <2>2. ASSUME NEW i \in Npus, NEW m \in Nat, ran'[i] <= m PROVE ran[i] <= m
    <3>1. ran[i] \in Nat /\ ran'[i] \in {ran[i], ran[i] + 1}
      BY <1>1, <2>1
    <3>2. QED
      BY <2>2, <3>1
  <2>3. QED
    BY <1>2, <2>1, <2>2 DEF Awaited
<1>5. CASE JoinBatch
  <2>1. /\ ran' = ran /\ nextId' = nextId /\ DOMAIN inflight' = DOMAIN inflight
        /\ \A j \in DOMAIN inflight : inflight'[j].id = inflight[j].id
    BY <1>5, JoinBatchMarks
  <2>2. Awaited(inflight', ran', nextId')
    BY <1>2, <2>1 DEF Awaited
  <2>3. QED
    BY <1>2, <2>2 DEF Numbered
<1>6. CASE DropBatch
  <2>1. /\ ran' = ran /\ nextId' = nextId
        /\ \A k \in DOMAIN inflight :
              BatchOver(inflight[k]) \/ \E j \in DOMAIN inflight' : inflight'[j] = inflight[k]
    BY <1>6, DropBatchKeeps
  <2>2. ASSUME NEW n \in Npus, NEW k \in DOMAIN inflight, BatchOver(inflight[k])
        PROVE  ~(ran[n] <= inflight[k].id)
    <3> DEFINE id == inflight[k].id
    <3>1. id \in Nat /\ ran[n] \in Nat /\ ran[StartNpu] \in Nat /\ ran[LastNpu] \in Nat
      <4>1. inflight[k] \in Batches
        BY <1>1, LenProperties, ElementOfSeq
      <4>2. QED
        BY <1>1, <4>1, IdleTyped DEF Batches
    <3>2. ran[StartNpu] > id /\ ran[LastNpu] > id
      <4>1. inflight[k].ended = {i \in Npus : ran[i] > id}
        BY <1>2 DEF Marked
      <4> HIDE DEF id
      <4>2. QED
        BY <2>2, <4>1 DEF BatchOver
    <3>3. ran[n] >= ran[StartNpu] \/ ran[n] >= ran[LastNpu]
      BY DEF InStages
    <3> HIDE DEF id
    <3>4. ~(ran[n] <= id)
      BY <3>1, <3>2, <3>3
    <3>5. QED
      BY <3>4 DEF id
  <2>3. ASSUME NEW n \in Npus, NEW m \in Nat, ran[n] <= m, m < nextId
        PROVE  \E j \in DOMAIN inflight' : inflight'[j].id = m
    <3>1. PICK k \in DOMAIN inflight : inflight[k].id = m
      BY <1>2, <2>3 DEF Awaited
    <3>2. ~BatchOver(inflight[k])
      BY <2>2, <2>3, <3>1
    <3>3. PICK j \in DOMAIN inflight' : inflight'[j] = inflight[k]
      BY <2>1, <3>2
    <3>4. QED
      BY <3>1, <3>3
  <2>4. Awaited(inflight', ran', nextId')
    BY <2>1, <2>3 DEF Awaited
  <2>5. QED
    BY <1>2, <2>4 DEF Numbered
<1>7. CASE BuildBatch
  <2> DEFINE len == Len(inflight)
  <2>1. /\ ran' = ran /\ nextId' = nextId + 1
        /\ DOMAIN inflight = 1..len /\ len \in Nat /\ DOMAIN inflight' = 1..(len + 1)
        /\ \A j \in DOMAIN inflight : inflight'[j] = inflight[j]
        /\ inflight'[len + 1].id = nextId
    BY <1>7, BuildBatchAppends
  <2> HIDE DEF len
  <2>2. ASSUME NEW n \in Npus, NEW m \in Nat, ran[n] <= m, m < nextId + 1
        PROVE  \E k \in DOMAIN inflight' : inflight'[k].id = m
    <3>1. CASE m = nextId
      <4>1. len + 1 \in DOMAIN inflight'
        BY <2>1
      <4>2. QED
        BY <2>1, <3>1, <4>1
    <3>2. CASE m < nextId
      <4>1. PICK k \in DOMAIN inflight : inflight[k].id = m
        BY <1>2, <2>2, <3>2 DEF Awaited
      <4>2. k \in DOMAIN inflight'
        BY <2>1
      <4>3. QED
        BY <2>1, <4>1, <4>2
    <3>3. QED
      BY <1>1, <2>2, <3>1, <3>2
  <2>3. Awaited(inflight', ran', nextId')
    BY <2>1, <2>2 DEF Awaited
  <2>4. QED
    BY <1>2, <2>3 DEF Numbered
<1>8. QED
  BY <1>2, <1>3, <1>4, <1>5, <1>6, <1>7, WhatMoves DEF Numbered

(* Only a preemption sets a counter back. *)
LEMMA CountersRise ==
  ASSUME IInv, [Next]_vars, ~PreemptTail
  PROVE  \A r \in Reqs : computed[r] <= computed'[r]
<1>1. computed \in [Reqs -> Nat] /\ computed' \in [Reqs -> Nat]
  <2>1. TypeOK /\ TypeOK'
    BY NextStep DEF IInv
  <2>2. QED
    BY <2>1 DEF TypeOK
<1>2. CASE computed' = computed
  BY <1>1, <1>2
<1>3. CASE AdmitWaiting
  <2>1. /\ computed' = [computed EXCEPT ![Head(waiting)] = NextBefore]
        /\ At("waiting") /\ waiting # << >>
    BY <1>3 DEF AdmitWaiting, Admissible
  <2>2. computed[Head(waiting)] = 0
    BY <2>1, NextFacts
  <2>3. QED
    BY <1>1, <2>1, <2>2
<1>4. CASE BuildBatch
  <2>1. computed' = Slots
    BY <1>4, BuildBatchStep
  <2>2. Planned(ToSet(step.scheduled), computed, running)
    BY DEF IInv, StepFits
  <2> DEFINE W == ToSet(step.scheduled)
  <2>3. ASSUME NEW r \in Reqs PROVE computed[r] <= Slots[r]
    <3>1. Slots[r] = GrantedBy(W, computed, r)
      BY SlotsAreBy DEF SlotsBy
    <3>2. CASE Missing(W, r)
      <4>1. Slots[r] = computed[r]
        <5> HIDE DEF W
        <5>1. GrantedBy(W, computed, r) = computed[r]
          BY <1>1, <2>2, <3>2, GrantedByPlan DEF W
        <5>2. QED
          BY <3>1, <5>1
      <4>2. QED
        BY <1>1, <4>1
    <3>3. CASE ~Missing(W, r)
      <4>1. PICK w \in W : w.req = r
        BY <3>3 DEF Missing
      <4>2. w \in Work /\ w.before = computed[r]
        BY <2>2, <4>1 DEF Planned
      <4>3. Slots[r] = w.before + w.n
        BY <1>1, <2>2, <3>1, <4>1, GrantedByPlan
      <4>4. w.n \in Nat
        BY <4>2 DEF Work
      <4>5. QED
        BY <1>1, <4>2, <4>3, <4>4
    <3>4. QED
      BY <3>2, <3>3
  <2>4. QED
    BY <2>1, <2>3
<1>5. QED
  BY <1>2, <1>3, <1>4, WhatMoves

(* A batch starts where the counters are, which no earlier one is ahead of.*)
LEMMA ApartStep ==
  ASSUME IInv, NothingInFlightTwice, Behind, [Next]_vars, ~PreemptTail
  PROVE  NothingInFlightTwice' /\ Behind'
<1>1. /\ inflight \in Seq(Batches) /\ computed \in [Reqs -> Nat]
      /\ computed' \in [Reqs -> Nat] /\ \A r \in Reqs : computed[r] <= computed'[r]
  <2>1. TypeOK /\ TypeOK'
    BY NextStep DEF IInv
  <2>2. QED
    BY <2>1, CountersRise, Typed DEF TypeOK
<1>2. CASE \E at : Those(inflight', inflight, at)
  BY <1>1, <1>2, ThoseApart
<1>3. CASE inflight' = inflight
  BY <1>2, <1>3, ThoseSame
<1>4. ASSUME NEW n \in Npus, HandBack(n) PROVE \E at : Those(inflight', inflight, at)
  <2>1. /\ DOMAIN inflight' = DOMAIN inflight
        /\ \A j \in DOMAIN inflight :
             inflight'[j].id = inflight[j].id /\ inflight'[j].work = inflight[j].work
    BY <1>4, HandBackMarks
  <2>2. QED
    BY <2>1, ThoseSame
<1>5. CASE JoinBatch
  <2>1. /\ DOMAIN inflight' = DOMAIN inflight
        /\ \A j \in DOMAIN inflight :
             inflight'[j].id = inflight[j].id /\ inflight'[j].work = inflight[j].work
    BY <1>5, JoinBatchMarks
  <2>2. QED
    BY <1>2, <2>1, ThoseSame
<1>6. CASE DropBatch
  <2>1. PICK at : Places(at, inflight', inflight)
    BY <1>6, DropBatchKeeps
  <2>2. Those(inflight', inflight, at)
    BY <2>1 DEF Places, Those
  <2>3. QED
    BY <1>2, <2>2
<1>7. CASE BuildBatch
  <2> DEFINE len == Len(inflight)
  <2>1. /\ DOMAIN inflight = 1..len /\ len \in Nat /\ DOMAIN inflight' = 1..(len + 1)
        /\ \A j \in DOMAIN inflight : inflight'[j] = inflight[j]
        /\ inflight'[len + 1].work = step.scheduled
    BY <1>7, BuildBatchAppends
  <2> HIDE DEF len
  <2>2. \A j \in DOMAIN inflight' : j = len + 1 \/ j \in DOMAIN inflight
    BY <2>1
  <2>3. Planned(ToSet(step.scheduled), computed, running)
    BY DEF IInv, StepFits
  <2>4. ASSUME NEW w \in ToSet(step.scheduled)
        PROVE  /\ w.before = computed[w.req] /\ w.before + w.n = computed'[w.req]
    <3>1. w.before = computed[w.req] /\ w.req \in Reqs
      BY <2>3 DEF Planned, Work
    <3>2. computed' = Slots
      BY <1>7, BuildBatchStep
    <3>3. GrantedBy(ToSet(step.scheduled), computed, w.req) = w.before + w.n
      BY <1>1, <2>3, GrantedByPlan
    <3>4. QED
      BY <3>1, <3>2, <3>3, SlotsAreBy DEF SlotsBy
  <2>5. ASSUME NEW k \in DOMAIN inflight, NEW v \in ToSet(inflight[k].work)
        PROVE  v.before + v.n <= computed[v.req] /\ v.before + v.n <= computed'[v.req]
    <3> DEFINE sum == v.before + v.n
    <3>1. v \in Work /\ sum <= computed[v.req]
      BY <1>1, InFlightWork DEF Behind
    <3>2. sum \in Nat /\ v.req \in Reqs
      BY <3>1 DEF Work
    <3> HIDE DEF sum
    <3>3. sum <= computed'[v.req]
      BY <1>1, <3>1, <3>2
    <3>4. QED
      BY <3>1, <3>3 DEF sum
  <2>6. ASSUME NEW j \in DOMAIN inflight', NEW k \in DOMAIN inflight', j < k,
               NEW v \in ToSet(inflight'[j].work), NEW w \in ToSet(inflight'[k].work), v.req = w.req
        PROVE  v.before + v.n <= w.before
    <3>1. j \in DOMAIN inflight
      BY <2>1, <2>6
    <3>2. v \in ToSet(inflight[j].work)
      BY <2>1, <3>1
    <3>3. CASE k = len + 1
      <4>1. w \in ToSet(step.scheduled)
        BY <2>1, <3>3
      <4>2. QED
        BY <2>4, <2>5, <2>6, <3>1, <3>2, <4>1
    <3>4. CASE k \in DOMAIN inflight
      BY <2>1, <2>6, <3>1, <3>2, <3>4 DEF NothingInFlightTwice
    <3>5. QED
      BY <2>2, <3>3, <3>4
  <2>7. ASSUME NEW k \in DOMAIN inflight', NEW w \in ToSet(inflight'[k].work)
        PROVE  w.before + w.n <= computed'[w.req]
    <3>1. CASE k = len + 1
      <4>1. w \in ToSet(step.scheduled)
        BY <2>1, <3>1
      <4>2. /\ w.before + w.n = computed'[w.req] /\ w.req \in Reqs
        BY <2>3, <2>4, <4>1 DEF Planned, Work
      <4>3. QED
        BY <1>1, <4>2
    <3>2. CASE k \in DOMAIN inflight
      BY <2>1, <2>5, <3>2
    <3>3. QED
      BY <2>2, <3>1, <3>2
  <2>8. QED
    BY <2>6, <2>7 DEF NothingInFlightTwice, Behind
<1>8. QED
  BY <1>2, <1>3, <1>4, <1>5, <1>6, <1>7, WhatMoves

LEMMA NoneInFlight ==
  ASSUME Init
  PROVE  Numbered /\ NothingInFlightTwice /\ Behind
<1>1. inflight = << >> /\ nextId = 0 /\ \A n \in Npus : ran[n] = 0
  BY DEF Init
<1>2. DOMAIN inflight = {}
  BY <1>1
<1>3. InOrder
  BY <1>1, <1>2 DEF InOrder, Rising, Marked
<1>4. Awaited(inflight, ran, nextId)
  <2>1. \A m \in Nat : ~(m < 0)
    OBVIOUS
  <2>2. QED
    BY <1>1, <2>1 DEF Awaited
<1>5. QED
  BY <1>2, <1>3, <1>4 DEF Numbered, NothingInFlightTwice, Behind

LEMMA AwaitedIsThere ==
  ASSUME IInv, Numbered
  PROVE  NoBatchLost
<1>1. \A n \in Npus : ran[n] \in Nat
  BY Typed DEF IInv
<1>2. Awaited(inflight, ran, nextId)
  BY DEF Numbered
<1>3. ASSUME NEW n \in Npus, ran[n] < nextId
      PROVE  \E k \in DOMAIN inflight : inflight[k].id = ran[n]
  <2>1. ran[n] \in Nat /\ ran[n] <= ran[n]
    BY <1>1
  <2>2. QED
    BY <1>2, <1>3, <2>1 DEF Awaited
<1>4. QED
  BY <1>3 DEF NoBatchLost

(* As long as ASTRA-Sim keeps the order of the stages, no batch is dropped *)
(* before every NPU has run it and each NPU gets every batch, for any      *)
(* number of NPUs and stages; and until a request is preempted no position *)
(* is in two batches, however many are in flight (_build_batch,            *)
(* _schedule_existing, add_done).                                          *)
THEOREM BatchesRunOnce ==
  Spec /\ []InStages /\ [][~PreemptTail]_vars => []EachBatchOnce
<1> DEFINE Once == Numbered /\ NothingInFlightTwice /\ Behind
<1>1. Init => Once
  BY NoneInFlight
<1>2. IInv /\ InStages /\ Once /\ [Next]_vars /\ [~PreemptTail]_vars => Once'
  <2>1. SUFFICES ASSUME IInv, InStages, Once, [Next]_vars, [~PreemptTail]_vars PROVE Once'
    OBVIOUS
  <2>2. CASE ~PreemptTail
    BY <2>1, <2>2, NumberedStep, ApartStep
  <2>3. CASE UNCHANGED vars
    <3>1. inflight' = inflight /\ nextId' = nextId /\ ran' = ran /\ computed' = computed
      BY <2>3 DEF vars, requests, batches, npus
    <3>2. QED
      BY <2>1, <3>1 DEF Numbered, InOrder, NothingInFlightTwice, Behind
  <2>4. QED
    BY <2>1, <2>2, <2>3
<1>3. IInv /\ Once => EachBatchOnce
  BY AwaitedIsThere DEF EachBatchOnce
<1> HIDE DEF Once
<1>4. QED
  BY Inductive, <1>1, <1>2, <1>3, PTL DEF Spec

(* With two NPUs at most there is no stage between the first and the last, *)
(* and nothing need be assumed of the back end.                            *)
THEOREM TwoNpusLoseNothing ==
  ASSUME LastNpu <= 1
  PROVE  Spec => []NoBatchLost
<1>1. Init => Numbered
  BY NoneInFlight
<1>2. IInv /\ Numbered /\ [Next]_vars => Numbered'
  BY NumberedStep, TwoNpusInStages
<1>3. IInv /\ Numbered => NoBatchLost
  BY AwaitedIsThere
<1>4. QED
  BY Inductive, <1>1, <1>2, <1>3, PTL DEF Spec

-----------------------------------------------------------------------------
(* Tokens, with any number of batches in flight. *)

(* Work that takes r to position n at least. *)
Takes(w, r, n) == w.req = r /\ w.before + w.n >= n

(* A counter runs ahead of the batches reported so far, but not of those   *)
(* in flight: for a request with work in a batch, that batch or a later    *)
(* one takes it to its counter, unless the step under way, which has just  *)
(* admitted it again, is to do so.                                         *)
Backed(q, W, c) ==
  \A k \in DOMAIN q : \A v \in ToSet(q[k].work) :
    \/ \E j \in DOMAIN q : q[k].id <= q[j].id /\ \E w \in ToSet(q[j].work) : Takes(w, v.req, c[v.req])
    \/ \E w \in W : Takes(w, v.req, c[v.req])

(* What is left to complete is work of one batch, still in flight. *)
ToComplete(todo, at, q) ==
  todo # << >> => at = "complete" /\ \E k \in DOMAIN q : ToSet(todo) \subseteq ToSet(q[k].work)

Reported ==
  /\ Backed(inflight, ToSet(step.scheduled), computed)
  /\ ToComplete(step.todo, step.at, inflight)

(* Only the end of a step takes back what it has scheduled. *)
LEMMA ScheduledStays ==
  ASSUME IInv, [Next]_vars
  PROVE  BuildBatch \/ ToSet(step.scheduled) \subseteq ToSet(step'.scheduled)
<1>1. /\ step \in Steps /\ step.scheduled \in Seq(Work)
      /\ step.at \notin {"running", "waiting", "build"} => step.scheduled = << >>
  BY Typed DEF IInv, StepFits, Steps
<1>2. CASE step.scheduled = << >>
  BY <1>2, EmptyElements
<1>3. CASE step.at \in {"running", "waiting", "build"} /\ step.scheduled # << >>
  <2>1. CASE step' = step
    BY <2>1
  <2>2. CASE ServeRunning
    <3>1. /\ Schedule(Current, NumNewTokens(Current), computed[Current]) /\ Serving
          /\ NumNewTokens(Current) > 0
      BY <2>2 DEF ServeRunning
    <3>2. /\ Current \in Reqs /\ computed[Current] \in Nat
          /\ NumNewTokens(Current) \in Nat /\ NumNewTokens(Current) <= step.budget
      BY <3>1, Served, NewTokens
    <3>3. QED
      BY <1>1, <3>1, <3>2, ScheduleMoves
  <2>3. CASE AdmitWaiting
    <3>1. At("waiting") /\ Admissible /\ Schedule(Head(waiting), NextTokens, NextBefore)
          /\ waiting # << >>
      BY <2>3 DEF AdmitWaiting, Admissible
    <3>2. /\ Head(waiting) \in Reqs /\ NextBefore \in Nat
          /\ NextTokens \in Nat /\ NextTokens <= step.budget
      BY <3>1, NextFacts, NextTokensType
    <3>3. QED
      BY <1>1, <3>1, <3>2, ScheduleMoves
  <2>4. CASE SkipRunning \/ PreemptTail \/ EndRunning \/ EndWaiting
    <3>1. step'.scheduled = step.scheduled
      BY <1>1, <2>4 DEF SkipRunning, PreemptTail, EndRunning, EndWaiting, Goto, Steps
    <3>2. QED
      BY <3>1
  <2>5. QED
    BY <1>3, <2>1, <2>2, <2>3, <2>4
       DEF Next, InStep, Handshake, AddRequest, HandBack, Poll, SkipFinished, CompleteRequest, DropBatch,
           JoinBatch, Pass, StartSchedule, NothingToBuild, At, vars
<1>4. QED
  BY <1>1, <1>2, <1>3

(* The same batches, with counters that moved only where work takes them.  *)
LEMMA BackedStays ==
  ASSUME NEW q, NEW W, NEW c, Backed(q, W, c), NEW p, DOMAIN p = DOMAIN q,
         \A k \in DOMAIN q : p[k].id = q[k].id /\ p[k].work = q[k].work /\ q[k].id <= q[k].id,
         NEW V, W \subseteq V, NEW d,
         \A k \in DOMAIN q : \A v \in ToSet(q[k].work) :
           d[v.req] = c[v.req] \/ Takes(v, v.req, d[v.req]) \/ \E w \in V : Takes(w, v.req, d[v.req])
  PROVE  Backed(p, V, d)
<1>1. SUFFICES ASSUME NEW k \in DOMAIN p, NEW v \in ToSet(p[k].work)
               PROVE  \/ \E j \in DOMAIN p : p[k].id <= p[j].id
                                             /\ \E w \in ToSet(p[j].work) : Takes(w, v.req, d[v.req])
                      \/ \E w \in V : Takes(w, v.req, d[v.req])
  BY DEF Backed
<1>2. k \in DOMAIN q /\ v \in ToSet(q[k].work)
  BY <1>1
<1>3. CASE d[v.req] = c[v.req]
  <2>1. CASE \E w \in W : Takes(w, v.req, c[v.req])
    BY <1>3, <2>1
  <2>2. CASE \E j \in DOMAIN q : q[k].id <= q[j].id /\ \E w \in ToSet(q[j].work) : Takes(w, v.req, c[v.req])
    BY <1>2, <1>3, <2>2
  <2>3. QED
    BY <1>2, <2>1, <2>2 DEF Backed
<1>4. CASE Takes(v, v.req, d[v.req])
  BY <1>1, <1>2, <1>4
<1>5. QED
  BY <1>2, <1>3, <1>4

LEMMA BackedStep ==
  ASSUME IInv, InOrder, Reported, [Next]_vars
  PROVE  Backed(inflight', ToSet(step'.scheduled), computed')
<1> DEFINE W == ToSet(step.scheduled)
           V == ToSet(step'.scheduled)
<1>1. /\ inflight \in Seq(Batches) /\ computed \in [Reqs -> Nat] /\ nextId \in Nat
      /\ Planned(W, computed, running) /\ Backed(inflight, W, computed)
  BY Typed DEF IInv, StepFits, Reported
<1>2. \A k \in DOMAIN inflight : inflight[k].id \in Nat /\ inflight[k].id <= inflight[k].id
  <2>1. \A k \in DOMAIN inflight : inflight[k] \in Batches
    BY <1>1, LenProperties, ElementOfSeq
  <2>2. \A k \in DOMAIN inflight : inflight[k].id \in Nat
    BY <2>1 DEF Batches
  <2>3. QED
    BY <2>2
<1>3. \A k \in DOMAIN inflight : \A v \in ToSet(inflight[k].work) : v \in Work /\ v.req \in Reqs
  <2>1. \A k \in DOMAIN inflight : \A v \in ToSet(inflight[k].work) : v \in Work
    BY <1>1, InFlightWork
  <2>2. QED
    BY <2>1 DEF Work
<1>4. BuildBatch \/ W \subseteq V
  BY ScheduledStays
<1> HIDE DEF W, V
<1>5. CASE computed' = computed /\ ~BuildBatch /\ ~DropBatch
  <2>1. /\ DOMAIN inflight' = DOMAIN inflight
        /\ \A k \in DOMAIN inflight :
             inflight'[k].id = inflight[k].id /\ inflight'[k].work = inflight[k].work
    BY <1>5, WhatMoves, HandBackMarks, JoinBatchMarks
  <2>2. Backed(inflight', V, computed')
    BY <1>1, <1>2, <1>4, <1>5, <2>1, BackedStays
  <2>3. QED
    BY <2>2 DEF V
<1>6. CASE PreemptTail
  <2>1. /\ inflight' = inflight /\ computed' = [computed EXCEPT ![Victim] = 0] /\ ~BuildBatch
    BY <1>6 DEF PreemptTail, BuildBatch, Serving, At, batches
  <2>2. ASSUME NEW k \in DOMAIN inflight, NEW v \in ToSet(inflight[k].work)
        PROVE  computed'[v.req] = computed[v.req] \/ Takes(v, v.req, computed'[v.req])
    <3>1. v.before \in Nat /\ v.n \in Nat /\ v.req \in Reqs
      BY <1>3 DEF Work
    <3>2. v.before + v.n >= 0
      BY <3>1
    <3>3. CASE v.req = Victim
      BY <1>1, <2>1, <3>1, <3>2, <3>3 DEF Takes
    <3>4. CASE v.req # Victim
      BY <1>1, <2>1, <3>1, <3>4
    <3>5. QED
      BY <3>3, <3>4
  <2>3. Backed(inflight', V, computed')
    BY <1>1, <1>2, <1>4, <2>1, <2>2, BackedStays
  <2>4. QED
    BY <2>3 DEF V
<1>7. CASE AdmitWaiting
  <2> DEFINE r  == Head(waiting)
             w0 == [req |-> r, n |-> NextTokens, before |-> NextBefore]
  <2>1. /\ At("waiting") /\ Admissible /\ waiting # << >> /\ Schedule(r, NextTokens, NextBefore)
        /\ inflight' = inflight /\ computed' = [computed EXCEPT ![r] = NextBefore] /\ ~BuildBatch
    BY <1>7 DEF AdmitWaiting, Admissible, BuildBatch, At, batches
  <2>2. /\ r \in Reqs /\ NextBefore \in Nat /\ NextTokens \in Nat /\ NextTokens <= step.budget
    BY <2>1, NextFacts, NextTokensType
  <2>3. w0 \in V
    <3>1. step \in Steps
      BY Typed DEF IInv
    <3>2. V = ToSet(step.scheduled) \cup {w0}
      BY <2>1, <2>2, <3>1, ScheduleMoves DEF V
    <3>3. QED
      BY <3>2
  <2>4. Takes(w0, r, NextBefore)
    <3>1. NextBefore + NextTokens >= NextBefore
      BY <2>2
    <3>2. QED
      BY <3>1 DEF Takes
  <2> HIDE DEF w0, r
  <2>5. ASSUME NEW k \in DOMAIN inflight, NEW v \in ToSet(inflight[k].work)
        PROVE  computed'[v.req] = computed[v.req] \/ \E w \in V : Takes(w, v.req, computed'[v.req])
    <3>1. v.req \in Reqs
      BY <1>3
    <3>2. CASE v.req = r
      <4>1. computed'[v.req] = NextBefore
        BY <1>1, <2>1, <2>2, <3>2
      <4>2. QED
        BY <2>3, <2>4, <3>2, <4>1
    <3>3. CASE v.req # r
      BY <1>1, <2>1, <3>1, <3>3
    <3>4. QED
      BY <3>2, <3>3
  <2>6. Backed(inflight', V, computed')
    BY <1>1, <1>2, <1>4, <2>1, <2>5, BackedStays
  <2>7. QED
    BY <2>6 DEF V
<1>8. CASE DropBatch
  <2> DEFINE T == {batch \in ToSet(inflight) : ~BatchOver(batch)}
  <2>1. /\ inflight' = Kept(inflight, T) /\ computed' = computed /\ ~BuildBatch
    BY <1>8 DEF DropBatch, BuildBatch, requests, At
  <2>2. ToSet(inflight') = ToSet(inflight) \cap T
    BY <1>1, <2>1, KeptProperties
  <2>3. \A k \in DOMAIN inflight' : ~BatchOver(inflight'[k]) /\ inflight'[k] \in ToSet(inflight)
    BY <2>2 DEF ToSet
  <2>4. \A k \in DOMAIN inflight : ~BatchOver(inflight[k]) => inflight[k] \in ToSet(inflight')
    BY <2>2 DEF ToSet
  <2> HIDE DEF T
  <2>5. ASSUME NEW k \in DOMAIN inflight', NEW v \in ToSet(inflight'[k].work)
        PROVE  \/ \E j \in DOMAIN inflight' : inflight'[k].id <= inflight'[j].id
                                     /\ \E w \in ToSet(inflight'[j].work) : Takes(w, v.req, computed[v.req])
               \/ \E w \in V : Takes(w, v.req, computed[v.req])
    <3>1. PICK i \in DOMAIN inflight : inflight'[k] = inflight[i]
      BY <2>3 DEF ToSet
    <3>2. CASE \E w \in W : Takes(w, v.req, computed[v.req])
      BY <1>4, <2>1, <3>2
    <3>3. ASSUME NEW j \in DOMAIN inflight, inflight[i].id <= inflight[j].id,
                 \E w \in ToSet(inflight[j].work) : Takes(w, v.req, computed[v.req])
          PROVE  \E l \in DOMAIN inflight' : inflight'[k].id <= inflight'[l].id
                         /\ \E w \in ToSet(inflight'[l].work) : Takes(w, v.req, computed[v.req])
      <4>1. ~BatchOver(inflight[j])
        BY <2>3, <3>1, <3>3, OverInOrder
      <4>2. PICK l \in DOMAIN inflight' : inflight'[l] = inflight[j]
        BY <2>4, <4>1 DEF ToSet
      <4>3. QED
        BY <3>1, <3>3, <4>2
    <3>4. v \in ToSet(inflight[i].work)
      BY <2>5, <3>1
    <3>5. QED
      BY <1>1, <3>2, <3>3, <3>4 DEF Backed
  <2>6. QED
    BY <2>1, <2>5 DEF Backed, V
<1>9. CASE BuildBatch
  <2> DEFINE len == Len(inflight)
  <2>1. /\ DOMAIN inflight = 1..len /\ len \in Nat /\ DOMAIN inflight' = 1..(len + 1)
        /\ \A j \in DOMAIN inflight : inflight'[j] = inflight[j]
        /\ inflight'[len + 1].id = nextId /\ inflight'[len + 1].work = step.scheduled
    BY <1>9, BuildBatchAppends
  <2> HIDE DEF len
  <2>2. /\ \A j \in DOMAIN inflight' : j = len + 1 \/ j \in DOMAIN inflight
        /\ \A j \in DOMAIN inflight : j \in DOMAIN inflight'
        /\ len + 1 \in DOMAIN inflight'
    BY <2>1
  <2>3. \A k \in DOMAIN inflight' : inflight'[k].id <= nextId
    <3>1. \A k \in DOMAIN inflight : inflight[k].id < nextId
      BY DEF InOrder, Marked
    <3>2. QED
      BY <1>1, <1>2, <2>1, <2>2, <3>1
  <2>4. ASSUME NEW w \in W PROVE Takes(w, w.req, computed'[w.req])
    <3>1. w.req \in Reqs /\ w.before \in Nat /\ w.n \in Nat
      BY <1>1 DEF Planned, Work
    <3>2. computed' = Slots
      BY <1>9, BuildBatchStep
    <3>3. GrantedBy(W, computed, w.req) = w.before + w.n
      BY <1>1, GrantedByPlan
    <3>4. computed'[w.req] = w.before + w.n
      BY <3>1, <3>2, <3>3, SlotsAreBy DEF SlotsBy, W
    <3>5. w.before + w.n >= w.before + w.n
      BY <3>1
    <3>6. QED
      BY <3>4, <3>5 DEF Takes
  <2>5. ASSUME NEW r \in Reqs, Missing(W, r) PROVE computed'[r] = computed[r]
    <3>1. computed' = Slots
      BY <1>9, BuildBatchStep
    <3>2. GrantedBy(W, computed, r) = computed[r]
      BY <1>1, <2>5, GrantedByPlan
    <3>3. QED
      BY <3>1, <3>2, SlotsAreBy DEF SlotsBy, W
  <2>6. ToSet(inflight'[len + 1].work) = W
    BY <2>1 DEF W
  <2>7. ASSUME NEW k \in DOMAIN inflight', NEW v \in ToSet(inflight'[k].work)
        PROVE  \E j \in DOMAIN inflight' : inflight'[k].id <= inflight'[j].id
                         /\ \E w \in ToSet(inflight'[j].work) : Takes(w, v.req, computed'[v.req])
    <3>1. CASE ~Missing(W, v.req)
      <4>1. PICK w \in W : w.req = v.req
        BY <3>1 DEF Missing
      <4>2. Takes(w, v.req, computed'[v.req])
        BY <2>4, <4>1
      <4>3. QED
        BY <2>1, <2>2, <2>3, <2>6, <4>2
    <3>2. CASE Missing(W, v.req)
      <4>1. k \in DOMAIN inflight /\ v \in ToSet(inflight[k].work)
        BY <2>1, <2>2, <2>6, <2>7, <3>2 DEF Missing
      <4>2. v.req \in Reqs /\ computed'[v.req] = computed[v.req]
        BY <1>3, <2>5, <3>2, <4>1
      <4>3. ~(\E w \in W : Takes(w, v.req, computed[v.req]))
        BY <3>2 DEF Missing, Takes
      <4>4. PICK j \in DOMAIN inflight :
              /\ inflight[k].id <= inflight[j].id
              /\ \E w \in ToSet(inflight[j].work) : Takes(w, v.req, computed[v.req])
        BY <1>1, <4>1, <4>3 DEF Backed
      <4>5. QED
        BY <2>1, <2>2, <4>1, <4>2, <4>4
    <3>3. QED
      BY <3>1, <3>2
  <2>8. QED
    BY <2>7 DEF Backed
<1>10. QED
  BY <1>5, <1>6, <1>7, <1>8, <1>9, WhatMoves

LEMMA ToCompleteStep ==
  ASSUME IInv, Reported, [Next]_vars
  PROVE  ToComplete(step'.todo, step'.at, inflight')
<1>1. step \in Steps /\ inflight \in Seq(Batches) /\ step.todo \in Seq(Work)
  BY Typed DEF IInv, Steps
<1>2. ToComplete(step.todo, step.at, inflight)
  BY DEF Reported
<1>3. CASE step'.todo = << >>
  BY <1>3 DEF ToComplete
<1>4. CASE step' = step /\ inflight' = inflight
  BY <1>2, <1>4
<1>5. ASSUME NEW n \in Npus, HandBack(n) PROVE ToComplete(step'.todo, step'.at, inflight')
  <2>1. PICK k \in DOMAIN inflight :
          step' = IF BatchOver(inflight'[k])
                  THEN [Idle EXCEPT !.at = "complete", !.npu = n, !.todo = inflight[k].work]
                  ELSE [Idle EXCEPT !.at = "schedule", !.npu = n]
    BY <1>5 DEF HandBack
  <2>2. k \in DOMAIN inflight' /\ inflight'[k].work = inflight[k].work
    BY <1>5, HandBackMarks
  <2>3. CASE BatchOver(inflight'[k])
    <3>1. step'.todo = inflight[k].work /\ step'.at = "complete"
      BY <2>1, <2>3 DEF Idle
    <3>2. QED
      BY <2>2, <3>1 DEF ToComplete
  <2>4. CASE ~BatchOver(inflight'[k])
    <3>1. step'.todo = << >>
      BY <2>1, <2>4 DEF Idle
    <3>2. QED
      BY <1>3, <3>1
  <2>5. QED
    BY <2>3, <2>4
<1>6. CASE SkipFinished \/ CompleteRequest
  <2>1. /\ inflight' = inflight /\ step.at = "complete" /\ step.todo # << >>
        /\ step' = [step EXCEPT !.todo = Tail(@)]
    BY <1>6 DEF SkipFinished, CompleteRequest, batches, At
  <2>2. step'.todo = Tail(step.todo) /\ step'.at = "complete"
    BY <1>1, <2>1 DEF Steps
  <2>3. ToSet(step'.todo) \subseteq ToSet(step.todo)
    <3>1. \A j \in DOMAIN Tail(step.todo) :
            j + 1 \in DOMAIN step.todo /\ Tail(step.todo)[j] = step.todo[j + 1]
      BY <1>1, <2>1, HeadTailProperties, LenProperties
    <3>2. QED
      BY <2>2, <3>1 DEF ToSet
  <2>4. QED
    BY <1>2, <2>1, <2>2, <2>3 DEF ToComplete
<1>7. CASE step.todo = << >> /\ ~(\E n \in Npus : HandBack(n)) /\ ~(step' = step)
  <2>1. CASE JoinBatch \/ Pass \/ NothingToBuild \/ BuildBatch
    <3>1. step'.todo = << >>
      BY <2>1 DEF JoinBatch, Pass, NothingToBuild, BuildBatch, Return, Idle
    <3>2. QED
      BY <1>3, <3>1
  <2>2. ASSUME NEW n \in Npus, Poll(n) PROVE ToComplete(step'.todo, step'.at, inflight')
    <3>1. step'.todo = << >>
      BY <2>2 DEF Poll, Idle
    <3>2. QED
      BY <1>3, <3>1
  <2>3. CASE DropBatch \/ StartSchedule \/ ServeRunning \/ SkipRunning \/ PreemptTail \/ EndRunning
             \/ AdmitWaiting \/ EndWaiting
    <3>1. step'.todo = step.todo
      BY <1>1, <2>3
         DEF DropBatch, StartSchedule, ServeRunning, SkipRunning, PreemptTail, EndRunning, AdmitWaiting,
             EndWaiting, Schedule, Goto, Steps
    <3>2. QED
      BY <1>3, <1>7, <3>1
  <2>4. QED
    BY <1>7, <2>1, <2>2, <2>3
       DEF Next, InStep, Handshake, AddRequest, SkipFinished, CompleteRequest, vars
<1>8. CASE step.todo # << >>
  <2>1. step.at = "complete"
    BY <1>2, <1>8 DEF ToComplete
  <2>2. \/ step' = step /\ inflight' = inflight
        \/ SkipFinished \/ CompleteRequest
    BY <1>8, <2>1
       DEF Next, InStep, Handshake, AddRequest, HandBack, Poll, DropBatch, JoinBatch, Pass, StartSchedule,
           ServeRunning, SkipRunning, PreemptTail, EndRunning, AdmitWaiting, EndWaiting, BuildBatch,
           NothingToBuild, Serving, At, vars, batches
  <2>3. QED
    BY <1>4, <1>6, <2>2
<1>9. CASE step.todo = << >> /\ step' = step
  BY <1>3, <1>9
<1>10. QED
  BY <1>5, <1>7, <1>8, <1>9

(* A token is appended only while a batch is in flight that reaches the    *)
(* last position before it: for any number of pipeline stages and batches  *)
(* in flight, with num_computed_tokens moved when a batch is built and a   *)
(* request preempted, or preempted and admitted again, while a batch of    *)
(* its is in flight (add_done, _build_batch, _preempt_request).            *)
THEOREM TokensInFlight == Spec => TokenFromInFlight
<1> DEFINE Token ==
      \A r \in Reqs : reached'[r] # reached[r] =>
        \E k \in DOMAIN inflight : \E w \in ToSet(inflight[k].work) :
          w.req = r /\ w.before + w.n >= reached[r]
<1>1. Init => InOrder /\ Reported
  <2> SUFFICES ASSUME Init PROVE InOrder /\ Reported
    OBVIOUS
  <2>1. inflight = << >> /\ step.todo = << >>
    BY DEF Init, Idle
  <2>2. DOMAIN inflight = {}
    BY <2>1
  <2>3. QED
    BY <2>1, <2>2, NoneInFlight DEF Numbered, Reported, Backed, ToComplete
<1>2. IInv /\ InOrder /\ Reported /\ [Next]_vars => InOrder' /\ Reported'
  BY InOrderStep, BackedStep, ToCompleteStep DEF Reported
<1>3. IInv /\ Reported /\ [Next]_vars => [Token]_vars
  <2> SUFFICES ASSUME IInv, Reported, Next, NEW r \in Reqs, reached'[r] # reached[r]
               PROVE  \E k \in DOMAIN inflight : \E w \in ToSet(inflight[k].work) :
                        w.req = r /\ w.before + w.n >= reached[r]
    OBVIOUS
  <2>1. CompleteRequest
    BY DEF Next, InStep, Handshake, AddRequest, HandBack, Poll, SkipFinished, DropBatch, JoinBatch, Pass,
           StartSchedule, ServeRunning, SkipRunning, PreemptTail, EndRunning, AdmitWaiting, EndWaiting,
           BuildBatch, NothingToBuild, requests
  <2> DEFINE v == Head(step.todo)
  <2>2. /\ step.todo # << >> /\ step.at = "complete"
        /\ reached' = [reached EXCEPT ![v.req] = IF CaughtUp(v.req) THEN @ + 1 ELSE @]
    BY <2>1 DEF CompleteRequest, At
  <2>3. /\ step.todo \in Seq(Work) /\ inflight \in Seq(Batches)
        /\ computed \in [Reqs -> Nat] /\ reached \in [Reqs -> Nat]
    BY Typed DEF IInv, Steps
  <2>4. v.req = r /\ computed[r] >= reached[r]
    BY <2>2, <2>3 DEF CaughtUp
  <2>5. v \in ToSet(step.todo)
    <3>1. 1 \in DOMAIN step.todo /\ v = step.todo[1]
      BY <2>2, <2>3, HeadTailProperties, LenProperties, EmptySeq
    <3>2. QED
      BY <3>1 DEF ToSet
  <2> HIDE DEF v
  <2>6. PICK k \in DOMAIN inflight : v \in ToSet(inflight[k].work)
    BY <2>2, <2>5 DEF Reported, ToComplete
  <2>7. ~(\E w \in ToSet(step.scheduled) : Takes(w, v.req, computed[v.req]))
    <3>1. step.scheduled = << >>
      BY <2>2 DEF IInv, StepFits
    <3>2. QED
      BY <3>1, EmptyElements
  <2>8. PICK j \in DOMAIN inflight : \E w \in ToSet(inflight[j].work) : Takes(w, r, computed[r])
    BY <2>4, <2>6, <2>7 DEF Reported, Backed
  <2>9. PICK w \in ToSet(inflight[j].work) :
          w.req = r /\ w.before + w.n >= computed[r] /\ w \in Work
    BY <2>3, <2>8, InFlightWork DEF Takes
  <2>10. w.before \in Nat /\ w.n \in Nat
    BY <2>9 DEF Work
  <2>11. w.before + w.n >= reached[r]
    BY <2>3, <2>4, <2>9, <2>10
  <2>12. QED
    BY <2>8, <2>9, <2>11
<1> HIDE DEF Token
<1>4. QED
  <2>1. IInv /\ Reported /\ [Next]_vars => [Token]_vars
    BY <1>3
  <2>2. Spec => [][Token]_vars
    BY Inductive, <1>1, <1>2, <2>1, PTL DEF Spec
  <2>3. QED
    BY <2>2 DEF TokenFromInFlight, Token

-----------------------------------------------------------------------------
(* The scheduler is a caller of the manager that keeps its contract: every *)
(* step of an instance is a step of KVCacheManager, or none.               *)

(* The manager's operators are the scheduler's: both modules extend the    *)
(* same KVCache, one of them through INSTANCE.                             *)

LEMMA SameNumFree == \A p : Manager!NumFree(p) = NumFree(p)
  BY DEF Manager!NumFree, NumFree

LEMMA SameGetNewBlocks ==
  \A p, n : Manager!GetNewBlocks(p, n) = GetNewBlocks(p, n)
  BY DEF Manager!GetNewBlocks, GetNewBlocks, Manager!ToSet, ToSet, Manager!PopLeft,
     PopLeft, Manager!Evicted, Evicted, Manager!NoBlock, NoBlock

LEMMA SameFreeBlocks ==
  \A p, blocks : Manager!FreeBlocks(p, blocks) = FreeBlocks(p, blocks)
  BY DEF Manager!FreeBlocks, FreeBlocks, Manager!ToSet, ToSet, Manager!Kept, Kept,
     Manager!Cardinality, Cardinality, Manager!Rank, Rank

LEMMA SameTouch == \A p, T : Manager!Touch(p, T) = Touch(p, T)
  BY SMTT(30) DEF Manager!Touch, Touch, Manager!Kept, Kept, Manager!Cardinality, Cardinality,
     Manager!Rank, Rank, Manager!ToSet, ToSet

LEMMA SameCacheCopy == \A p, h : Manager!CacheCopy(p, h) = CacheCopy(p, h)
  BY DEF Manager!CacheCopy, CacheCopy, Manager!NoBlock, NoBlock, Manager!GetNewBlocks,
     GetNewBlocks, Manager!ToSet, ToSet, Manager!PopLeft, PopLeft, Manager!Evicted,
     Evicted, Manager!FreeBlocks, FreeBlocks, Manager!Kept, Kept, Manager!Cardinality,
     Cardinality, Manager!Rank, Rank

LEMMA SameCacheCopies ==
  \A pool, keys : Manager!CacheCopies(pool, keys) = CacheCopies(pool, keys)
  BY SameCacheCopy DEF Manager!CacheCopies, CacheCopies

LEMMA SameCacheFullBlocks ==
  \A p, hashes, blocks, from, to : Manager!CacheFullBlocks(p, hashes, blocks, from, to)
      = CacheFullBlocks(p, hashes, blocks, from, to)
  BY DEF Manager!CacheFullBlocks, CacheFullBlocks, Manager!Unhashed, Unhashed

LEMMA SameCoarseKeys ==
  \A r, f, first, n : Manager!CoarseKeys(r, f, first, n) = CoarseKeys(r, f, first, n)
  BY DEF Manager!CoarseKeys, CoarseKeys

LEMMA SameWriteDown ==
  \A k, r, from, to : Manager!WriteDown(k, r, from, to) = WriteDown(k, r, from, to)
  BY SameCacheCopies, SameCoarseKeys DEF Manager!WriteDown, WriteDown

LEMMA SameCacheBlocks ==
  \A k, r, tokens : Manager!CacheBlocks(k, r, tokens) = CacheBlocks(k, r, tokens)
  BY SameCacheFullBlocks, SameWriteDown DEF Manager!CacheBlocks, CacheBlocks,
     Manager!NumCached, NumCached, Manager!Larger, Larger, Manager!FullBlocks,
     FullBlocks, Manager!Lesser, Lesser

LEMMA SameNpuHits ==
  \A k, r, len : Manager!NpuHits(k, r, len) = NpuHits(k, r, len)
  BY DEF Manager!NpuHits, NpuHits, Manager!Lesser, Lesser, Manager!MaxHitBlocks,
     MaxHitBlocks, Manager!CachedBlock, CachedBlock, Manager!NoBlock, NoBlock

LEMMA SameGained ==
  \A k, r, len, t, npuHit : Manager!Gained(k, r, len, t, npuHit) = Gained(k, r, len, t, npuHit)
  BY DEF Manager!Gained, Gained, Manager!MaxCoarse, MaxCoarse, Manager!Larger, Larger,
     Manager!CoarseHit, CoarseHit, Manager!CachedBlock, CachedBlock, Manager!NoBlock,
     NoBlock

LEMMA SameMin == \A S : Manager!Min(S) = Min(S)
  BY DEF Manager!Min, Min

LEMMA SameLowerHit ==
  \A k, r, len, npuHit : Manager!LowerHit(k, r, len, npuHit) = LowerHit(k, r, len, npuHit)
<1> TAKE k, r, len, npuHit
<1>1. {t \in DOMAIN Tiers : Gained(k, r, len, t, npuHit) >= BlockSize * Tiers[t].factor}
        = {t \in DOMAIN Tiers : Manager!Gained(k, r, len, t, npuHit) >= BlockSize * Tiers[t].factor}
  BY SameGained
<1>2. QED
  BY SameGained, SameMin, <1>1 DEF Manager!LowerHit, LowerHit

LEMMA SameGetComputedBlocks ==
  \A k, r, len : Manager!GetComputedBlocks(k, r, len) = GetComputedBlocks(k, r, len)
  BY SameNpuHits, SameLowerHit DEF Manager!GetComputedBlocks, GetComputedBlocks,
     Manager!CachedBlock, CachedBlock, Manager!NoBlock, NoBlock

LEMMA SameHitTokens == \A hit : Manager!HitTokens(hit) = HitTokens(hit)
  BY DEF Manager!HitTokens, HitTokens

LEMMA SameNoHit == Manager!NoHit = NoHit
  BY DEF Manager!NoHit, NoHit

LEMMA SameNumBlocksToAllocate ==
  \A k, r, tokens, hits : Manager!NumBlocksToAllocate(k, r, tokens, hits)
      = NumBlocksToAllocate(k, r, tokens, hits)
  BY DEF Manager!NumBlocksToAllocate, NumBlocksToAllocate, Manager!Untracked,
     Untracked, Manager!Larger, Larger, Manager!CDiv, CDiv, Manager!Evictable,
     Evictable, Manager!Cardinality, Cardinality, Manager!ToSet, ToSet

LEMMA SameSlotsFit ==
  \A k, r, c, n, hit : Manager!SlotsFit(k, r, c, n, hit) = SlotsFit(k, r, c, n, hit)
  BY SameNumBlocksToAllocate, SameHitTokens, SameNumFree DEF Manager!SlotsFit, SlotsFit

LEMMA SameClaimHits ==
  \A k, r, hit : Manager!ClaimHits(k, r, hit) = ClaimHits(k, r, hit)
  BY SameTouch DEF Manager!ClaimHits, ClaimHits, Manager!ToSet, ToSet

LEMMA SameAllocateNewBlocks ==
  \A k, r, tokens : Manager!AllocateNewBlocks(k, r, tokens) = AllocateNewBlocks(k, r, tokens)
  BY ZenonT(40), SameGetNewBlocks DEF Manager!AllocateNewBlocks, AllocateNewBlocks, Manager!CDiv,
     CDiv, Manager!PopLeft, PopLeft

LEMMA SameAllocateSlots ==
  \A k, r, c, len, n, hit : Manager!AllocateSlots(k, r, c, len, n, hit)
      = AllocateSlots(k, r, c, len, n, hit)
  BY SameHitTokens, SameCacheBlocks, SameAllocateNewBlocks, SameClaimHits DEF
     Manager!AllocateSlots, AllocateSlots, Manager!Lesser, Lesser

LEMMA SameFree == \A k, r : Manager!Free(k, r) = Free(k, r)
  BY SameFreeBlocks DEF Manager!Free, Free, Manager!ReleaseOrder, ReleaseOrder,
     Manager!Reverse, Reverse, Manager!Untracked, Untracked

LEMMA SameNewKV == Manager!NewKV = NewKV
  BY DEF Manager!NewKV, NewKV, Manager!NewPool, NewPool, Manager!NoBlock, NoBlock,
     Manager!Untracked, Untracked

-----------------------------------------------------------------------------
(* What the contract sees of an instance. *)
Gone == {r \in Reqs : status[r] = "finished"}

LEMMA Seen ==
  /\ Manager!Live = Unfinished
  /\ \A r : Manager!Holding(r) <=> kv.table[r] # << >>
  BY DEF Manager!Live, Manager!Holding, Unfinished

(* A step the contract does not see. *)
LEMMA Unseen ==
  ASSUME kv' = kv, computed' = computed, reached' = reached, Slots' = Slots, Gone' = Gone
  PROVE  UNCHANGED Manager!vars
  BY DEF Manager!vars, Slots, Gone

LEMMA InitIsManagers == Init => Manager!Init
<1> SUFFICES ASSUME Init PROVE Manager!Init
  OBVIOUS
<1>1. /\ kv = NewKV /\ computed = [r \in Reqs |-> 0] /\ reached = Prompt /\ Gone = {}
      /\ step.scheduled = << >>
  BY DEF Init, Gone, Idle
<1>2. Slots = [r \in Reqs |-> 0]
  BY <1>1, EmptyElements DEF Slots, Granted, InBatch
<1>3. QED
  BY <1>1, <1>2, SameNewKV DEF Manager!Init, Slots, Gone

(* ServeRunning gives a running request slots for more tokens. *)
LEMMA ServeIsExtend ==
  ASSUME IInv, ServeRunning
  PROVE  Manager!Extend(Current) /\ Current \in Manager!Live
<1> DEFINE r == Current
           n == NumNewTokens(Current)
<1>1. /\ Serving /\ n > 0
      /\ SlotsFit(kv, r, computed[r], n, NoHit)
      /\ kv' = AllocateSlots(kv, r, computed[r], reached[r], n, NoHit)
      /\ computed' = computed /\ reached' = reached /\ status' = status
  BY DEF ServeRunning, requests
<1>2. /\ r \in Unfinished /\ kv.table[r] # << >> /\ Slots[r] = computed[r]
      /\ n \in Nat \ {0} /\ n <= reached[r] - computed[r]
      /\ computed[r] \in Nat /\ reached[r] \in Nat
  BY <1>1, Served, NewTokens
<1>3. Slots' = [Slots EXCEPT ![r] = computed[r] + n]
  BY ServeRunningStep DEF With
<1> HIDE DEF r, n
<1>4. n \in 1..(reached[r] - computed[r])
  BY <1>2
<1>5. Manager!SlotsFit(kv, r, computed[r], n, Manager!NoHit)
  BY <1>1, SameSlotsFit, SameNoHit
<1>6. kv' = Manager!AllocateSlots(kv, r, computed[r], reached[r], n, Manager!NoHit)
  BY <1>1, SameAllocateSlots, SameNoHit
<1>7. Gone' = Gone
  BY <1>1 DEF Gone
<1>8. Manager!Extend(r)
  BY <1>1, <1>2, <1>3, <1>4, <1>5, <1>6, <1>7, Seen DEF Manager!Extend, Slots, Gone
<1>9. QED
  BY <1>2, <1>8, Seen DEF r

(* PreemptTail takes everything back from the youngest. *)
LEMMA PreemptTailIsPreempt ==
  ASSUME IInv, PreemptTail
  PROVE  Manager!Preempt(Victim) /\ Victim \in Manager!Live
<1>1. /\ Serving /\ kv' = Free(kv, Victim) /\ reached' = reached
      /\ status' = [status EXCEPT ![Victim] = "preempted"]
  BY DEF PreemptTail
<1>2. Victim \in Unfinished /\ kv.table[Victim] # << >> /\ status[Victim] = "running"
  BY <1>1, VictimFacts
<1>3. /\ computed' = [computed EXCEPT ![Victim] = 0]
      /\ Slots' = [Slots EXCEPT ![Victim] = 0]
  BY PreemptTailStep DEF With
<1>4. Gone' = Gone
  <2>1. status \in [Reqs -> {"future", "waiting", "running", "preempted", "finished"}]
    BY Typed DEF IInv
  <2>2. QED
    BY <1>1, <1>2, <2>1 DEF Gone
<1>5. Manager!Preempt(Victim)
  BY <1>1, <1>2, <1>3, <1>4, Seen, SameFree DEF Manager!Preempt, Slots, Gone
<1>6. QED
  BY <1>2, <1>5, Seen

(* AdmitWaiting looks the head of waiting up and gives it slots. *)
LEMMA AdmitWaitingIsAdmit ==
  ASSUME IInv, AdmitWaiting
  PROVE  Manager!Admit(Head(waiting)) /\ Head(waiting) \in Manager!Live
<1> DEFINE r   == Head(waiting)
           n   == NextTokens
           hit == NextHit
<1>1. /\ At("waiting") /\ Admissible /\ waiting # << >> /\ reached' = reached
      /\ SlotsFit(kv, r, computed[r], n, hit)
      /\ kv' = AllocateSlots(kv, r, computed[r], reached[r], n, hit)
      /\ status' = [status EXCEPT ![r] = "running"]
  BY DEF AdmitWaiting, Admissible
<1>2. /\ r \in Unfinished /\ kv.table[r] = << >> /\ reached[r] \in Nat \ {0}
      /\ hit = GetComputedBlocks(kv, r, reached[r]) /\ HitTokens(hit) \in Nat
      /\ status[r] \in {"waiting", "preempted"}
      /\ n \in Nat \ {0} /\ HitTokens(hit) + n <= reached[r]
  BY <1>1, NextFacts, NextTokensType
<1>3. /\ computed' = [computed EXCEPT ![r] = HitTokens(hit)]
      /\ Slots' = [Slots EXCEPT ![r] = HitTokens(hit) + n]
  BY AdmitWaitingStep DEF With
<1> HIDE DEF r, n, hit
<1>4. n \in 1..(reached[r] - HitTokens(hit))
  BY <1>2
<1>5. /\ hit = Manager!GetComputedBlocks(kv, r, reached[r])
      /\ HitTokens(hit) = Manager!HitTokens(hit)
      /\ Manager!SlotsFit(kv, r, computed[r], n, hit)
      /\ kv' = Manager!AllocateSlots(kv, r, computed[r], reached[r], n, hit)
  BY <1>1, <1>2, SameGetComputedBlocks, SameHitTokens, SameSlotsFit, SameAllocateSlots
<1>6. Gone' = Gone
  <2>1. status \in [Reqs -> {"future", "waiting", "running", "preempted", "finished"}]
    BY Typed DEF IInv
  <2>2. QED
    BY <1>1, <1>2, <2>1 DEF Gone
<1>7. Manager!Admit(r)
  BY <1>1, <1>2, <1>3, <1>4, <1>5, <1>6, Seen DEF Manager!Admit, Slots, Gone
<1>8. QED
  BY <1>2, <1>7, Seen DEF r

(* CompleteRequest indexes what a batch computed, if it has anything to    *)
(* index; the last token gives everything back.                            *)
LEMMA CompleteIsManagers ==
  ASSUME IInv, CompleteRequest, NEW r, r = Head(step.todo).req
  PROVE  \/ UNCHANGED Manager!vars
         \/ r \in Manager!Live /\ (Manager!Complete(r) \/ Manager!Finish(r))
<1>1. r \in Unfinished /\ (Stays \/ Indexed(r) \/ Ends(r))
  BY CompleteCases
<1>2. Slots' = Slots
  BY CompleteRequestStep
<1>3. CASE Stays
  <2>1. Gone' = Gone
    BY <1>3 DEF Gone, Stays
  <2>2. QED
    BY <1>2, <1>3, <2>1, Unseen DEF Stays
<1>4. CASE Indexed(r)
  <2>1. Gone' = Gone
    BY <1>4 DEF Gone, Indexed
  <2>2. Manager!Complete(r)
    BY <1>2, <1>4, <2>1, SameCacheBlocks DEF Manager!Complete, Indexed, Slots, Gone
  <2>3. QED
    BY <1>1, <2>2, Seen
<1>5. CASE Ends(r)
  <2>1. Gone' = Gone \cup {r}
    <3>1. status \in [Reqs -> {"future", "waiting", "running", "preempted", "finished"}]
      BY Typed DEF IInv
    <3>2. r \in Reqs
      BY <1>1 DEF Unfinished
    <3>3. QED
      BY <1>5, <3>1, <3>2 DEF Gone, Ends
  <2>2. kv' = Manager!Free(Manager!CacheBlocks(kv, r, computed[r]), r)
    BY SMTT(30), <1>5, SameCacheBlocks, SameFree DEF Ends
  <2>3. Manager!Finish(r)
    BY <1>2, <1>5, <2>1, <2>2 DEF Manager!Finish, Ends, Slots, Gone
  <2>4. QED
    BY <1>1, <2>3, Seen
<1>6. QED
  BY <1>1, <1>3, <1>4, <1>5

(* BuildBatch moves the counters of what it batches to their slots. *)
LEMMA BuildIsAdvance ==
  ASSUME IInv, BuildBatch
  PROVE  \E S \in SUBSET Manager!Live : Manager!Advance(S)
<1> DEFINE S == {r \in Unfinished : InBatch(r)}
<1>1. /\ kv' = kv /\ reached' = reached /\ status' = status
      /\ Slots' = Slots /\ computed' = Slots
  BY BuildBatchStep DEF BuildBatch
<1>2. ASSUME NEW r \in Reqs, r \notin S PROVE Slots[r] = computed[r]
  <2>1. ~InBatch(r)
    <3>1. SUFFICES ASSUME InBatch(r) PROVE r \in Unfinished
      BY <1>2
    <3>2. r \in ToSet(running)
      BY <3>1 DEF IInv, StepFits, Planned, InBatch
    <3>3. QED
      BY <3>2 DEF IInv, InLine, Unfinished
  <2>2. QED
    BY <2>1 DEF Slots, Granted
<1>3. \A r \in Reqs : Slots[r] = IF r \in S THEN Slots[r] ELSE computed[r]
  BY <1>2
<1>4. computed' = [r \in Reqs |-> IF r \in S THEN Slots[r] ELSE computed[r]]
  <2>1. Slots = [r \in Reqs |-> Slots[r]]
    BY DEF Slots
  <2>2. QED
    BY <1>1, <1>3, <2>1
<1>5. Gone' = Gone
  BY <1>1 DEF Gone
<1>6. S \in SUBSET Manager!Live
  BY Seen
<1> HIDE DEF S
<1>7. Manager!Advance(S)
  BY <1>1, <1>4, <1>5 DEF Manager!Advance, Slots, Gone
<1>8. QED
  BY <1>6, <1>7

LEMMA NextIsManagers ==
  ASSUME IInv, [Next]_vars
  PROVE  [Manager!Next]_(Manager!vars)
<1>1. CASE UNCHANGED vars
  <2>1. Slots' = Slots
    BY <1>1, SlotsAreBy, SlotsAreByNext DEF vars, requests
  <2>2. QED
    BY <1>1, <2>1, Unseen DEF vars, requests, Gone
<1>2. ASSUME NEW r \in Reqs, AddRequest(r) PROVE UNCHANGED Manager!vars
  <2>1. /\ kv' = kv /\ computed' = computed /\ reached' = reached
        /\ status[r] = "future" /\ status' = [status EXCEPT ![r] = "waiting"]
    BY <1>2 DEF AddRequest
  <2>2. Gone' = Gone
    <3>1. status \in [Reqs -> {"future", "waiting", "running", "preempted", "finished"}]
      BY Typed DEF IInv
    <3>2. QED
      BY <2>1, <3>1 DEF Gone
  <2>3. Slots' = Slots
    BY <1>2, AddRequestStep
  <2>4. QED
    BY <2>1, <2>2, <2>3, Unseen
<1>3. CASE CompleteRequest
  BY <1>3, CompleteIsManagers DEF Manager!Next
<1>4. CASE ServeRunning
  BY <1>4, ServeIsExtend DEF Manager!Next
<1>5. CASE PreemptTail
  BY <1>5, PreemptTailIsPreempt DEF Manager!Next
<1>6. CASE AdmitWaiting
  BY <1>6, AdmitWaitingIsAdmit DEF Manager!Next
<1>7. CASE BuildBatch
  BY <1>7, BuildIsAdvance DEF Manager!Next
<1>8. ASSUME \/ \E n \in Npus : Handshake(n)
             \/ SkipFinished \/ DropBatch \/ JoinBatch \/ Pass \/ StartSchedule
             \/ SkipRunning \/ EndRunning \/ EndWaiting \/ NothingToBuild
      PROVE  UNCHANGED Manager!vars
  <2>1. /\ kv' = kv /\ computed' = computed /\ reached' = reached /\ status' = status
    BY <1>8 DEF Handshake, HandBack, Poll, SkipFinished, DropBatch, JoinBatch, Pass, StartSchedule,
                SkipRunning, EndRunning, EndWaiting, NothingToBuild, requests
  <2>2. (Pass \/ NothingToBuild) => step.scheduled = << >>
    BY DEF Pass, NothingToBuild, At, IInv, StepFits
  <2>3. Slots' = Slots
    BY <1>8, <2>2, HandBackStep, PollStep, SkipFinishedStep, DropBatchStep, JoinBatchStep, ReturnStep,
       StartScheduleStep, SkipRunningStep, EndRunningStep, EndWaitingStep
       DEF Handshake, Pass, NothingToBuild
  <2>4. QED
    BY <2>1, <2>3, Unseen, SMTT(30) DEF Gone
<1>9. QED
  BY <1>1, <1>2, <1>3, <1>4, <1>5, <1>6, <1>7, <1>8 DEF Next, InStep

(* Every run of an instance is a run of the manager under a caller that    *)
(* keeps its contract: admissions only of requests that hold nothing, with *)
(* the hit looked up in the same state; slots for at most the length       *)
(* reached, never twice in a step; counters that move to the slots granted *)
(* and back to 0 with the blocks; the last token ends a request once.      *)
THEOREM KeepsContract == Spec => KeepsManagerContract
<1>1. QED
  BY Inductive, InitIsManagers, NextIsManagers, PTL
     DEF Spec, KeepsManagerContract, Manager!Spec
=============================================================================
