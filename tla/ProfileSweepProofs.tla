------------------------- MODULE ProfileSweepProofs -------------------------
(***************************************************************************)
(* What the profiler's sessions keep of the rows on the disk, how few rows *)
(* of a skew sweep a stop can lose, and that every shot fits the engine.   *)
(***************************************************************************)
EXTENDS ProfileSweep, QueueLemmas
-----------------------------------------------------------------------------
(* The inductive invariant. *)

(* A job works on files of its own kind. *)
JobOk(job) ==
  /\ job.do \in {"measure", "skew", "replicate", "fit"} => job.tp \in TPs
  /\ job.do = "measure" => job.file \in Categories
  /\ job.do = "replicate" => job.file \in {"dense", "per_sequence"}
  /\ job.do = "skew" => job.file = "skew"
  /\ job.do = "fit" => job.file = "fit"

Shapes ==
  /\ disk = [tp \in TPs |-> disk[tp]]
  /\ sink = [open |-> sink.open, rows |-> sink.rows, todo |-> sink.todo]
  /\ sweep = [open |-> sweep.open, rows |-> sweep.rows, todo |-> sweep.todo, fired |-> sweep.fired]

Working ==
  /\ plan \in Seq(Commands)
  /\ \A job \in jobs : JobOk(job)
  /\ outcome = "running" => cmd \in Commands
  /\ sink.open => Doing("measure")
  /\ sweep.open => Doing("skew")

Keeps(old, new) == \A k \in DOMAIN old : k \in DOMAIN new /\ new[k] = old[k]

(* The sink starts from the rows of the file, and fires no shot that one   *)
(* of them is of.                                                          *)
SinkKeeps ==
  sink.open /\ ~cmd.force =>
    /\ Keeps(OnDisk, sink.rows)
    /\ \A s \in sink.todo : \A k \in DOMAIN OnDisk : k[2] # ShotKey(File, s)

(* No case is fired that is on the disk or in memory, and what is in both  *)
(* is one row.                                                             *)
SweepKeeps ==
  sweep.open =>
    /\ sweep.todo \cap DOMAIN OnDisk = {}
    /\ sweep.todo \cap DOMAIN sweep.rows = {}
    /\ \A c \in DOMAIN sweep.rows \cap DOMAIN OnDisk : sweep.rows[c] = OnDisk[c]

RowsInv == Shapes /\ Working /\ SinkKeeps /\ SweepKeeps
-----------------------------------------------------------------------------
(* Writing and removing the file of a job. *)
LEMMA EmptyDomain == DOMAIN <<>> = {}
OBVIOUS

LEMMA WriteOne ==
  ASSUME Shapes, Tp \in TPs, NEW rows, Write(rows)
  PROVE  /\ disk' = [tp \in TPs |-> disk'[tp]]
         /\ \A tp \in TPs, f \in Files :
              Preload(tp, f)' = IF tp = Tp /\ f = File THEN rows ELSE Preload(tp, f)
<1> DEFINE written == [f \in DOMAIN disk[Tp] \cup {File} |-> IF f = File THEN rows ELSE disk[Tp][f]]
<1>1. disk' = [tp \in TPs |-> IF tp = Tp THEN written ELSE disk[tp]]
  BY DEF Shapes, Write
<1>2. ASSUME NEW tp \in TPs, NEW f \in Files
      PROVE  Preload(tp, f)' = IF tp = Tp /\ f = File THEN rows ELSE Preload(tp, f)
  <2>1. CASE tp = Tp
    <3>1. disk'[tp] = written
      BY <1>1, <2>1
    <3>2. DOMAIN written = DOMAIN disk[tp] \cup {File}
          /\ \A g \in DOMAIN disk[tp] \cup {File} : written[g] = IF g = File THEN rows ELSE disk[tp][g]
      BY <2>1
    <3> HIDE DEF written
    <3> QED
      BY <3>1, <3>2, <2>1 DEF Preload
  <2>2. CASE tp # Tp
    BY <1>1, <2>2 DEF Preload
  <2> QED
    BY <2>1, <2>2
<1> QED
  BY <1>1, <1>2

LEMMA WipeOne ==
  ASSUME Shapes, Tp \in TPs, Wipe
  PROVE  /\ disk' = [tp \in TPs |-> disk'[tp]]
         /\ \A tp \in TPs, f \in Files :
              Preload(tp, f)' = IF tp = Tp /\ f = File THEN <<>> ELSE Preload(tp, f)
<1> DEFINE left == [f \in DOMAIN disk[Tp] \ {File} |-> disk[Tp][f]]
<1>1. disk' = [tp \in TPs |-> IF tp = Tp THEN left ELSE disk[tp]]
  BY DEF Shapes, Wipe
<1>2. ASSUME NEW tp \in TPs, NEW f \in Files
      PROVE  Preload(tp, f)' = IF tp = Tp /\ f = File THEN <<>> ELSE Preload(tp, f)
  <2>1. CASE tp = Tp
    <3>1. disk'[tp] = left
      BY <1>1, <2>1
    <3>2. DOMAIN left = DOMAIN disk[tp] \ {File}
          /\ \A g \in DOMAIN disk[tp] \ {File} : left[g] = disk[tp][g]
      BY <2>1
    <3> HIDE DEF left
    <3> QED
      BY <3>1, <3>2, <2>1 DEF Preload
  <2>2. CASE tp # Tp
    BY <1>1, <2>2 DEF Preload
  <2> QED
    BY <2>1, <2>2
<1> QED
  BY <1>1, <1>2

(* A step that leaves the disk alone. *)
LEMMA DiskSame ==
  ASSUME Shapes, UNCHANGED disk
  PROVE  /\ disk' = [tp \in TPs |-> disk'[tp]]
         /\ \A tp \in TPs, f \in Files : Preload(tp, f)' = Preload(tp, f)
BY DEF Shapes, Preload

-----------------------------------------------------------------------------
(* The jobs of a command are jobs. *)
LEMMA JobsOfOk ==
  ASSUME NEW c \in Commands,
         c.kind = "slice" => Layers(c.group) # {} /\ c.tp \in ToSet(c.tps)
  PROVE  \A job \in JobsOf(c) : JobOk(job)
<1>0. /\ c.kind \in {"profile", "slice"} /\ c.tps \in Seq(TPs)
      /\ c.kind = "slice" => c.group \in Categories
  BY SessionsAssumption DEF SessionsAssumption
<1>1. \A i \in DOMAIN c.tps : c.tps[i] \in TPs
  BY <1>0
<1>2. ASSUME NEW job \in MeasureJobs(c) PROVE JobOk(job)
  <2>1. PICK p \in (DOMAIN c.tps) \X (1..4) :
          job = Job("measure", c.tps[p[1]], InOrder[p[2]], <<1, p[1], p[2]>>)
    BY <1>2 DEF MeasureJobs
  <2>2. InOrder[p[2]] \in Categories
    BY DEF InOrder, Categories
  <2> QED
    BY <1>1, <2>1, <2>2 DEF Job, JobOk
<1>3. ASSUME NEW job \in SkewJobs(c) PROVE JobOk(job)
  BY <1>1, <1>3 DEF SkewJobs, Job, JobOk
<1>4. ASSUME NEW job \in ReplicateJobs(c) PROVE JobOk(job)
  <2>1. PICK p \in (DOMAIN c.tps) \X {1, 2} :
          job = Job("replicate", c.tps[p[1]], InOrder[p[2]], <<2, p[1], p[2]>>)
    BY <1>4 DEF ReplicateJobs
  <2>2. InOrder[p[2]] \in {"dense", "per_sequence"}
    BY DEF InOrder
  <2> QED
    BY <1>1, <2>1, <2>2 DEF Job, JobOk
<1>5. ASSUME NEW job \in PersistJobs(c) PROVE JobOk(job)
  BY <1>1, <1>5 DEF PersistJobs, Job, JobOk
<1>6. ASSUME c.kind = "slice" PROVE JobOk(Job("measure", c.tp, c.group, <<1, 1, 1>>))
  <2>1. c.tp \in TPs
    BY <1>6, <1>1, <1>0 DEF ToSet
  <2> QED
    BY <1>0, <1>6, <2>1 DEF Job, JobOk
<1> QED
  BY <1>0, <1>2, <1>3, <1>4, <1>5, <1>6 DEF JobsOf

LEMMA PlanTyped ==
  ASSUME plan \in Seq(Commands), plan # <<>>
  PROVE  Head(plan) \in Commands /\ Tail(plan) \in Seq(Commands)
OBVIOUS

-----------------------------------------------------------------------------
(* What a step keeps of the rows: the action of RowsSurvive. *)
Survives ==
  \A tp \in TPs, f \in Files \ {"fit"} :
    LET old == Preload(tp, f)  new == Preload(tp, f)'
    IN  \/ outcome' = "stopped" /\ BeingWritten /\ <<Tp, File>> = <<tp, f>> /\ new = <<>>
        \/ cmd.kind # "none" /\ cmd.force /\ jobs # {} /\ <<Tp, File>> = <<tp, f>>
        \/ \A k \in DOMAIN old :
             \/ tp # 1 /\ f # "skew" /\ k[1] \in Stable(f)
             \/ k \in DOMAIN new /\ new[k] = old[k]

LEMMA SameSurvives ==
  ASSUME Shapes, UNCHANGED disk
  PROVE  Survives
BY DiskSame DEF Survives

(* A step after which nothing is open. *)
LEMMA NothingOpen ==
  ASSUME Shapes', plan' \in Seq(Commands), \A job \in jobs' : JobOk(job),
         outcome' = "running" => cmd' \in Commands, ~sink'.open, ~sweep'.open
  PROVE  RowsInv'
BY DEF RowsInv, Working, SinkKeeps, SweepKeeps

LEMMA SameJobs ==
  ASSUME UNCHANGED jobs
  PROVE  Now' = Now /\ Tp' = Tp /\ File' = File
BY DEF Now, Tp, File

LEMMA CurrentOk ==
  ASSUME Working, NEW do, Doing(do)
  PROVE  /\ JobOk(Now) /\ Now \in jobs /\ Now.do = do /\ cmd \in Commands
         /\ cmd.kind # "none" /\ cmd.force \in BOOLEAN /\ jobs # {}
<1>1. cmd \in Commands
  BY DEF Working, Doing
<1> QED
  BY <1>1, SessionsAssumption DEF SessionsAssumption, Working, Doing

LEMMA BeginKeeps ==
  ASSUME RowsInv, Begin
  PROVE  RowsInv' /\ Survives
<1>1. /\ cmd' \in Commands /\ plan' \in Seq(Commands)
      /\ cmd'.kind = "slice" => Layers(cmd'.group) # {} /\ cmd'.tp \in ToSet(cmd'.tps)
  BY PlanTyped DEF RowsInv, Working, Begin
<1>2. \A job \in JobsOf(cmd') : JobOk(job)
  BY <1>1, JobsOfOk
<1>3. jobs' = JobsOf(cmd') /\ UNCHANGED disk /\ sink' = Closed /\ sweep' = NoSweep
  BY DEF Begin
<1>4. Shapes'
  BY <1>3, DiskSame DEF RowsInv, Shapes, Closed, NoSweep
<1>5. RowsInv'
  BY <1>1, <1>2, <1>3, <1>4, NothingOpen DEF Closed, NoSweep
<1> QED
  BY <1>3, <1>5, SameSurvives DEF RowsInv

LEMMA SkipCategoryKeeps ==
  ASSUME RowsInv, SkipCategory
  PROVE  RowsInv' /\ Survives
<1>1. /\ UNCHANGED <<disk, plan, cmd, sink, sweep, outcome>> /\ jobs' \subseteq jobs
      /\ ~sink.open /\ ~sweep.open
  BY DEF RowsInv, Working, SkipCategory, NextJob, Doing
<1>2. Shapes'
  BY <1>1 DEF RowsInv, Shapes
<1> QED
  BY <1>1, <1>2, NothingOpen, SameSurvives DEF RowsInv, Working

LEMMA OpenSinkKeeps ==
  ASSUME RowsInv, OpenSink
  PROVE  RowsInv' /\ Survives
<1> DEFINE kept == IF cmd.force THEN <<>> ELSE OnDisk
           new == [open |-> TRUE, rows |-> kept,
                   todo |-> {s \in Shots(File, cmd.args, Tp) : ShotKey(File, s) \notin PriorShotKeys(kept)}]
<1>1. /\ UNCHANGED <<disk, plan, cmd, jobs, sweep, outcome>> /\ Doing("measure") /\ ~sweep.open
      /\ sink' = new
  BY DEF RowsInv, Working, OpenSink, Doing
<1>2. Shapes'
  BY <1>1, DiskSame DEF RowsInv, Shapes
<1>3. /\ Now' = Now /\ Tp' = Tp /\ File' = File /\ OnDisk' = OnDisk /\ Doing("measure")'
  BY <1>1, SameJobs DEF OnDisk, Doing, Preload
<1>4. Working'
  BY <1>1, <1>3 DEF RowsInv, Working
<1>5. SweepKeeps'
  BY <1>1 DEF SweepKeeps
<1>6. SinkKeeps'
  <2>1. SUFFICES ASSUME ~cmd.force
                 PROVE  /\ Keeps(OnDisk, sink'.rows)
                        /\ \A s \in sink'.todo : \A k \in DOMAIN OnDisk : k[2] # ShotKey(File, s)
    BY <1>1, <1>3 DEF SinkKeeps
  <2>2. kept = OnDisk /\ sink'.rows = kept
        /\ sink'.todo = {s \in Shots(File, cmd.args, Tp) : ShotKey(File, s) \notin PriorShotKeys(kept)}
    BY <1>1, <2>1
  <2> QED
    BY <2>2 DEF PriorShotKeys, Keeps
<1> QED
  BY <1>1, <1>2, <1>4, <1>5, <1>6, SameSurvives DEF RowsInv

(* The rows of a shot have its key. *)
LEMMA PointsHaveKey ==
  ASSUME NEW category, NEW shot, NEW tp, NEW k \in DOMAIN Points(category, shot, tp)
  PROVE  k[2] = ShotKey(category, shot)
<1> DEFINE key   == ShotKey(category, shot)
           all   == UNION {Timed(category, l) : l \in Layers(category)}
           of(nodes) == {<<session, tp, i>> : i \in nodes}
           timed == {l \in Layers(category) : Timed(category, l) # {}}
           points == Points(category, shot, tp)
<1>1. CASE all = {}
  <2>1. points = <<>>
    BY <1>1 DEF Points
  <2> QED
    BY <2>1, EmptyDomain
<1>2. CASE all # {} /\ category = "attention"
  <2>1. points = [j \in {<<"", key>>} |-> of(all)]
    BY <1>2 DEF Points
  <2>2. DOMAIN points = {<<"", key>>}
    BY <2>1
  <2>3. k = <<"", key>>
    BY <2>2
  <2> QED
    BY <2>3
<1>3. CASE all # {} /\ category = "moe"
  <2>1. points = [j \in {<<"", key>>} |-> of({Min(all)})]
    BY <1>3 DEF Points
  <2>2. DOMAIN points = {<<"", key>>}
    BY <2>1
  <2>3. k = <<"", key>>
    BY <2>2
  <2> QED
    BY <2>3
<1>4. CASE all # {} /\ category \notin {"attention", "moe"}
  <2>1. points = [j \in {<<l, key>> : l \in timed} |-> of(Timed(category, j[1]))]
    BY <1>4 DEF Points
  <2>2. DOMAIN points = {<<l, key>> : l \in timed}
    BY <2>1
  <2> QED
    BY <2>2
<1> QED
  BY <1>1, <1>2, <1>3, <1>4

LEMMA FireKeeps ==
  ASSUME RowsInv, Fire
  PROVE  RowsInv' /\ Survives
<1> DEFINE shot == CHOOSE s \in sink.todo : TRUE
           points == Points(File, shot, Tp)
<1>1. /\ UNCHANGED <<disk, plan, cmd, jobs, sweep, outcome>> /\ Doing("measure") /\ ~sweep.open
      /\ sink.open /\ sink.todo # {}
      /\ sink' = [sink EXCEPT !.todo = @ \ {shot}, !.rows = Coalesce(@, points)]
  BY DEF RowsInv, Working, Fire, Doing
<1>2. sink' = [open |-> TRUE, rows |-> Coalesce(sink.rows, points), todo |-> sink.todo \ {shot}]
  BY <1>1 DEF RowsInv, Shapes, Working
<1>3. Shapes'
  BY <1>1, <1>2, DiskSame DEF RowsInv, Shapes
<1>4. /\ Now' = Now /\ Tp' = Tp /\ File' = File /\ OnDisk' = OnDisk /\ Doing("measure")'
  BY <1>1, SameJobs DEF OnDisk, Doing, Preload
<1>5. Working'
  BY <1>1, <1>4 DEF RowsInv, Working
<1>6. SweepKeeps'
  BY <1>1 DEF SweepKeeps
<1>7. SinkKeeps'
  <2>1. SUFFICES ASSUME ~cmd.force
                 PROVE  /\ Keeps(OnDisk, sink'.rows)
                        /\ \A s \in sink'.todo : \A k \in DOMAIN OnDisk : k[2] # ShotKey(File, s)
    BY <1>1, <1>4 DEF SinkKeeps
  <2>2. shot \in sink.todo
    BY <1>1
  <2>3. /\ Keeps(OnDisk, sink.rows)
        /\ \A s \in sink.todo : \A k \in DOMAIN OnDisk : k[2] # ShotKey(File, s)
    BY <1>1, <2>1 DEF RowsInv, SinkKeeps
  <2>4. \A k \in DOMAIN OnDisk : k \notin DOMAIN points
    BY <2>2, <2>3, PointsHaveKey
  <2> HIDE DEF points, shot
  <2>5. ASSUME NEW k \in DOMAIN OnDisk
        PROVE  k \in DOMAIN Coalesce(sink.rows, points) /\ Coalesce(sink.rows, points)[k] = OnDisk[k]
    <3>1. k \in DOMAIN sink.rows /\ sink.rows[k] = OnDisk[k] /\ k \notin DOMAIN points
      BY <2>3, <2>4 DEF Keeps
    <3>2. k \in DOMAIN Coalesce(sink.rows, points)
          /\ Coalesce(sink.rows, points)[k] = sink.rows[k] \cup {}
      BY <3>1 DEF Coalesce
    <3> QED
      BY <3>1, <3>2
  <2> QED
    BY <1>2, <2>3, <2>5 DEF Keeps
<1> QED
  BY <1>1, <1>3, <1>5, <1>6, <1>7, SameSurvives DEF RowsInv

LEMMA FlushSinkKeeps ==
  ASSUME RowsInv, FlushSink
  PROVE  RowsInv' /\ Survives
<1>1. /\ UNCHANGED <<plan, cmd, sweep, outcome>> /\ Doing("measure") /\ ~sweep.open /\ sink.open
      /\ jobs' \subseteq jobs /\ sink' = Closed
      /\ UNCHANGED disk \/ Write(sink.rows)
  BY DEF RowsInv, Working, FlushSink, Doing, NextJob
<1>2. JobOk(Now) /\ cmd.kind # "none" /\ cmd.force \in BOOLEAN /\ jobs # {} /\ Tp \in TPs
  BY <1>1, CurrentOk DEF RowsInv, JobOk, Tp, Doing
<1>3. ASSUME Write(sink.rows) PROVE Shapes' /\ Survives
  <2>1. /\ disk' = [tp \in TPs |-> disk'[tp]]
        /\ \A tp \in TPs, f \in Files :
             Preload(tp, f)' = IF tp = Tp /\ f = File THEN sink.rows ELSE Preload(tp, f)
    BY <1>2, <1>3, WriteOne DEF RowsInv
  <2>2. ~cmd.force => Keeps(Preload(Tp, File), sink.rows)
    BY <1>1 DEF RowsInv, SinkKeeps, OnDisk
  <2> QED
    BY <1>1, <1>2, <2>1, <2>2 DEF Survives, Keeps, Shapes, RowsInv, Closed
<1>4. Shapes' /\ Survives
  BY <1>1, <1>3, SameSurvives, DiskSame DEF RowsInv, Shapes, Closed
<1> QED
  BY <1>1, <1>4, NothingOpen DEF RowsInv, Working, Closed
-----------------------------------------------------------------------------
(* The skew sweep. *)
LEMMA SkewNow ==
  ASSUME RowsInv, Doing("skew")
  PROVE  Tp \in TPs /\ File = "skew" /\ "skew" \in Files \ {"fit"} /\ ~sink.open
BY CurrentOk DEF RowsInv, Working, JobOk, Tp, File, Doing, Files

LEMMA SkipSweepKeeps ==
  ASSUME RowsInv, SkipSweep
  PROVE  RowsInv' /\ Survives
<1>1. /\ UNCHANGED <<disk, plan, cmd, sink, outcome>> /\ jobs' \subseteq jobs
      /\ ~sink.open /\ sweep' = NoSweep
  BY DEF RowsInv, Working, SkipSweep, SkewDone, NextJob, Doing
<1>2. Shapes'
  BY <1>1 DEF RowsInv, Shapes, NoSweep
<1> QED
  BY <1>1, <1>2, NothingOpen, SameSurvives DEF RowsInv, Working, NoSweep

LEMMA OpenSweepKeeps ==
  ASSUME RowsInv, OpenSweep
  PROVE  RowsInv' /\ Survives
<1> DEFINE kept == IF cmd.force THEN <<>> ELSE OnDisk
           new == [open |-> TRUE, rows |-> <<>>, todo |-> SkewCases(cmd.args, Tp) \ DOMAIN kept, fired |-> 0]
<1>1. /\ UNCHANGED <<plan, cmd, jobs, sink, outcome>> /\ Doing("skew") /\ sweep' = new
      /\ IF cmd.force THEN Wipe ELSE UNCHANGED disk
  BY DEF OpenSweep, NoSweep
<1>2. /\ Tp \in TPs /\ File = "skew" /\ "skew" \in Files \ {"fit"} /\ ~sink.open
      /\ cmd.kind # "none" /\ cmd.force \in BOOLEAN /\ jobs # {}
  BY <1>1, SkewNow, CurrentOk DEF RowsInv
<1>3. /\ disk' = [tp \in TPs |-> disk'[tp]]
      /\ \A tp \in TPs, f \in Files :
           Preload(tp, f)' = IF tp = Tp /\ f = File THEN kept ELSE Preload(tp, f)
  <2>1. CASE cmd.force
    BY <1>1, <1>2, <2>1, WipeOne DEF RowsInv
  <2>2. CASE ~cmd.force
    BY <1>1, <1>2, <2>2, DiskSame DEF RowsInv, OnDisk
  <2> QED
    BY <2>1, <2>2
<1>4. Shapes'
  BY <1>1, <1>3 DEF RowsInv, Shapes
<1>5. Now' = Now /\ Tp' = Tp /\ File' = File /\ OnDisk' = kept /\ Doing("skew")'
  BY <1>1, <1>2, <1>3, SameJobs DEF OnDisk, Doing, Preload
<1>6. Working'
  BY <1>1, <1>2, <1>5 DEF RowsInv, Working
<1>7. SinkKeeps'
  BY <1>1, <1>2 DEF SinkKeeps
<1>8. SweepKeeps'
  <2>1. sweep'.todo \cap DOMAIN kept = {} /\ sweep'.rows = <<>>
    BY <1>1
  <2> QED
    BY <1>5, <2>1, EmptyDomain DEF SweepKeeps
<1>9. Survives
  BY <1>2, <1>3 DEF Survives, OnDisk
<1> QED
  BY <1>4, <1>6, <1>7, <1>8, <1>9 DEF RowsInv

(* What is written is what was there and what was measured. *)
LEMMA MergedKeeps ==
  ASSUME NEW rows, \A c \in DOMAIN rows \cap DOMAIN OnDisk : rows[c] = OnDisk[c]
  PROVE  /\ DOMAIN Merged(rows) = DOMAIN rows \cup DOMAIN OnDisk
         /\ Keeps(OnDisk, Merged(rows)) /\ Keeps(rows, Merged(rows))
BY DEF Merged, Keeps

(* What a case that has been fired or has failed leaves of the sweep. *)
LEMMA CaseGone ==
  ASSUME NEW rows, NEW case, NEW todo, NEW old, NEW value, case \in todo,
         todo \cap DOMAIN old = {}, todo \cap DOMAIN rows = {},
         \A c \in DOMAIN rows \cap DOMAIN old : rows[c] = old[c]
  PROVE  LET more == [c \in DOMAIN rows \cup {case} |-> IF c = case THEN value ELSE rows[c]]
         IN  /\ DOMAIN more = DOMAIN rows \cup {case}
             /\ (todo \ {case}) \cap DOMAIN more = {}
             /\ \A c \in DOMAIN more \cap DOMAIN old : more[c] = old[c]
OBVIOUS

LEMMA FireCaseKeeps ==
  ASSUME RowsInv, FireCase
  PROVE  RowsInv' /\ Survives
<1> DEFINE case == CHOOSE c \in sweep.todo : TRUE
           rows == [c \in DOMAIN sweep.rows \cup {case} |-> IF c = case THEN session ELSE sweep.rows[c]]
           fired == sweep.fired + 1
<1>1. /\ UNCHANGED <<plan, cmd, jobs, sink, outcome>> /\ Doing("skew")
      /\ sweep.open /\ sweep.todo # {}
      /\ sweep' = [sweep EXCEPT !.todo = @ \ {case}, !.fired = fired, !.rows = rows]
      /\ UNCHANGED disk \/ Write(Merged(rows))
  BY DEF FireCase
<1>2. sweep' = [open |-> TRUE, rows |-> rows, todo |-> sweep.todo \ {case}, fired |-> fired]
  BY <1>1 DEF RowsInv, Shapes, Working
<1>3. Tp \in TPs /\ File = "skew" /\ "skew" \in Files \ {"fit"} /\ ~sink.open
  BY <1>1, SkewNow
<1>4. case \in sweep.todo
  BY <1>1
<1>5. /\ sweep.todo \cap DOMAIN OnDisk = {} /\ sweep.todo \cap DOMAIN sweep.rows = {}
      /\ \A c \in DOMAIN sweep.rows \cap DOMAIN OnDisk : sweep.rows[c] = OnDisk[c]
  BY <1>1 DEF RowsInv, SweepKeeps
<1> HIDE DEF case
<1>6. /\ DOMAIN rows = DOMAIN sweep.rows \cup {case}
      /\ (sweep.todo \ {case}) \cap DOMAIN rows = {}
      /\ \A c \in DOMAIN rows \cap DOMAIN OnDisk : rows[c] = OnDisk[c]
  BY <1>4, <1>5, CaseGone
<1> HIDE DEF rows
<1>7. /\ DOMAIN Merged(rows) = DOMAIN rows \cup DOMAIN OnDisk
      /\ Keeps(OnDisk, Merged(rows)) /\ Keeps(rows, Merged(rows))
  BY <1>6, MergedKeeps
<1>8. /\ disk' = [tp \in TPs |-> disk'[tp]]
      /\ \A tp \in TPs, f \in Files :
           \/ Preload(tp, f)' = Preload(tp, f)
           \/ tp = Tp /\ f = File /\ Preload(tp, f)' = Merged(rows)
  BY <1>1, <1>3, WriteOne, DiskSame DEF RowsInv
<1>9. Now' = Now /\ Tp' = Tp /\ File' = File /\ Doing("skew")'
  BY <1>1, SameJobs DEF Doing
<1>10. OnDisk' = OnDisk \/ OnDisk' = Merged(rows)
  <2>1. OnDisk' = Preload(Tp, File)'
    BY DEF OnDisk
  <2>2. OnDisk' = IF File \in DOMAIN disk'[Tp] THEN disk'[Tp][File] ELSE <<>>
    BY <1>9 DEF OnDisk, Preload
  <2> QED
    BY <1>3, <1>8, <2>2 DEF OnDisk, Preload
<1>11. Shapes'
  BY <1>1, <1>2, <1>8 DEF RowsInv, Shapes
<1>12. Working'
  BY <1>1, <1>3, <1>9 DEF RowsInv, Working
<1>13. SinkKeeps'
  BY <1>1, <1>3 DEF SinkKeeps
<1>14. SweepKeeps'
  <2>1. sweep'.rows = rows /\ sweep'.todo = sweep.todo \ {case}
    BY <1>2
  <2>2. CASE OnDisk' = OnDisk
    BY <1>5, <1>6, <2>1, <2>2 DEF SweepKeeps
  <2>3. CASE OnDisk' = Merged(rows)
    BY <1>5, <1>6, <1>7, <2>1, <2>3 DEF SweepKeeps, Keeps
  <2> QED
    BY <1>10, <2>2, <2>3
<1>15. Survives
  BY <1>3, <1>7, <1>8 DEF Survives, OnDisk, Keeps
<1> QED
  BY <1>11, <1>12, <1>13, <1>14, <1>15 DEF RowsInv

LEMMA CaseFailsKeeps ==
  ASSUME RowsInv, CaseFails
  PROVE  RowsInv' /\ Survives
<1> DEFINE case == CHOOSE c \in sweep.todo : TRUE
<1>1. /\ UNCHANGED <<disk, plan, cmd, jobs, sink, outcome>> /\ Doing("skew")
      /\ sweep.open /\ sweep' = [sweep EXCEPT !.todo = @ \ {case}, !.fired = @ + 1]
  BY DEF CaseFails
<1>2. sweep' = [open |-> TRUE, rows |-> sweep.rows, todo |-> sweep.todo \ {case},
                fired |-> sweep.fired + 1]
  BY <1>1 DEF RowsInv, Shapes, Working
<1>3. Now' = Now /\ Tp' = Tp /\ File' = File /\ OnDisk' = OnDisk /\ Doing("skew")'
  BY <1>1, SameJobs DEF OnDisk, Doing, Preload
<1>4. Shapes'
  BY <1>1, <1>2, DiskSame DEF RowsInv, Shapes
<1>5. Working' /\ SinkKeeps'
  BY <1>1, <1>3, SkewNow DEF RowsInv, Working, SinkKeeps
<1>6. SweepKeeps'
  BY <1>1, <1>2, <1>3 DEF RowsInv, SweepKeeps
<1> QED
  BY <1>1, <1>4, <1>5, <1>6, SameSurvives DEF RowsInv

LEMMA CloseSweepKeeps ==
  ASSUME RowsInv, CloseSweep
  PROVE  RowsInv' /\ Survives
<1>1. /\ UNCHANGED <<plan, cmd, sink, outcome>> /\ Doing("skew") /\ sweep.open
      /\ jobs' \subseteq jobs /\ sweep' = NoSweep
      /\ UNCHANGED disk \/ Write(Merged(sweep.rows))
  BY DEF CloseSweep, SkewDone, NextJob
<1>2. Tp \in TPs /\ File = "skew" /\ "skew" \in Files \ {"fit"} /\ ~sink.open
  BY <1>1, SkewNow
<1>3. \A c \in DOMAIN sweep.rows \cap DOMAIN OnDisk : sweep.rows[c] = OnDisk[c]
  BY <1>1 DEF RowsInv, SweepKeeps
<1>4. Keeps(OnDisk, Merged(sweep.rows))
  BY <1>3, MergedKeeps
<1>5. /\ disk' = [tp \in TPs |-> disk'[tp]]
      /\ \A tp \in TPs, f \in Files :
           \/ Preload(tp, f)' = Preload(tp, f)
           \/ tp = Tp /\ f = File /\ Preload(tp, f)' = Merged(sweep.rows)
  BY <1>1, <1>2, WriteOne, DiskSame DEF RowsInv
<1>6. Survives
  BY <1>2, <1>4, <1>5 DEF Survives, OnDisk, Keeps
<1>7. Shapes'
  BY <1>1, <1>5 DEF RowsInv, Shapes, NoSweep
<1> QED
  BY <1>1, <1>2, <1>6, <1>7, NothingOpen DEF RowsInv, Working, NoSweep
-----------------------------------------------------------------------------
(* Replication, the fit, and a stop. *)
LEMMA ReplicateKeeps ==
  ASSUME RowsInv, Replicate
  PROVE  RowsInv' /\ Survives
<1> DEFINE rows == Replicated(File, disk[1][File], OnDisk)
<1>1. /\ UNCHANGED <<plan, cmd, sink, sweep, outcome>> /\ Doing("replicate") /\ ~sink.open /\ ~sweep.open
      /\ jobs' \subseteq jobs
      /\ UNCHANGED disk \/ (File \in DOMAIN disk[1] /\ Write(rows))
  BY DEF RowsInv, Working, Replicate, NextJob, Doing
<1>2. Tp \in TPs /\ File \in {"dense", "per_sequence"}
  BY <1>1, CurrentOk DEF RowsInv, Working, JobOk, Tp, File, Doing
<1>3. ASSUME File \in DOMAIN disk[1], Write(rows)
      PROVE  Survives /\ disk' = [tp \in TPs |-> disk'[tp]]
  <2>1. /\ disk' = [tp \in TPs |-> disk'[tp]]
        /\ \A tp \in TPs, f \in Files :
             Preload(tp, f)' = IF tp = Tp /\ f = File THEN rows ELSE Preload(tp, f)
    BY <1>2, <1>3, WriteOne DEF RowsInv
  <2>2. ASSUME NEW k \in DOMAIN OnDisk
        PROVE  \/ Tp # 1 /\ File # "skew" /\ k[1] \in Stable(File)
               \/ k \in DOMAIN rows /\ rows[k] = OnDisk[k]
    <3>1. CASE k[1] \notin Stable(File)
      BY <3>1 DEF Replicated
    <3>2. CASE k[1] \in Stable(File) /\ Tp = 1
      <4>1. OnDisk = disk[1][File]
        BY <1>3, <3>2 DEF OnDisk, Preload
      <4> QED
        BY <3>2, <4>1 DEF Replicated
    <3> QED
      BY <1>2, <3>1, <3>2
  <2> HIDE DEF rows
  <2> QED
    BY <2>1, <2>2 DEF Survives, OnDisk
<1>4. Survives /\ disk' = [tp \in TPs |-> disk'[tp]]
  BY <1>1, <1>3, SameSurvives, DiskSame DEF RowsInv
<1>5. Shapes'
  BY <1>1, <1>4 DEF RowsInv, Shapes
<1> QED
  BY <1>1, <1>4, <1>5, NothingOpen DEF RowsInv, Working

LEMMA FitKeeps ==
  ASSUME RowsInv, Fit
  PROVE  RowsInv' /\ Survives
<1> DEFINE table == FitAlpha(Useful(DOMAIN Preload(Tp, "skew"))).table
<1>1. /\ UNCHANGED <<plan, cmd, sink, sweep, outcome>> /\ Doing("fit") /\ ~sink.open /\ ~sweep.open
      /\ jobs' \subseteq jobs
      /\ UNCHANGED disk \/ Write(table)
  BY DEF RowsInv, Working, Fit, NextJob, Doing
<1>2. Tp \in TPs /\ File = "fit"
  BY <1>1, CurrentOk DEF RowsInv, Working, JobOk, Tp, File, Doing
<1> HIDE DEF table
<1>3. /\ disk' = [tp \in TPs |-> disk'[tp]]
      /\ \A tp \in TPs, f \in Files \ {"fit"} : Preload(tp, f)' = Preload(tp, f)
  BY <1>1, <1>2, WriteOne, DiskSame DEF RowsInv
<1>4. Survives
  BY <1>3 DEF Survives
<1>5. Shapes'
  BY <1>1, <1>3 DEF RowsInv, Shapes
<1> QED
  BY <1>1, <1>4, <1>5, NothingOpen DEF RowsInv, Working

LEMMA WriteMetaKeeps ==
  ASSUME RowsInv, WriteMeta
  PROVE  RowsInv' /\ Survives
<1>1. /\ UNCHANGED <<disk, plan, cmd, sink, sweep>> /\ outcome' = "done" /\ ~sink.open /\ ~sweep.open
      /\ jobs' \subseteq jobs
  BY DEF RowsInv, Working, WriteMeta, NextJob, Doing
<1>2. Shapes'
  BY <1>1 DEF RowsInv, Shapes
<1> QED
  BY <1>1, <1>2, NothingOpen, SameSurvives DEF RowsInv, Working

LEMMA StopKeeps ==
  ASSUME RowsInv, Stop
  PROVE  RowsInv' /\ Survives
<1>1. /\ UNCHANGED plan /\ outcome' = "stopped" /\ jobs' = {} /\ sink' = Closed /\ sweep' = NoSweep
      /\ UNCHANGED disk \/ (BeingWritten /\ Write(<<>>))
  BY DEF Stop
<1>2. ASSUME BeingWritten PROVE Tp \in TPs
  <2>1. Doing("measure") \/ Doing("skew") \/ Doing("replicate") \/ Doing("fit")
    BY <1>2 DEF RowsInv, Working, BeingWritten
  <2> QED
    BY <2>1, CurrentOk DEF RowsInv, JobOk, Tp, Doing
<1>3. disk' = [tp \in TPs |-> disk'[tp]]
  BY <1>1, <1>2, WriteOne, DiskSame DEF RowsInv
<1>4. Shapes'
  BY <1>1, <1>3 DEF Shapes, Closed, NoSweep
<1>5. Survives
  <2>1. ASSUME BeingWritten, Write(<<>>) PROVE Survives
    <3>1. \A tp \in TPs, f \in Files :
            Preload(tp, f)' = IF tp = Tp /\ f = File THEN <<>> ELSE Preload(tp, f)
      BY <1>2, <2>1, WriteOne DEF RowsInv
    <3> QED
      BY <1>1, <2>1, <3>1 DEF Survives
  <2> QED
    BY <1>1, <2>1, SameSurvives DEF RowsInv
<1> QED
  BY <1>1, <1>4, <1>5, NothingOpen DEF RowsInv, Working, Closed, NoSweep
-----------------------------------------------------------------------------
LEMMA RowsInit ==
  ASSUME Init
  PROVE  RowsInv
<1>1. plan \in Seq(Commands)
  BY SessionsAssumption DEF Init, SessionsAssumption
<1> QED
  BY <1>1 DEF Init, RowsInv, Shapes, Working, SinkKeeps, SweepKeeps, Closed, NoSweep

LEMMA RowsNext ==
  ASSUME RowsInv, Next
  PROVE  RowsInv' /\ Survives
BY BeginKeeps, SkipCategoryKeeps, OpenSinkKeeps, FireKeeps, FlushSinkKeeps, SkipSweepKeeps,
   OpenSweepKeeps, FireCaseKeeps, CaseFailsKeeps, CloseSweepKeeps, ReplicateKeeps, FitKeeps,
   WriteMetaKeeps, StopKeeps
   DEF Next

LEMMA RowsStutter ==
  ASSUME RowsInv, UNCHANGED vars
  PROVE  RowsInv'
<1>1. UNCHANGED <<disk, plan, cmd, jobs, sink, sweep, outcome>>
  BY DEF vars
<1>2. Now' = Now /\ Tp' = Tp /\ File' = File /\ OnDisk' = OnDisk
  BY <1>1, SameJobs DEF OnDisk, Preload
<1> QED
  BY <1>1, <1>2 DEF RowsInv, Shapes, Working, Doing, SinkKeeps, SweepKeeps

(* What a sink or a sweep holds goes with what is on the disk, whatever    *)
(* sessions there were and wherever they stopped.                          *)
THEOREM SweepInductive == Spec => []RowsInv
<1>1. Init => RowsInv
  BY RowsInit
<1>2. RowsInv /\ [Next]_vars => RowsInv'
  BY RowsNext, RowsStutter
<1> QED
  BY <1>1, <1>2, PTL DEF Spec

(* Rewriting a file keeps the rows that were in it, and a stop loses at    *)
(* most the file that is being rewritten (RowsSurvive).                    *)
THEOREM NoRowIsLost == Spec => RowsSurvive
<1>1. RowsInv /\ [Next]_vars => [Survives]_vars
  BY RowsNext
<1>2. [][Survives]_vars => RowsSurvive
  BY DEF Survives, RowsSurvive
<1> QED
  BY <1>1, <1>2, SweepInductive, PTL DEF Spec
-----------------------------------------------------------------------------
(* Counting modulo SaveEvery. *)
LEMMA ModRange ==
  ASSUME NEW S \in Nat \ {0}, NEW n \in Nat
  PROVE  /\ n % S \in 0..(S - 1) /\ n \div S \in Nat
         /\ n = S * (n \div S) + (n % S)
OBVIOUS

LEMMA ModUnique ==
  ASSUME NEW S \in Nat \ {0}, NEW q \in Int, NEW r \in 0..(S - 1), NEW p \in Int, NEW t \in 0..(S - 1),
         S * q + r = S * p + t
  PROVE  q = p /\ r = t
<1>1. S * (q - p) = t - r
  OBVIOUS
<1>2. q - p < 1
  <2>1. SUFFICES ASSUME q - p >= 1 PROVE FALSE
    OBVIOUS
  <2>2. S * (q - p) >= S
    BY <2>1
  <2> QED
    BY <1>1, <2>2
<1>3. q - p > -1
  <2>1. SUFFICES ASSUME p - q >= 1 PROVE FALSE
    OBVIOUS
  <2>2. S * (p - q) >= S
    BY <2>1
  <2>3. S * (p - q) = r - t
    BY <1>1
  <2> QED
    BY <2>2, <2>3
<1> QED
  BY <1>2, <1>3

LEMMA ModNext ==
  ASSUME NEW S \in Nat \ {0}, NEW n \in Nat
  PROVE  (n + 1) % S = IF n % S = S - 1 THEN 0 ELSE (n % S) + 1
<1>1. ASSUME NEW m \in Nat
      PROVE  m % S \in 0..(S - 1) /\ m \div S \in Nat /\ m = S * (m \div S) + (m % S)
  BY ModRange
<1>2. n + 1 \in Nat
  OBVIOUS
<1>3. PICK q \in Nat : n = S * q + (n % S)
  BY <1>1
<1>4. PICK p \in Nat : n + 1 = S * p + ((n + 1) % S)
  BY <1>1, <1>2
<1> DEFINE r == n % S  t == (n + 1) % S
<1>5. r \in 0..(S - 1) /\ t \in 0..(S - 1)
  BY <1>1, <1>2
<1>6. n = S * q + r /\ n + 1 = S * p + t
  BY <1>3, <1>4
<1>7. t = IF r = S - 1 THEN 0 ELSE r + 1
  <2> HIDE DEF r, t
  <2>1. CASE r = S - 1
    <3>1. S * (q + 1) + 0 = S * p + t /\ q + 1 \in Int /\ 0 \in 0..(S - 1)
      BY <1>5, <1>6, <2>1
    <3> QED
      BY <1>5, <2>1, <3>1, ModUnique
  <2>2. CASE r # S - 1
    <3>1. S * q + (r + 1) = S * p + t /\ r + 1 \in 0..(S - 1)
      BY <1>5, <1>6, <2>2
    <3> QED
      BY <1>5, <2>2, <3>1, ModUnique
  <2> QED
    BY <2>1, <2>2
<1> QED
  BY <1>7

-----------------------------------------------------------------------------
(* How many rows are in memory only: since the last save, as many as cases *)
(* were fired; and every case that failed may have put one save off.       *)
Unsaved == DOMAIN sweep.rows \ DOMAIN OnDisk
Failed  == {w \in warned : w[1] = Tp}
Gone    == {w \in Failed : w[2] \notin sweep.todo}

LossInv ==
  /\ IsFiniteSet(warned) /\ \A w \in warned : w = <<w[1], w[2]>>
  /\ sweep.fired \in Nat
  /\ sweep.open =>
       /\ IsFiniteSet(DOMAIN sweep.rows)
       /\ Cardinality(Unsaved) + Cardinality(Gone)
            <= (sweep.fired % SaveEvery) + SaveEvery * Cardinality(Gone)

LEMMA GoneFinite ==
  ASSUME IsFiniteSet(warned)
  PROVE  /\ IsFiniteSet(Gone) /\ IsFiniteSet(Failed)
         /\ Cardinality(Gone) \in Nat /\ Cardinality(Failed) \in Nat
         /\ Cardinality(Gone) <= Cardinality(Failed)
<1>1. Gone \subseteq Failed /\ Failed \subseteq warned
  BY DEF Gone, Failed
<1> QED
  BY <1>1, FS_Subset, FS_CardinalityType

LEMMA UnsavedFinite ==
  ASSUME IsFiniteSet(DOMAIN sweep.rows)
  PROVE  IsFiniteSet(Unsaved) /\ Cardinality(Unsaved) \in Nat
BY FS_Subset, FS_CardinalityType DEF Unsaved

(* More rows in memory for more failures: the bound grows with them. *)
LEMMA MoreFailures ==
  ASSUME NEW g \in Nat, NEW h \in Nat, g <= h
  PROVE  SaveEvery * g - g <= SaveEvery * h - h
<1>1. SaveEvery - 1 \in Nat /\ h - g \in Nat /\ SaveEvery \in Nat
  BY SaveAssumption
<1>2. (SaveEvery - 1) * (h - g) >= 0
  BY <1>1
<1>3. (SaveEvery - 1) * (h - g) = (SaveEvery * h - h) - (SaveEvery * g - g)
  BY <1>1
<1>4. SaveEvery * h \in Int /\ SaveEvery * g \in Int
  BY <1>1
<1> QED
  BY <1>2, <1>3, <1>4

LEMMA OneMore ==
  ASSUME NEW S, NEW T, NEW x, IsFiniteSet(S), T \subseteq S \cup {x}
  PROVE  IsFiniteSet(T) /\ Cardinality(T) \in Nat /\ Cardinality(S) \in Nat
         /\ Cardinality(T) <= Cardinality(S) + 1
<1>1. IsFiniteSet(S \cup {x}) /\ Cardinality(S \cup {x}) <= Cardinality(S) + 1
      /\ Cardinality(S) \in Nat
  BY FS_AddElement, FS_CardinalityType
<1> QED
  BY <1>1, FS_Subset, FS_CardinalityType

LEMMA FiredNext ==
  ASSUME NEW n \in Nat
  PROVE  /\ SaveEvery \in Nat \ {0} /\ n + 1 \in Nat /\ n % SaveEvery \in 0..(SaveEvery - 1)
         /\ (n + 1) % SaveEvery = IF n % SaveEvery = SaveEvery - 1 THEN 0 ELSE (n % SaveEvery) + 1
<1>1. SaveEvery \in Nat \ {0}
  BY SaveAssumption
<1>2. n % SaveEvery \in 0..(SaveEvery - 1)
  BY <1>1, ModRange
<1>3. (n + 1) % SaveEvery = IF n % SaveEvery = SaveEvery - 1 THEN 0 ELSE (n % SaveEvery) + 1
  BY <1>1, ModNext
<1> QED
  BY <1>1, <1>2, <1>3

LEMMA LossInit ==
  ASSUME Init
  PROVE  LossInv
BY FS_EmptySet DEF Init, LossInv, NoSweep

(* The steps outside a sweep. *)
LEMMA LossOutside ==
  ASSUME LossInv, warned' = warned \/ warned' = {}, sweep' = NoSweep
  PROVE  LossInv'
BY FS_EmptySet DEF LossInv, NoSweep

LEMMA LossSame ==
  ASSUME LossInv, UNCHANGED <<warned, sweep>>, ~sweep.open
  PROVE  LossInv'
BY DEF LossInv

LEMMA LossOpen ==
  ASSUME RowsInv, LossInv, OpenSweep
  PROVE  LossInv'
<1>1. /\ sweep'.rows = <<>> /\ sweep'.fired = 0 /\ UNCHANGED warned
  BY DEF OpenSweep, NoSweep
<1>2. IsFiniteSet(warned')
  BY <1>1 DEF LossInv
<1>3. Unsaved' = {} /\ IsFiniteSet(DOMAIN sweep'.rows)
  BY <1>1, EmptyDomain, FS_EmptySet DEF Unsaved
<1>4. Cardinality(Unsaved') = 0
  BY <1>3, FS_EmptySet
<1>5. IsFiniteSet(Gone') /\ Cardinality(Gone') \in Nat
  <2>1. Gone' \subseteq warned'
    BY DEF Gone, Failed
  <2> QED
    BY <1>2, <2>1, FS_Subset, FS_CardinalityType
<1> DEFINE g == Cardinality(Gone')
<1> HIDE DEF g
<1>6. g \in Nat /\ SaveEvery * 0 - 0 <= SaveEvery * g - g
  BY <1>5, MoreFailures DEF g
<1>7. 0 % SaveEvery = 0
  BY SaveAssumption, ModRange
<1>8. SaveEvery * g \in Int
  BY <1>6, SaveAssumption
<1>9. 0 + g <= 0 + SaveEvery * g
  BY <1>6, <1>8, SaveAssumption
<1> QED
  BY <1>1, <1>2, <1>3, <1>4, <1>7, <1>9 DEF LossInv, g

LEMMA LossFire ==
  ASSUME RowsInv, LossInv, FireCase
  PROVE  LossInv'
<1> DEFINE case == CHOOSE c \in sweep.todo : TRUE
           rows == [c \in DOMAIN sweep.rows \cup {case} |-> IF c = case THEN session ELSE sweep.rows[c]]
           fired == sweep.fired + 1
           S == SaveEvery
           r == sweep.fired % S   t == fired % S
           u == Cardinality(Unsaved)   v == Cardinality(Unsaved')
           g == Cardinality(Gone)      h == Cardinality(Gone')
<1>1. /\ UNCHANGED <<jobs, warned>> /\ Doing("skew") /\ sweep.open
      /\ sweep' = [sweep EXCEPT !.todo = @ \ {case}, !.fired = fired, !.rows = rows]
      /\ IF SaveNow(fired) THEN Write(Merged(rows)) ELSE UNCHANGED disk
  BY DEF FireCase
<1>2. /\ sweep'.rows = rows /\ sweep'.fired = fired /\ sweep'.todo = sweep.todo \ {case}
      /\ DOMAIN rows = DOMAIN sweep.rows \cup {case}
  BY <1>1 DEF RowsInv, Shapes, Working
<1>3. /\ IsFiniteSet(warned) /\ \A w \in warned : w = <<w[1], w[2]>>
      /\ sweep.fired \in Nat /\ IsFiniteSet(DOMAIN sweep.rows) /\ u + g <= r + S * g
  BY <1>1 DEF LossInv
<1>4. IsFiniteSet(DOMAIN sweep'.rows)
  BY <1>2, <1>3, OneMore
<1>5. Now' = Now /\ Tp' = Tp /\ File' = File
  BY <1>1, SameJobs
<1>6. g \in Nat /\ h \in Nat /\ g <= h
  <2>1. Gone \subseteq Gone' /\ Gone' \subseteq warned
    BY <1>1, <1>2, <1>5 DEF Gone, Failed
  <2> QED
    BY <1>3, <2>1, FS_Subset, FS_CardinalityType
<1>7. u \in Nat
  BY <1>3, UnsavedFinite
<1>8. S \in Nat \ {0} /\ fired \in Nat /\ r \in 0..(S - 1)
      /\ t = IF r = S - 1 THEN 0 ELSE r + 1
  BY <1>3, FiredNext
<1>9. S * g - g <= S * h - h /\ S * g \in Int /\ S * h \in Int
  <2>1. S \in Nat
    BY <1>8
  <2>2. SaveEvery * g - g <= SaveEvery * h - h
    BY <1>6, MoreFailures
  <2> HIDE DEF g, h
  <2> QED
    BY <1>6, <2>1, <2>2
<1>10. v + h <= t + S * h
  <2>1. CASE SaveNow(fired)
    <3>1. t = 0
      BY <2>1 DEF SaveNow
    <3>2. OnDisk' = Merged(rows)
      <4>1. Tp \in TPs /\ File \in Files
        BY <1>1, SkewNow DEF Files
      <4>2. DOMAIN disk'[Tp] = DOMAIN disk[Tp] \cup {File} /\ disk'[Tp][File] = Merged(rows)
        BY <1>1, <2>1, <4>1 DEF Write, RowsInv, Shapes
      <4> QED
        BY <1>5, <4>2 DEF OnDisk, Preload
    <3>3. Unsaved' = {}
      BY <1>2, <3>2 DEF Unsaved, Merged
    <3>4. v = 0
      BY <3>3, FS_EmptySet
    <3>5. SaveEvery * 0 - 0 <= S * h - h
      BY <1>6, MoreFailures
    <3> HIDE DEF v, h, t
    <3> QED
      BY <1>6, <1>8, <1>9, <3>1, <3>4, <3>5
  <2>2. CASE ~SaveNow(fired)
    <3>1. OnDisk' = OnDisk
      BY <1>1, <1>5, <2>2 DEF OnDisk, Preload
    <3>2. Unsaved' \subseteq Unsaved \cup {case}
      BY <1>2, <3>1 DEF Unsaved
    <3>3. v \in Nat /\ v <= u + 1
      BY <1>3, <3>2, UnsavedFinite, OneMore
    <3>4. t # 0
      BY <2>2 DEF SaveNow
    <3> HIDE DEF u, v, g, h, r, t, S
    <3> QED
      BY <1>3, <1>6, <1>7, <1>8, <1>9, <3>3, <3>4
  <2> QED
    BY <2>1, <2>2
<1> QED
  BY <1>1, <1>2, <1>3, <1>4, <1>8, <1>10 DEF LossInv

LEMMA LossFail ==
  ASSUME RowsInv, LossInv, CaseFails
  PROVE  LossInv'
<1> DEFINE case == CHOOSE c \in sweep.todo : TRUE
           fired == sweep.fired + 1
           S == SaveEvery
           r == sweep.fired % S   t == fired % S
           u == Cardinality(Unsaved)
           g == Cardinality(Gone)      h == Cardinality(Gone')
<1>1. /\ UNCHANGED <<disk, jobs>> /\ sweep.open /\ warned' = warned \cup {<<Tp, case>>}
      /\ case \in sweep.todo
      /\ sweep' = [sweep EXCEPT !.todo = @ \ {case}, !.fired = @ + 1]
  BY DEF CaseFails
<1>2. /\ sweep'.rows = sweep.rows /\ sweep'.fired = fired /\ sweep'.todo = sweep.todo \ {case}
  BY <1>1 DEF RowsInv, Shapes, Working
<1>3. /\ IsFiniteSet(warned) /\ \A w \in warned : w = <<w[1], w[2]>>
      /\ sweep.fired \in Nat /\ IsFiniteSet(DOMAIN sweep.rows) /\ u + g <= r + S * g
  BY <1>1 DEF LossInv
<1>4. IsFiniteSet(warned') /\ \A w \in warned' : w = <<w[1], w[2]>>
  <2>1. IsFiniteSet(warned')
    BY <1>1, <1>3, FS_AddElement
  <2>2. \A w \in warned' : w = <<w[1], w[2]>>
    <3> HIDE DEF case
    <3> QED
      BY <1>1, <1>3
  <2> QED
    BY <2>1, <2>2
<1>5. Now' = Now /\ Tp' = Tp /\ File' = File /\ OnDisk' = OnDisk
  BY <1>1, SameJobs DEF OnDisk, Preload
<1>6. g \in Nat /\ h = g + 1
  <2> HIDE DEF case
  <2>1. <<Tp, case>> \notin Gone
    BY <1>1 DEF Gone
  <2>2. Gone' = Gone \cup {<<Tp, case>>}
    <3>1. ASSUME NEW w \in warned, w[1] = Tp, w[2] \notin sweep.todo \ {case}
          PROVE  w \in Gone \cup {<<Tp, case>>}
      BY <1>3, <3>1 DEF Gone, Failed
    <3>2. Gone' = {w \in warned' : w[1] = Tp /\ w[2] \notin sweep.todo \ {case}}
      BY <1>2, <1>5 DEF Gone, Failed
    <3> QED
      BY <1>1, <3>1, <3>2 DEF Gone, Failed
  <2>3. IsFiniteSet(Gone)
    BY <1>3, GoneFinite
  <2> QED
    BY <2>1, <2>2, <2>3, FS_AddElement, FS_CardinalityType
<1>7. u \in Nat /\ Unsaved' = Unsaved
  BY <1>2, <1>3, <1>5, UnsavedFinite DEF Unsaved
<1>8. S \in Nat \ {0} /\ fired \in Nat /\ r \in 0..(S - 1)
      /\ t = IF r = S - 1 THEN 0 ELSE r + 1
  BY <1>3, FiredNext
<1>9. S * (g + 1) = S * g + S /\ S * g \in Int
  <2>1. S \in Nat
    BY <1>8
  <2> HIDE DEF g, S
  <2> QED
    BY <1>6, <2>1
<1>10. u + h <= t + S * h
  <2> HIDE DEF u, g, h, r, t, S
  <2> QED
    BY <1>3, <1>6, <1>7, <1>8, <1>9
<1> QED
  BY <1>1, <1>2, <1>3, <1>4, <1>7, <1>8, <1>10 DEF LossInv

LEMMA LossNext ==
  ASSUME RowsInv, LossInv, Next
  PROVE  LossInv'
<1>1. CASE Begin
  BY <1>1, LossOutside DEF Begin
<1>2. CASE SkipCategory \/ OpenSink \/ Fire \/ FlushSink \/ Replicate \/ Fit \/ WriteMeta
  <2>1. UNCHANGED <<warned, sweep>>
    BY <1>2 DEF SkipCategory, OpenSink, Fire, FlushSink, Replicate, Fit, WriteMeta
  <2>2. ~sweep.open
    BY <1>2 DEF RowsInv, Working, Doing, SkipCategory, OpenSink, Fire, FlushSink, Replicate, Fit, WriteMeta
  <2> QED
    BY <2>1, <2>2, LossSame
<1>3. CASE SkipSweep \/ CloseSweep \/ Stop
  BY <1>3, LossOutside DEF SkipSweep, CloseSweep, SkewDone, Stop
<1> QED
  BY <1>1, <1>2, <1>3, LossOpen, LossFire, LossFail DEF Next

LEMMA LossStutter ==
  ASSUME LossInv, UNCHANGED vars
  PROVE  LossInv'
<1>1. UNCHANGED <<disk, jobs, sweep, warned>>
  BY DEF vars
<1>2. Tp' = Tp /\ OnDisk' = OnDisk
  BY <1>1, SameJobs DEF OnDisk, Preload
<1> QED
  BY <1>1, <1>2 DEF LossInv, Unsaved, Gone, Failed

LEMMA LossBound ==
  ASSUME LossInv
  PROVE  StopLosesLittle
<1> SUFFICES ASSUME sweep.open
             PROVE  Cardinality(Unsaved) + Cardinality(Failed) < SaveEvery * (Cardinality(Failed) + 1)
  BY DEF StopLosesLittle, Unsaved, Failed
<1> DEFINE S == SaveEvery
           u == Cardinality(Unsaved)   g == Cardinality(Gone)   f == Cardinality(Failed)
           r == sweep.fired % S
<1>1. /\ g \in Nat /\ f \in Nat /\ g <= f
  BY GoneFinite DEF LossInv
<1>2. u \in Nat /\ u + g <= r + S * g
  BY UnsavedFinite DEF LossInv
<1>3. S \in Nat \ {0} /\ r \in 0..(S - 1)
  BY SaveAssumption, ModRange DEF LossInv
<1>4. S * g - g <= S * f - f /\ S * g \in Int /\ S * f \in Int /\ S * (f + 1) = S * f + S
  BY <1>1, <1>3, MoreFailures
<1> HIDE DEF S, u, g, f, r
<1>5. u + f < S * (f + 1)
  BY <1>1, <1>2, <1>3, <1>4
<1> QED
  BY <1>5 DEF S, u, f

(* A stop of a sweep loses at most the cases since the last save, and a    *)
(* case that fails puts off at most one save (StopLosesLittle).            *)
THEOREM LittleIsLost == Spec => []StopLosesLittle
<1>1. Init => LossInv
  BY LossInit
<1>2. RowsInv /\ LossInv /\ [Next]_vars => LossInv'
  BY LossNext, LossStutter
<1>3. LossInv => StopLosesLittle
  BY LossBound
<1> QED
  BY <1>1, <1>2, <1>3, SweepInductive, PTL DEF Spec
-----------------------------------------------------------------------------
(* Every shot is a first request and decodes of one context; what such a   *)
(* list adds up to.                                                        *)
FirstAndRest(f, n, a, b) == DOMAIN f = 1..n /\ \A i \in 1..n : f[i] = IF i = 1 THEN a ELSE b

(* The recursion that SumFunction runs, and what it comes to on a set.     *)
SumRun(g, f) ==
  g = [s \in SUBSET DOMAIN f |->
         IF s = {} THEN 0 ELSE LET x == CHOOSE x \in s : TRUE IN f[x] + g[s \ {x}]]

SumOn(s, a, b) == (IF 1 \in s THEN a ELSE 0) + Cardinality(s \ {1}) * b

LEMMA SumIsRun ==
  ASSUME NEW f
  PROVE  SumFunction(f) = (CHOOSE g : SumRun(g, f))[DOMAIN f]
BY DEF SumFunction, SumFunctionOnSet, FoldFunctionOnSet, MapThenFoldSet, SumRun

LEMMA NatProduct == ASSUME NEW p \in Nat, NEW q \in Nat PROVE p * q \in Nat
OBVIOUS

(* Taking an element out of a set takes its amount out of the sum. *)
LEMMA SumOnLess ==
  ASSUME NEW a \in Nat, NEW b \in Nat, NEW s, IsFiniteSet(s), NEW x \in s
  PROVE  SumOn(s, a, b) = (IF x = 1 THEN a ELSE b) + SumOn(s \ {x}, a, b)
<1>1. s \ {1} \in SUBSET s
  OBVIOUS
<1>2. CASE x = 1
  <2>1. (s \ {x}) \ {1} = s \ {1} /\ 1 \notin s \ {x} /\ 1 \in s
    BY <1>2
  <2>2. Cardinality(s \ {1}) \in Nat
    BY <1>1, FS_Subset, FS_CardinalityType
  <2> DEFINE c == Cardinality(s \ {1})
  <2>3. SumOn(s, a, b) = a + c * b /\ SumOn(s \ {x}, a, b) = 0 + c * b
    BY <2>1 DEF SumOn
  <2>4. c * b \in Nat
    BY <2>2, NatProduct
  <2> HIDE DEF c
  <2>5. QED
    BY <1>2, <2>3, <2>4
<1>3. CASE x # 1
  <2>1. x \in s \ {1} /\ (s \ {x}) \ {1} = (s \ {1}) \ {x} /\ (1 \in s \ {x} <=> 1 \in s)
    BY <1>3
  <2>2. /\ Cardinality(s \ {1}) \in Nat \ {0}
        /\ Cardinality((s \ {1}) \ {x}) = Cardinality(s \ {1}) - 1
    <3> DEFINE t == s \ {1}
    <3>1. IsFiniteSet(t) /\ IsFiniteSet(t \ {x})
      BY <1>1, FS_Subset
    <3>2. x \in t /\ (s \ {1}) \ {x} = t \ {x}
      BY <2>1
    <3> HIDE DEF t
    <3>3. Cardinality(t) \in Nat /\ Cardinality(t \ {x}) \in Nat
      BY <3>1, FS_CardinalityType
    <3>4. Cardinality(t \ {x}) = Cardinality(t) - 1
      BY <3>1, <3>2, FS_RemoveElement
    <3>5. QED
      BY <3>2, <3>3, <3>4 DEF t
  <2> DEFINE c == Cardinality(s \ {1})
  <2>3. c \in Nat \ {0} /\ c - 1 \in Nat
    BY <2>2
  <2>4. c * b = b + (c - 1) * b /\ c * b \in Nat /\ (c - 1) * b \in Nat
    <3> HIDE DEF c
    <3>1. c * b \in Nat /\ (c - 1) * b \in Nat
      BY <2>3, NatProduct
    <3>2. QED
      BY <2>3, <3>1
  <2>5. /\ SumOn(s, a, b) = (IF 1 \in s THEN a ELSE 0) + c * b
        /\ SumOn(s \ {x}, a, b) = (IF 1 \in s THEN a ELSE 0) + (c - 1) * b
    BY <2>1, <2>2 DEF SumOn
  <2> HIDE DEF c
  <2>6. QED
    BY <1>3, <2>4, <2>5
<1>4. QED
  BY <1>2, <1>3

LEMMA SumOfShot ==
  ASSUME NEW n \in Nat \ {0}, NEW a \in Nat, NEW b \in Nat, NEW f, FirstAndRest(f, n, a, b)
  PROVE  SumFunction(f) = a + (n - 1) * b
<1>1. DOMAIN f = 1..n /\ IsFiniteSet(1..n) /\ \A x \in 1..n : f[x] = IF x = 1 THEN a ELSE b
  BY SizeOfInterval DEF FirstAndRest
<1>0. \A s \in SUBSET (1..n) : IsFiniteSet(s)
  BY <1>1, FS_Subset
<1> DEFINE w == [s \in SUBSET (1..n) |-> SumOn(s, a, b)]
<1>2. ASSUME NEW s \in SUBSET (1..n)
      PROVE  w[s] = IF s = {} THEN 0 ELSE LET x == CHOOSE x \in s : TRUE IN f[x] + w[s \ {x}]
  <2>1. CASE s = {}
    <3>1. Cardinality({}) = 0 /\ {} \ {1} = {}
      BY FS_EmptySet
    <3>2. SumOn({}, a, b) = 0
      BY <3>1 DEF SumOn
    <3>3. QED
      BY <2>1, <3>2
  <2>2. CASE s # {}
    <3> DEFINE x == CHOOSE x \in s : TRUE
    <3>1. x \in s /\ s \ {x} \in SUBSET (1..n)
      BY <2>2
    <3>2. SumOn(s, a, b) = f[x] + SumOn(s \ {x}, a, b)
      <4> HIDE DEF x
      <4>1. SumOn(s, a, b) = (IF x = 1 THEN a ELSE b) + SumOn(s \ {x}, a, b)
        BY <1>0, <3>1, SumOnLess
      <4>2. QED
        BY <1>1, <3>1, <4>1
    <3>3. w[s] = f[x] + w[s \ {x}]
      BY <3>1, <3>2
    <3>4. QED
      BY <2>2, <3>3
  <2>3. QED
    BY <2>1, <2>2
<1>3. SumRun(w, f)
  BY <1>1, <1>2 DEF SumRun
<1> DEFINE g == CHOOSE g : SumRun(g, f)
<1>4. SumRun(g, f)
  BY <1>3
<1>5. SumFunction(f) = g[1..n]
  BY <1>1, SumIsRun
<1> HIDE DEF w, g
<1> DEFINE Good == {s \in SUBSET (1..n) : g[s] = SumOn(s, a, b)}
<1>6. ASSUME NEW s \in SUBSET (1..n), \A x \in s : s \ {x} \in Good PROVE s \in Good
  <2>1. g[s] = IF s = {} THEN 0 ELSE LET x == CHOOSE x \in s : TRUE IN f[x] + g[s \ {x}]
    BY <1>1, <1>4, Zenon DEF SumRun
  <2>2. CASE s = {}
    <3>1. Cardinality({}) = 0 /\ {} \ {1} = {}
      BY FS_EmptySet
    <3>2. SumOn({}, a, b) = 0
      BY <3>1 DEF SumOn
    <3>3. QED
      BY <2>1, <2>2, <3>2
  <2>3. CASE s # {}
    <3>1. PICK x \in s : g[s] = f[x] + g[s \ {x}]
      BY <2>1, <2>3
    <3>2. g[s \ {x}] = SumOn(s \ {x}, a, b)
      BY <1>6
    <3>3. SumOn(s, a, b) = (IF x = 1 THEN a ELSE b) + SumOn(s \ {x}, a, b)
      BY <1>0, SumOnLess
    <3>4. f[x] = IF x = 1 THEN a ELSE b
      BY <1>1
    <3>5. QED
      BY <3>1, <3>2, <3>3, <3>4
  <2>4. QED
    BY <2>2, <2>3
<1>7. SUBSET (1..n) \subseteq Good
  <2>1. Hereditary(1..n, Good)
    BY <1>6 DEF Hereditary
  <2> HIDE DEF Good
  <2>2. QED
    BY <1>1, <2>1, SubsetInduction
<1>8. g[1..n] = SumOn(1..n, a, b)
  BY <1>7
<1>9. 1 \in 1..n /\ Cardinality((1..n) \ {1}) = n - 1
  <2> DEFINE t == 1..n
  <2>1. IsFiniteSet(t) /\ 1 \in t /\ Cardinality(t) = n
    BY SizeOfInterval
  <2> HIDE DEF t
  <2>2. Cardinality(t \ {1}) = Cardinality(t) - 1
    BY <2>1, FS_RemoveElement
  <2>3. QED
    BY <2>1, <2>2 DEF t
<1>10. QED
  BY <1>5, <1>8, <1>9 DEF SumOn

(* A first request of p tokens after h, and n - 1 decodes after kd tokens. *)
Listed(reqs, n, p, h, kd) ==
  /\ DOMAIN reqs = 1..n /\ Len(reqs) = n
  /\ \A i \in 1..n : reqs[i] = IF i = 1 THEN <<p, h>> ELSE <<1, kd>>

LEMMA WholeBlocks ==
  ASSUME EngineAssumption, NEW p \in Nat, NEW h \in Nat, p + h # 0
  PROVE  /\ BlocksOf(<<p, h>>) \in Nat
         /\ BlocksOf(<<p, h>>) * BlockSize = Aligned(p + h)
<1> DEFINE x == p + h
<1> DEFINE c == Ceil(x, BlockSize)
<1>1. BlockSize \in Nat \ {0} /\ x \in Nat \ {0}
  BY DEF EngineAssumption
<1>2. c \in Nat /\ 1 <= c
  <2> HIDE DEF x
  <2>1. x + BlockSize - 1 \in Nat /\ 1 * BlockSize <= x + BlockSize - 1
    BY <1>1
  <2>2. 1 <= (x + BlockSize - 1) \div BlockSize
    BY <1>1, <2>1, DivBounds
  <2>3. QED
    BY <1>1, <2>1, <2>2, DivBounds DEF Ceil
<1>3. BlocksOf(<<p, h>>) = Max({1, c})
  BY DEF BlocksOf
<1>4. Max({1, c}) = c
  <2> HIDE DEF c
  <2>1. QED
    BY <1>2, MaxOfTwo
<1>5. QED
  BY <1>2, <1>3, <1>4 DEF Aligned

LEMMA ShotAddsUp ==
  ASSUME EngineAssumption, NEW n \in Nat \ {0}, NEW p \in Nat \ {0}, NEW h \in Nat, NEW kd \in Nat,
         NEW shot, Listed(shot.requests, n, p, h, kd)
  PROVE  /\ NewTokens(shot) = p + (n - 1)
         /\ BlocksTaken(shot) * BlockSize = Aligned(p + h) + (n - 1) * Aligned(1 + kd)
<1> DEFINE f == [i \in DOMAIN shot.requests |-> shot.requests[i][1]]
<1> DEFINE g == [i \in DOMAIN shot.requests |-> BlocksOf(shot.requests[i])]
<1>1. DOMAIN shot.requests = 1..n
      /\ \A i \in 1..n : shot.requests[i] = IF i = 1 THEN <<p, h>> ELSE <<1, kd>>
  BY DEF Listed
<1> DEFINE b == BlocksOf(<<p, h>>)
<1> DEFINE d == BlocksOf(<<1, kd>>)
<1>2. /\ b \in Nat /\ b * BlockSize = Aligned(p + h)
      /\ d \in Nat /\ d * BlockSize = Aligned(1 + kd)
  BY WholeBlocks
<1>3. FirstAndRest(f, n, p, 1) /\ FirstAndRest(g, n, b, d)
  BY <1>1 DEF FirstAndRest
<1>4. NewTokens(shot) = SumFunction(f) /\ BlocksTaken(shot) = SumFunction(g)
  BY DEF NewTokens, BlocksTaken
<1> HIDE DEF f, g, b, d
<1>5. SumFunction(f) = p + (n - 1) * 1
  BY <1>3, SumOfShot
<1>6. SumFunction(g) = b + (n - 1) * d
  BY <1>2, <1>3, SumOfShot
<1>7. (b + (n - 1) * d) * BlockSize = b * BlockSize + (n - 1) * (d * BlockSize)
  BY <1>2 DEF EngineAssumption
<1>8. QED
  BY <1>2, <1>4, <1>5, <1>6, <1>7

(* What FitsEngine asks for but the experts. *)
RoomFor(engine, shot) ==
  /\ NewTokens(shot) <= engine.mnbt /\ Len(shot.requests) <= engine.msq
  /\ \A i \in DOMAIN shot.requests : shot.requests[i][1] + shot.requests[i][2] < engine.mml
  /\ BlocksTaken(shot) * BlockSize <= engine.cache

LEMMA RoomForShot ==
  ASSUME EngineAssumption, NEW n \in Nat \ {0}, NEW p \in Nat \ {0}, NEW h \in Nat, NEW kd \in Nat,
         NEW shot, Listed(shot.requests, n, p, h, kd), NEW engine,
         p + (n - 1) <= engine.mnbt, n <= engine.msq, p + h < engine.mml,
         n > 1 => 1 + kd < engine.mml,
         Aligned(p + h) + (n - 1) * Aligned(1 + kd) <= engine.cache
  PROVE  RoomFor(engine, shot)
<1>1. /\ NewTokens(shot) = p + (n - 1)
      /\ BlocksTaken(shot) * BlockSize = Aligned(p + h) + (n - 1) * Aligned(1 + kd)
  BY ShotAddsUp
<1>2. ASSUME NEW i \in DOMAIN shot.requests
      PROVE  shot.requests[i][1] + shot.requests[i][2] < engine.mml
  BY DEF Listed
<1>3. Len(shot.requests) = n
  BY DEF Listed
<1>4. QED
  BY <1>1, <1>2, <1>3 DEF RoomFor


-----------------------------------------------------------------------------
(* What the four categories fire. *)
LEMMA LimitsAre ==
  ASSUME EngineAssumption, NEW c \in Commands, NEW tp \in TPs
  PROVE  LET lim == Limits(c.args, tp)  engine == Engine(c.args, tp)
         IN  /\ c.args.mnbt \in Nat /\ c.args.msq \in Nat \ {0} /\ c.args.maxKv \in Nat
             /\ lim.mnbt = c.args.mnbt /\ lim.msq = c.args.msq /\ lim.mml = MaxModelLen
             /\ lim.cache = CacheTokens[tp] /\ lim.experts = NumExperts /\ lim.topK = TopK
             /\ engine.mnbt = c.args.mnbt + c.args.msq /\ engine.msq = c.args.msq
             /\ engine.mml = MaxModelLen /\ engine.cache = CacheTokens[tp]
             /\ engine.topK = TopK
BY DEF EngineAssumption, Limits, ProbeLimits, Engine

LEMMA TokenGridType ==
  ASSUME NEW top \in Nat, NEW n \in TokenGrid(top)
  PROVE  n \in Nat \ {0} /\ n <= top
<1>1. top >= 1
  BY DEF TokenGrid
<1>2. /\ Min({15, top}) = IF 15 <= top THEN 15 ELSE top
      /\ Min({63, top}) = IF 63 <= top THEN 63 ELSE top
  BY MinOfTwo
<1>3. QED
  BY <1>1, <1>2 DEF TokenGrid

LEMMA GeometricGridType ==
  ASSUME NEW top \in Nat, NEW start, NEW factor, NEW n \in GeometricGrid(top, start, factor)
  PROVE  n \in Nat
BY DEF GeometricGrid, Powers

LEMMA AlignedType ==
  ASSUME EngineAssumption, NEW x \in Nat
  PROVE  Aligned(x) \in Nat
<1>1. BlockSize \in Nat \ {0} /\ x + BlockSize - 1 \in Nat
  BY DEF EngineAssumption
<1>2. (x + BlockSize - 1) \div BlockSize \in Nat
  BY <1>1, DivBounds
<1>3. QED
  BY <1>1, <1>2, NatProduct DEF Aligned, Ceil

LEMMA DenseFits ==
  ASSUME EngineAssumption, NEW c \in Commands, NEW tp \in TPs,
         NEW shot \in DenseShots(Limits(c.args, tp))
  PROVE  RoomFor(Engine(c.args, tp), shot) /\ shot.experts = 0
<1> DEFINE lim == Limits(c.args, tp)
<1>1. PICK n \in TokenGrid(lim.mnbt) : shot = DenseShot(n) /\ Aligned(n) <= lim.cache /\ n < lim.mml
  BY DEF DenseShots
<1>2. n \in Nat \ {0} /\ n <= c.args.mnbt
  BY <1>1, LimitsAre, TokenGridType
<1>3. Listed(shot.requests, 1, n, 0, 0) /\ shot.experts = 0
  BY <1>1 DEF DenseShot, Listed
<1>4. Aligned(n + 0) + (1 - 1) * Aligned(1 + 0) = Aligned(n)
  BY <1>2, AlignedType
<1>5. RoomFor(Engine(c.args, tp), shot)
  <2> HIDE DEF lim
  <2> DEFINE engine == Engine(c.args, tp)
  <2>1. /\ n + (1 - 1) <= engine.mnbt /\ 1 <= engine.msq /\ n + 0 < engine.mml
        /\ Aligned(n + 0) + (1 - 1) * Aligned(1 + 0) <= engine.cache
    BY <1>1, <1>2, <1>4, LimitsAre DEF lim
  <2> HIDE DEF engine
  <2>2. QED
    BY <1>2, <1>3, <2>1, RoomForShot DEF engine
<1>6. QED
  BY <1>3, <1>5

LEMMA SequencesFit ==
  ASSUME EngineAssumption, NEW c \in Commands, NEW tp \in TPs,
         NEW shot \in SequenceShots(Limits(c.args, tp))
  PROVE  RoomFor(Engine(c.args, tp), shot) /\ shot.experts = 0
<1> DEFINE lim == Limits(c.args, tp)
<1>1. PICK n \in TokenGrid(lim.msq) :
        shot = SequenceShot(n) /\ n <= lim.mnbt /\ n * BlockSize <= lim.cache
  BY DEF SequenceShots
<1>2. n \in Nat \ {0} /\ n <= c.args.msq /\ BlockSize \in Nat \ {0}
  BY <1>1, LimitsAre, TokenGridType DEF EngineAssumption
<1>3. Listed(shot.requests, n, 1, 0, 0) /\ shot.experts = 0
  BY <1>1, <1>2 DEF SequenceShot, Decodes, Listed
<1>4. Aligned(1) = BlockSize
  <2>1. 1 + BlockSize - 1 = BlockSize /\ BlockSize \div BlockSize = 1
    BY <1>2
  <2>2. QED
    BY <1>2, <2>1 DEF Aligned, Ceil
<1>5. Aligned(1 + 0) + (n - 1) * Aligned(1 + 0) = n * BlockSize
  BY <1>2, <1>4
<1>6. RoomFor(Engine(c.args, tp), shot)
  <2> HIDE DEF lim
  <2> DEFINE engine == Engine(c.args, tp)
  <2>1. /\ 1 + (n - 1) <= engine.mnbt /\ n <= engine.msq /\ 1 + 0 < engine.mml
        /\ Aligned(1 + 0) + (n - 1) * Aligned(1 + 0) <= engine.cache
    BY <1>1, <1>2, <1>5, LimitsAre DEF lim, EngineAssumption
  <2> HIDE DEF engine
  <2>2. QED
    BY <1>2, <1>3, <2>1, RoomForShot DEF engine
<1>7. QED
  BY <1>3, <1>6

LEMMA AttentionRequests ==
  ASSUME NEW pc \in Nat, NEW kp \in Nat, NEW nd \in Nat, NEW kd \in Nat, pc > 0 \/ nd > 0
  PROVE  LET reqs == AttentionShot(pc, kp, nd, kd).requests
         IN  IF pc > 0 THEN Listed(reqs, nd + 1, pc, kp, kd) ELSE Listed(reqs, nd, 1, kd, kd)
<1> DEFINE d == Decodes(nd, kd)
<1>1. d \in Seq(Nat \X Nat) /\ Len(d) = nd /\ \A i \in 1..nd : d[i] = <<1, kd>>
  BY DEF Decodes
<1> DEFINE reqs == AttentionShot(pc, kp, nd, kd).requests
<1>2. CASE pc > 0
  <2>1. reqs = <<<<pc, kp>>>> \o d
    BY <1>2 DEF AttentionShot
  <2>2. <<<<pc, kp>>>> \in Seq(Nat \X Nat) /\ Len(<<<<pc, kp>>>>) = 1
    OBVIOUS
  <2> HIDE DEF d, reqs
  <2>3. Len(reqs) = nd + 1 /\ DOMAIN reqs = 1..(nd + 1)
    BY <1>1, <2>1, <2>2
  <2>4. ASSUME NEW i \in 1..(nd + 1) PROVE reqs[i] = IF i = 1 THEN <<pc, kp>> ELSE <<1, kd>>
    <3>1. CASE i = 1
      BY <1>1, <2>1, <2>2, <3>1
    <3>2. CASE i # 1
      <4>1. i - 1 \in 1..nd /\ reqs[i] = d[i - 1]
        BY <1>1, <2>1, <2>2, <3>2
      <4>2. QED
        BY <1>1, <3>2, <4>1
    <3>3. QED
      BY <3>1, <3>2
  <2>5. QED
    BY <1>2, <2>3, <2>4 DEF Listed, reqs
<1>3. CASE ~(pc > 0)
  <2>1. reqs = << >> \o d
    BY <1>3 DEF AttentionShot
  <2> HIDE DEF d
  <2>2. reqs = d
    BY <1>1, <2>1
  <2> HIDE DEF reqs
  <2>3. QED
    BY <1>1, <1>3, <2>2 DEF Listed, reqs
<1>4. QED
  BY <1>2, <1>3

LEMMA AttentionFit ==
  ASSUME EngineAssumption, NEW c \in Commands, NEW tp \in TPs,
         NEW shot \in AttentionShots(c.args, Limits(c.args, tp))
  PROVE  RoomFor(Engine(c.args, tp), shot) /\ shot.experts = 0
<1> DEFINE lim == Limits(c.args, tp)
<1> DEFINE engine == Engine(c.args, tp)
<1> DEFINE kv == GeometricGrid(Min({c.args.maxKv, lim.mml}), KvStart, c.args.kv)
<1>1. PICK pc \in GeometricGrid(lim.mnbt, ChunkStart, c.args.chunk), kp \in kv,
           nd \in GeometricGrid(lim.msq, 1, <<2, 1>>), kd \in kv :
        /\ shot = AttentionShot(pc, kp, nd, kd) /\ (pc > 0 \/ nd > 0)
        /\ AttentionFits(lim, pc, kp, nd, kd)
  BY DEF AttentionShots
<1>2. pc \in Nat /\ kp \in Nat /\ nd \in Nat /\ kd \in Nat
  <2>1. Min({c.args.maxKv, lim.mml}) \in Nat
    BY LimitsAre, MinOfTwo DEF EngineAssumption
  <2>2. lim.mnbt \in Nat /\ lim.msq \in Nat
    BY LimitsAre
  <2> HIDE DEF lim
  <2>3. QED
    BY <1>1, <2>1, <2>2, GeometricGridType
<1>3. /\ pc + nd <= engine.mnbt /\ (IF pc > 0 THEN 1 ELSE 0) + nd <= engine.msq
      /\ pc > 0 => pc + kp + 1 <= engine.mml
      /\ nd > 0 => 1 + kd + 1 <= engine.mml
      /\ (IF pc > 0 THEN Aligned(pc + kp) ELSE 0) + nd * Aligned(1 + kd) <= engine.cache
      /\ engine.mml \in Nat
  <2>1. /\ lim.mnbt + lim.msq = engine.mnbt /\ lim.msq = engine.msq /\ lim.mml = engine.mml
        /\ lim.cache = engine.cache /\ engine.mml \in Nat
    BY LimitsAre DEF EngineAssumption
  <2> HIDE DEF lim, engine
  <2>2. QED
    BY <1>1, <2>1 DEF AttentionFits
<1> HIDE DEF lim, engine, kv
<1>4. shot.experts = 0
  BY <1>1 DEF AttentionShot
<1> DEFINE a == Aligned(1 + kd)
<1>5. a \in Nat /\ Aligned(pc + kp) \in Nat
  BY <1>2, AlignedType
<1>6. CASE pc > 0
  <2>1. Listed(shot.requests, nd + 1, pc, kp, kd)
    BY <1>1, <1>2, <1>6, AttentionRequests
  <2>2. /\ pc + ((nd + 1) - 1) <= engine.mnbt /\ nd + 1 <= engine.msq /\ pc + kp < engine.mml
        /\ nd + 1 > 1 => 1 + kd < engine.mml
        /\ Aligned(pc + kp) + ((nd + 1) - 1) * Aligned(1 + kd) <= engine.cache
        /\ nd + 1 \in Nat \ {0} /\ pc \in Nat \ {0}
    BY <1>2, <1>3, <1>6
  <2>3. QED
    BY <1>2, <1>4, <2>1, <2>2, RoomForShot DEF engine
<1>7. CASE ~(pc > 0)
  <2>0. nd \in Nat \ {0} /\ nd > 0 /\ pc + nd = nd
    BY <1>1, <1>2, <1>7
  <2>1. Listed(shot.requests, nd, 1, kd, kd)
    <3>1. IF pc > 0 THEN Listed(shot.requests, nd + 1, pc, kp, kd) ELSE Listed(shot.requests, nd, 1, kd, kd)
      BY <1>1, <1>2, AttentionRequests
    <3>2. QED
      BY <1>7, <3>1
  <2>2. a + (nd - 1) * a = nd * a
    BY <1>5, <2>0
  <2>3. /\ 1 + (nd - 1) <= engine.mnbt /\ nd <= engine.msq /\ 1 + kd < engine.mml
        /\ Aligned(1 + kd) + (nd - 1) * Aligned(1 + kd) <= engine.cache
    <3>1. nd <= engine.mnbt /\ nd <= engine.msq /\ 1 + kd + 1 <= engine.mml
      BY <1>3, <1>7, <2>0
    <3>2. nd * a \in Nat
      <4> HIDE DEF a
      <4>1. QED
        BY <1>5, <2>0, NatProduct
    <3>3. nd * a <= engine.cache
      BY <1>3, <1>7, <3>2
    <3>4. QED
      BY <1>2, <1>3, <2>0, <2>2, <3>1, <3>3
  <2>4. QED
    BY <1>2, <1>4, <2>0, <2>1, <2>3, RoomForShot DEF engine
<1>8. QED
  BY <1>6, <1>7


-----------------------------------------------------------------------------
(* What forced routing reaches. *)
LEMMA SameRemainder ==
  ASSUME NEW x \in Nat, NEW y \in Nat, NEW k \in Nat \ {0}, x % k = y % k, x < y + k, y < x + k
  PROVE  x = y
<1>0. /\ x % k \in 0..(k - 1) /\ x \div k \in Nat /\ x = k * (x \div k) + (x % k)
      /\ y \div k \in Nat /\ y = k * (y \div k) + (y % k)
  BY ONLY x \in Nat, y \in Nat, k \in Nat \ {0}, ModRange
<1> DEFINE p == x \div k
<1> DEFINE q == y \div k
<1> DEFINE r == x % k
<1>1. p \in Nat /\ q \in Nat /\ r \in Nat /\ x = k * p + r /\ y = k * q + r
  <2>1. x % k \in Nat
    BY <1>0
  <2>2. y = k * (y \div k) + (x % k)
    BY <1>0, Zenon
  <2>3. QED
    BY <1>0, <2>1, <2>2, Zenon
<1> HIDE DEF p, q, r
<1>2. k * p \in Nat /\ k * q \in Nat
  BY <1>1, NatProduct
<1>3. k * p < k * q + k /\ k * q < k * p + k
  BY <1>1, <1>2
<1>4. p <= q /\ q <= p
  BY <1>1, <1>3, ProductOrder
<1>5. QED
  BY <1>1, <1>4

(* K experts in a row, of at least K. *)
LEMMA RowOfExperts ==
  ASSUME NEW K \in Nat \ {0}, NEW E \in Nat, K <= E, NEW first \in Nat
  PROVE  Cardinality({(first + o) % E : o \in 0..(K - 1)}) = K
<1> DEFINE D == 0..(K - 1)
<1> DEFINE T == {(first + o) % E : o \in D}
<1> DEFINE f == [o \in D |-> (first + o) % E]
<1>1. IsFiniteSet(D) /\ Cardinality(D) = K
  <2>1. IsFiniteSet(0..(K - 1)) /\ Cardinality(0..(K - 1)) = IF 0 > K - 1 THEN 0 ELSE (K - 1) - 0 + 1
    BY FS_Interval
  <2>2. (IF 0 > K - 1 THEN 0 ELSE (K - 1) - 0 + 1) = K
    OBVIOUS
  <2>3. QED
    BY <2>1, <2>2
<1>2. f \in Surjection(D, T)
  BY DEF Surjection
<1>3. ASSUME NEW x \in D, NEW y \in D, f[x] = f[y] PROVE x = y
  <2>1. first + x \in Nat /\ first + y \in Nat /\ E \in Nat \ {0}
    OBVIOUS
  <2>2. first + x < first + y + E /\ first + y < first + x + E
    OBVIOUS
  <2>3. (first + x) % E = (first + y) % E
    BY <1>3
  <2>4. first + x = first + y
    BY <2>1, <2>2, <2>3, SameRemainder
  <2>5. QED
    BY <2>4
<1>4. f \in Injection(D, T)
  BY <1>3 DEF Injection, IsInjective
<1>5. ExistsBijection(D, T)
  BY <1>2, <1>4 DEF ExistsBijection, Bijection
<1> HIDE DEF D, T, f
<1>6. Cardinality(T) = Cardinality(D)
  BY <1>1, <1>5, FS_Bijection
<1>7. QED
  BY <1>1, <1>6 DEF T, D

(* n tokens of K experts each reach all of E, if there are enough. *)
LEMMA ReachesAll ==
  ASSUME NEW K \in Nat \ {0}, NEW E \in Nat \ {0}, NEW n \in Nat, E <= n * K,
         NEW e \in 0..(E - 1)
  PROVE  \E t \in 0..(n - 1), o \in 0..(K - 1) : e = (t * K + o) % E
<1> DEFINE t == e \div K
<1> DEFINE o == e % K
<1>1. t \in Nat /\ o \in 0..(K - 1) /\ e = K * t + o
  <2>1. e \in Nat
    OBVIOUS
  <2>2. QED
    BY ONLY <2>1, K \in Nat \ {0}, ModRange
<1> HIDE DEF t, o
<1>2. K * t \in Nat /\ n * K \in Nat /\ K * (n - 1) + K = n * K
  BY <1>1, NatProduct
<1>3. K * t < K * (n - 1) + K
  BY <1>1, <1>2
<1>4. t <= n - 1
  BY <1>1, <1>3, ProductOrder
<1>5. t * K + o = e
  BY <1>1
<1>6. e % E = e
  <2>1. e \in Nat /\ e = E * 0 + e
    OBVIOUS
  <2>2. e % E \in 0..(E - 1) /\ e \div E \in Nat /\ e = E * (e \div E) + (e % E)
    BY ONLY <2>1, E \in Nat \ {0}, ModRange
  <2>3. QED
    BY <2>1, <2>2, ModUnique
<1>7. t \in 0..(n - 1) /\ e = (t * K + o) % E
  BY <1>1, <1>4, <1>5, <1>6
<1>8. QED
  BY <1>1, <1>7

LEMMA ExpertsFit ==
  ASSUME EngineAssumption, NEW c \in Commands, NEW tp \in TPs,
         NEW shot \in ExpertShots(Limits(c.args, tp))
  PROVE  FitsEngine(Engine(c.args, tp), shot)
<1> DEFINE lim == Limits(c.args, tp)
<1> DEFINE engine == Engine(c.args, tp)
<1>1. PICK n \in PowersOfTwo(lim.mnbt), E \in PowersOfTwo(lim.experts) :
        /\ shot = MoeShot(n, E) /\ n < lim.mml /\ Aligned(n) <= lim.cache
        /\ E >= lim.topK /\ E <= Min({lim.experts, n * lim.topK})
  BY DEF ExpertShots
<1>2. /\ n \in Nat \ {0} /\ n <= c.args.mnbt /\ E \in Nat \ {0}
      /\ TopK \in Nat \ {0} /\ NumExperts \in Nat
  BY <1>1, LimitsAre DEF PowersOfTwo, EngineAssumption
<1>3. TopK <= E /\ E <= n * TopK
  <2>1. E >= TopK /\ E <= Min({NumExperts, n * TopK})
    BY <1>1, LimitsAre
  <2>2. n * TopK \in Nat
    BY <1>2, NatProduct
  <2>3. Min({NumExperts, n * TopK}) = IF NumExperts <= n * TopK THEN NumExperts ELSE n * TopK
    BY <1>2, <2>2, MinOfTwo
  <2>4. QED
    BY <1>2, <2>1, <2>2, <2>3
<1>4. Listed(shot.requests, 1, n, 0, 0) /\ shot.experts = E
  BY <1>1 DEF MoeShot, Listed
<1>5. Aligned(n + 0) + (1 - 1) * Aligned(1 + 0) = Aligned(n)
  BY <1>2, AlignedType
<1>6. RoomFor(engine, shot)
  <2>1. /\ n + (1 - 1) <= engine.mnbt /\ 1 <= engine.msq /\ n + 0 < engine.mml
        /\ Aligned(n + 0) + (1 - 1) * Aligned(1 + 0) <= engine.cache
    BY <1>1, <1>2, <1>5, LimitsAre
  <2> HIDE DEF engine
  <2>2. QED
    BY <1>2, <1>4, <2>1, RoomForShot
<1>7. NewTokens(shot) = n
  <2>1. NewTokens(shot) = n + (1 - 1)
    BY <1>2, <1>4, ShotAddsUp
  <2>2. QED
    BY <1>2, <2>1
<1>8. ~ForgeRefuses(shot)
  <2>1. n * TopK \in Nat
    BY <1>2, NatProduct
  <2>2. QED
    BY <1>2, <1>3, <1>4, <1>7, <2>1 DEF ForgeRefuses
<1>9. ASSUME NEW t \in Nat
      PROVE  RoutedTo(shot, t) = {(t * TopK + o) % E : o \in 0..(TopK - 1)}
  BY <1>4 DEF RoutedTo
<1>10. ASSUME NEW t \in Nat
       PROVE  Cardinality(RoutedTo(shot, t)) = TopK /\ RoutedTo(shot, t) \subseteq 0..(E - 1)
  <2>1. t * TopK \in Nat
    BY <1>2, NatProduct
  <2>2. Cardinality({(t * TopK + o) % E : o \in 0..(TopK - 1)}) = TopK
    BY <1>2, <1>3, <2>1, RowOfExperts
  <2>3. ASSUME NEW o \in 0..(TopK - 1) PROVE (t * TopK + o) % E \in 0..(E - 1)
    <3>1. t * TopK + o \in Nat
      BY <1>2, <2>1
    <3>2. QED
      BY <1>2, <3>1, ModRange
  <2>4. ASSUME NEW x \in RoutedTo(shot, t) PROVE x \in 0..(E - 1)
    <3>1. PICK o \in 0..(TopK - 1) : x = (t * TopK + o) % E
      BY <1>9
    <3>2. QED
      BY <2>3, <3>1
  <2>5. QED
    BY <1>9, <2>2, <2>4
<1>11. UNION {RoutedTo(shot, t) : t \in 0..(n - 1)} = 0..(E - 1)
  <2>1. ASSUME NEW e \in 0..(E - 1) PROVE \E t \in 0..(n - 1) : e \in RoutedTo(shot, t)
    <3>0. n \in Nat /\ TopK \in Nat \ {0} /\ E \in Nat \ {0} /\ E <= n * TopK
      BY <1>2, <1>3
    <3>1. PICK t \in 0..(n - 1), o \in 0..(TopK - 1) : e = (t * TopK + o) % E
      BY ONLY <3>0, e \in 0..(E - 1), ReachesAll
    <3>2. t \in Nat
      OBVIOUS
    <3>3. QED
      BY <1>9, <3>1, <3>2
  <2>2. \A t \in 0..(n - 1) : t \in Nat
    OBVIOUS
  <2>3. QED
    BY <1>10, <2>1, <2>2
<1>12. \A t \in 0..(n - 1) : Cardinality(RoutedTo(shot, t)) = engine.topK
  <2>1. \A t \in 0..(n - 1) : t \in Nat
    OBVIOUS
  <2>2. engine.topK = TopK
    BY LimitsAre
  <2> HIDE DEF engine
  <2>3. QED
    BY <1>10, <2>1, <2>2
<1> HIDE DEF lim, engine
<1>13. QED
  BY <1>4, <1>6, <1>7, <1>8, <1>11, <1>12 DEF FitsEngine, RoomFor, engine

(* No category fires a shot that the engine has no room for. *)
LEMMA ShotsFit ==
  ASSUME EngineAssumption, NEW c \in Commands, NEW tp \in TPs, NEW category \in Categories,
         NEW shot \in Shots(category, c.args, tp)
  PROVE  FitsEngine(Engine(c.args, tp), shot)
<1>1. CASE category = "moe"
  <2>1. shot \in ExpertShots(Limits(c.args, tp))
    BY <1>1 DEF Shots
  <2>2. QED
    BY <2>1, ExpertsFit
<1>2. CASE category # "moe"
  <2>1. RoomFor(Engine(c.args, tp), shot) /\ shot.experts = 0
    <3>1. CASE category = "dense"
      <4>1. shot \in DenseShots(Limits(c.args, tp))
        BY <3>1 DEF Shots
      <4>2. QED
        BY <4>1, DenseFits
    <3>2. CASE category = "per_sequence"
      <4>1. shot \in SequenceShots(Limits(c.args, tp))
        BY <3>2 DEF Shots
      <4>2. QED
        BY <4>1, SequencesFit
    <3>3. CASE category = "attention"
      <4>1. shot \in AttentionShots(c.args, Limits(c.args, tp))
        BY <3>3 DEF Shots
      <4>2. QED
        BY <4>1, AttentionFit
    <3>4. QED
      BY <1>2, <3>1, <3>2, <3>3 DEF Categories
  <2>2. ~(shot.experts > 0)
    BY <2>1
  <2>3. QED
    BY <2>1, <2>2 DEF FitsEngine, RoomFor
<1>3. QED
  BY <1>1, <1>2
-----------------------------------------------------------------------------
(* What is still to be fired are shots of the category being profiled. *)
TodoInv == sink.open => sink.todo \subseteq Shots(File, cmd.args, Tp)

LEMMA TodoNext ==
  ASSUME RowsInv, TodoInv, Next
  PROVE  TodoInv'
<1>1. CASE OpenSink
  <2>1. File' = File /\ Tp' = Tp /\ cmd' = cmd
    BY <1>1, SameJobs DEF OpenSink
  <2>2. sink'.todo \subseteq Shots(File, cmd.args, Tp)
    BY <1>1 DEF OpenSink
  <2> QED
    BY <2>1, <2>2 DEF TodoInv
<1>2. CASE Fire
  <2>1. File' = File /\ Tp' = Tp /\ cmd' = cmd
    BY <1>2, SameJobs DEF Fire
  <2>2. sink.open /\ sink'.todo \subseteq sink.todo
    BY <1>2 DEF Fire, RowsInv, Shapes
  <2> QED
    BY <2>1, <2>2 DEF TodoInv
<1>3. CASE Begin \/ FlushSink \/ Stop
  BY <1>3 DEF Begin, FlushSink, Stop, Closed, TodoInv
<1>4. CASE SkipCategory \/ SkipSweep \/ OpenSweep \/ FireCase \/ CaseFails \/ CloseSweep
           \/ Replicate \/ Fit \/ WriteMeta
  <2>1. UNCHANGED sink
    BY <1>4 DEF SkipCategory, SkipSweep, OpenSweep, FireCase, CaseFails, CloseSweep, SkewDone,
                Replicate, Fit, WriteMeta
  <2>2. ~sink.open
    BY <1>4 DEF SkipCategory, SkipSweep, OpenSweep, FireCase, CaseFails, CloseSweep,
                Replicate, Fit, WriteMeta, RowsInv, Working, Doing
  <2> QED
    BY <2>1, <2>2 DEF TodoInv
<1> QED
  BY <1>1, <1>2, <1>3, <1>4 DEF Next

LEMMA TodoFits ==
  ASSUME RowsInv, TodoInv
  PROVE  UniformShotsFit
<1>1. SUFFICES ASSUME sink.open, NEW shot \in sink.todo
               PROVE  FitsEngine(Engine(cmd.args, Tp), shot)
  BY DEF UniformShotsFit
<1>2. Doing("measure")
  BY <1>1 DEF RowsInv, Working
<1>3. JobOk(Now) /\ Now.do = "measure" /\ cmd \in Commands
  BY <1>2, CurrentOk DEF RowsInv
<1>4. Tp \in TPs /\ File \in Categories /\ shot \in Shots(File, cmd.args, Tp)
  BY <1>1, <1>3 DEF JobOk, Tp, File, TodoInv
<1> QED
  BY <1>3, <1>4, ShotsFit, EngineAssumption

(* No category fires a shot the engine has no room for, or forces a        *)
(* routing that misses an expert of the row it is for (UniformShotsFit).   *)
THEOREM ShotsAreFeasible == Spec => []UniformShotsFit
<1>1. Init => TodoInv
  BY DEF Init, TodoInv, Closed
<1>2. RowsInv /\ TodoInv /\ [Next]_vars => TodoInv'
  <2>1. ASSUME TodoInv, UNCHANGED vars PROVE TodoInv'
    <3>1. UNCHANGED <<jobs, sink, cmd>>
      BY <2>1 DEF vars
    <3>2. File' = File /\ Tp' = Tp
      BY <3>1, SameJobs
    <3> QED
      BY <2>1, <3>1, <3>2 DEF TodoInv
  <2> QED
    BY <2>1, TodoNext
<1>3. RowsInv /\ TodoInv => UniformShotsFit
  BY TodoFits
<1> QED
  BY <1>1, <1>2, <1>3, SweepInductive, PTL DEF Spec
=============================================================================
