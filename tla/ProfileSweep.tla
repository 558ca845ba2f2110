---------------------------- MODULE ProfileSweep ----------------------------
(***************************************************************************)
(* Sessions of the profiler over the CSV files of one variant              *)
(* (profiler/core/runner.py, writer.py, skew.py, hooks/timings.py).  A     *)
(* session measures shots into memory, writes a file at the end of each    *)
(* category, saves the skew cases now and then, and may stop between any   *)
(* two steps; the next one resumes from what is on the disk.               *)
(*                                                                         *)
(* A row of a category's file is keyed <<layer, shot key>> ("" where the   *)
(* file has no column for it) and holds the samples it averages, each      *)
(* <<session, tp, node of the module tree>>.  A row of skew.csv is keyed   *)
(* by its case and holds the session.                                      *)
(***************************************************************************)
EXTENDS AlphaFit

CONSTANTS
  TPs, Sessions,  (* tp degrees; the sessions that are run, in order: a set of     *)
                  (* sequences of commands                                         *)
  Catalog,        (* category -> layer -> [vllm, within, tpStable], "" for no      *)
                  (* within; a category without layers has an empty function       *)
  ModuleTree,     (* the nodes of the profiled forward pass, depth first, as       *)
                  (* [class, path]: class names of the node and its ancestors      *)
  Kernels,        (* layer -> the nodes it is meant to time                        *)
  SaveEvery,      (* skew cases between two saves, 20                              *)
  MaxFailures,    (* bound: skew shots that fail in one session                    *)
  NoFile          (* a meta.yaml that does not exist                               *)

Categories == {"dense", "per_sequence", "attention", "moe"}
Files == Categories \cup {"skew", "fit"}
Layers(category) == DOMAIN Catalog[category]

(* _check_catalog *)
Entries == UNION {{<<c, l>> : l \in Layers(c)} : c \in Categories}
CatalogAssumption ==
  /\ Cardinality(Layers("attention")) = 1
  /\ \A e, f \in Entries :
       e # f => /\ e[2] # f[2]
                /\ LET x == Catalog[e[1]][e[2]]  y == Catalog[f[1]][f[2]]
                   IN  <<x.vllm, x.within>> # <<y.vllm, y.within>>
ASSUME CatalogAssumption

(* __main__.py refuses an unknown group and a list of tps without 1.       *)
Commands == UNION {ToSet(s) : s \in Sessions}
SessionsAssumption ==
  /\ Sessions \subseteq Seq(Commands)
  /\ \A c \in Commands :
       /\ c.kind \in {"profile", "slice"} /\ c.force \in BOOLEAN
       /\ c.tps \in Seq(TPs) /\ 1 \in ToSet(c.tps)
       /\ c.kind = "slice" => c.group \in Categories
ASSUME SessionsAssumption

ASSUME SaveAssumption == SaveEvery \in Nat \ {0}

(* An engine boots with room for one request of a token and its answer.    *)
EngineAssumption ==
  /\ BlockSize \in Nat \ {0} /\ MaxModelLen \in Nat \ {0, 1}
  /\ NumExperts \in Nat /\ TopK \in Nat \ {0}
  /\ \A tp \in TPs : CacheTokens[tp] \in Nat
  /\ \A c \in Commands : c.args.mnbt \in Nat /\ c.args.msq \in Nat \ {0} /\ c.args.maxKv \in Nat
ASSUME EngineAssumption

VARIABLES
  disk,      (* tp -> file -> rows, of the files that exist                        *)
  meta,      (* skew_fit of meta.yaml, or NoFile                                   *)
  session,   (* number of the session                                              *)
  plan,      (* commands of the sessions to come                                   *)
  cmd,       (* the command of the session                                         *)
  jobs,      (* what is left of it: a set of [do, tp, file, at]                    *)
  sink,      (* rows and shots to fire of the category being profiled              *)
  sweep,     (* rows, cases to fire and number fired of the skew sweep             *)
  warned,    (* <<tp, case>> of the cases that failed in the session               *)
  fits,      (* tp -> fit, the tps fitted so far                                   *)
  outcome    (* "none", "running", "done" or "stopped"                             *)
vars == <<disk, meta, session, plan, cmd, jobs, sink, sweep, warned, fits, outcome>>

Closed == [open |-> FALSE, rows |-> <<>>, todo |-> {}]
NoSweep == [open |-> FALSE, rows |-> <<>>, todo |-> {}, fired |-> 0]
-----------------------------------------------------------------------------
(* Which layer a node is: of the entries for its class, the one whose      *)
(* within is deepest above it; an entry without one is the last resort.    *)
Depth(entry, node) ==
  IF entry.within = "" THEN 0 ELSE Min({i \in DOMAIN node.path : node.path[i] = entry.within})

Matching(category, node) ==
  {l \in Layers(category) : LET e == Catalog[category][l]
                            IN  e.vllm = node.class /\ e.within \in {""} \cup ToSet(node.path)}

ShallowestMatch(category, node, l) ==  \* variant: the outer class wins
  /\ l \in Matching(category, node)
  /\ \A m \in Matching(category, node) :
       Depth(Catalog[category][l], node) <= Depth(Catalog[category][m], node)

MatchSlice(category, node, l) ==
  /\ l \in Matching(category, node)
  /\ \A m \in Matching(category, node) :
       Depth(Catalog[category][m], node) <= Depth(Catalog[category][l], node)

Timed(category, l) == {i \in DOMAIN ModuleTree : MatchSlice(category, ModuleTree[i], l)}

(* extract_points: attention averages its timings, moe takes the first,    *)
(* the others have a row per layer.                                        *)
Points(category, shot, tp) ==
  LET key   == ShotKey(category, shot)
      all   == UNION {Timed(category, l) : l \in Layers(category)}
      of(nodes) == {<<session, tp, i>> : i \in nodes}
      timed == {l \in Layers(category) : Timed(category, l) # {}}
  IN  IF all = {} THEN <<>>
      ELSE CASE category = "attention" -> [k \in {<<"", key>>} |-> of(all)]
             [] category = "moe"       -> [k \in {<<"", key>>} |-> of({Min(all)})]
             [] OTHER -> [k \in {<<l, key>> : l \in timed} |-> of(Timed(category, k[1]))]

(* DedupSink.coalesce: rows with one key are averaged. *)
Coalesce(rows, new) ==
  [k \in DOMAIN rows \cup DOMAIN new |->
     (IF k \in DOMAIN rows THEN rows[k] ELSE {}) \cup (IF k \in DOMAIN new THEN new[k] ELSE {})]

Preload(tp, file) == IF file \in DOMAIN disk[tp] THEN disk[tp][file] ELSE <<>>
PriorShotKeys(rows) == {k[2] : k \in DOMAIN rows}
-----------------------------------------------------------------------------
(* The jobs of a command. *)
Stable(category) == {l \in Layers(category) : Catalog[category][l].tpStable}

HasTpDependentWork(tp) == tp = 1 \/ \E c \in Categories : Stable(c) # Layers(c)

CategoriesFor(tp) ==
  {c \in Categories : /\ Layers(c) # {}
                      /\ tp # 1 => c # "moe" /\ Stable(c) # Layers(c)}

(* at is the place of a job in the loops of the command: the loop, the tp, *)
(* the file.                                                               *)
Job(do, tp, file, at) == [do |-> do, tp |-> tp, file |-> file, at |-> at]
InOrder == <<"dense", "per_sequence", "attention", "moe">>

MeasureJobs(c) ==
  {Job("measure", c.tps[p[1]], InOrder[p[2]], <<1, p[1], p[2]>>) :
     p \in {p \in (DOMAIN c.tps) \X (1..4) :
              HasTpDependentWork(c.tps[p[1]]) /\ InOrder[p[2]] \in CategoriesFor(c.tps[p[1]])}}

SkewJobs(c) ==
  {Job("skew", c.tps[i], "skew", <<1, i, 5>>) : i \in {i \in DOMAIN c.tps : HasTpDependentWork(c.tps[i])}}

ReplicateJobs(c) ==
  {Job("replicate", c.tps[p[1]], InOrder[p[2]], <<2, p[1], p[2]>>) :
     p \in {p \in (DOMAIN c.tps) \X {1, 2} : c.tps[p[1]] # 1 /\ Stable(InOrder[p[2]]) # {}}}

PersistJobs(c) ==
  {Job("fit", c.tps[i], "fit", <<3, i, 1>>) : i \in DOMAIN c.tps} \cup {Job("meta", 0, "meta", <<4, 1, 1>>)}

JobsOf(c) ==
  IF c.kind = "slice"
  THEN {Job("measure", c.tp, c.group, <<1, 1, 1>>)}
         \cup (IF c.tp = 1 THEN ReplicateJobs(c) ELSE {}) \cup PersistJobs(c)
  ELSE (IF c.onlySkew THEN {} ELSE MeasureJobs(c) \cup ReplicateJobs(c))
         \cup (IF c.skipSkew THEN {} ELSE SkewJobs(c)) \cup PersistJobs(c)

Before(a, b) == \E n \in 1..3 : a[n] < b[n] /\ \A m \in 1..(n - 1) : a[m] = b[m]
Now == CHOOSE job \in jobs : \A other \in jobs : other = job \/ Before(job.at, other.at)
-----------------------------------------------------------------------------
NoCmd == [kind |-> "none", tps |-> <<>>]

Init ==
  /\ disk = [tp \in TPs |-> <<>>] /\ meta = NoFile
  /\ session = 0 /\ plan \in Sessions /\ cmd = NoCmd /\ jobs = {}
  /\ sink = Closed /\ sweep = NoSweep /\ warned = {} /\ fits = <<>> /\ outcome = "none"

(* A command of the user; run_slice refuses a group without layers and a   *)
(* tp that is not in the session.                                          *)
Begin ==
  /\ outcome # "running" /\ plan # <<>>
  /\ Head(plan).kind = "slice" =>
       Layers(Head(plan).group) # {} /\ Head(plan).tp \in ToSet(Head(plan).tps)
  /\ plan' = Tail(plan) /\ cmd' = Head(plan) /\ jobs' = JobsOf(cmd')
  /\ session' = session + 1 /\ outcome' = "running"
  /\ sink' = Closed /\ sweep' = NoSweep /\ warned' = {} /\ fits' = <<>>
  /\ UNCHANGED <<disk, meta>>

Doing(do) == outcome = "running" /\ Now \in jobs /\ Now.do = do
Tp == Now.tp
File == Now.file
OnDisk == Preload(Tp, File)
Write(rows) ==
  disk' = [disk EXCEPT ![Tp] = [f \in DOMAIN @ \cup {File} |-> IF f = File THEN rows ELSE @[f]]]
Wipe == disk' = [disk EXCEPT ![Tp] = [f \in DOMAIN @ \ {File} |-> @[f]]]
NextJob == jobs' = jobs \ {Now}

(* _fire_one_category *)
SkipCategory ==
  /\ Doing("measure") /\ ~sink.open /\ Shots(File, cmd.args, Tp) = {} /\ NextJob
  /\ UNCHANGED <<disk, meta, session, plan, cmd, sink, sweep, warned, fits, outcome>>

OpenSink ==
  /\ Doing("measure") /\ ~sink.open
  /\ LET kept == IF cmd.force THEN <<>> ELSE OnDisk
         shots == Shots(File, cmd.args, Tp)
     IN  /\ shots # {}
         /\ sink' = [open |-> TRUE, rows |-> kept,
                     todo |-> {s \in shots : ShotKey(File, s) \notin PriorShotKeys(kept)}]
  /\ UNCHANGED <<disk, meta, session, plan, cmd, jobs, sweep, warned, fits, outcome>>

(* In what order does not matter: nothing is written before the last. *)
Fire ==
  /\ Doing("measure") /\ sink.open /\ sink.todo # {}
  /\ LET shot == CHOOSE s \in sink.todo : TRUE
     IN  sink' = [sink EXCEPT !.todo = @ \ {shot}, !.rows = Coalesce(@, Points(File, shot, Tp))]
  /\ UNCHANGED <<disk, meta, session, plan, cmd, jobs, sweep, warned, fits, outcome>>

FlushSink ==
  /\ Doing("measure") /\ sink.open /\ sink.todo = {}
  /\ IF sink.rows = <<>> THEN UNCHANGED disk ELSE Write(sink.rows)
  /\ sink' = Closed /\ NextJob
  /\ UNCHANGED <<meta, session, plan, cmd, sweep, warned, fits, outcome>>
-----------------------------------------------------------------------------
(* sample_skew *)
SkewDone ==
  /\ sweep' = NoSweep /\ NextJob
  /\ UNCHANGED <<meta, session, plan, cmd, sink, warned, fits, outcome>>

SkipSweep ==
  /\ Doing("skew") /\ ~sweep.open /\ SkewCases(cmd.args, Tp) = {}
  /\ UNCHANGED disk /\ SkewDone

OpenSweep ==
  /\ Doing("skew") /\ ~sweep.open
  /\ LET kept == IF cmd.force THEN <<>> ELSE OnDisk
         cases == SkewCases(cmd.args, Tp)
     IN  /\ cases # {}
         /\ sweep' = [NoSweep EXCEPT !.open = TRUE, !.todo = cases \ DOMAIN kept]
         /\ IF cmd.force THEN Wipe ELSE UNCHANGED disk
  /\ UNCHANGED <<meta, session, plan, cmd, jobs, sink, warned, fits, outcome>>

(* _flush_rows: the newer of two rows of a case counts. *)
OfThisSession(rows) == rows  \* variant: what is on the disk is not read back
Merged(rows) ==
  [c \in DOMAIN rows \cup DOMAIN OnDisk |-> IF c \in DOMAIN rows THEN rows[c] ELSE OnDisk[c]]

SaveAtEnd(fired) == FALSE  \* variant: the rows are only saved after the last case
SaveNow(fired) == fired % SaveEvery = 0

FireCase ==
  /\ Doing("skew") /\ sweep.open /\ sweep.todo # {}
  /\ LET case == CHOOSE c \in sweep.todo : TRUE
         rows == [c \in DOMAIN sweep.rows \cup {case} |->
                    IF c = case THEN session ELSE sweep.rows[c]]
         fired == sweep.fired + 1
     IN  /\ sweep' = [sweep EXCEPT !.todo = @ \ {case}, !.fired = fired, !.rows = rows]
         /\ IF SaveNow(fired) THEN Write(Merged(rows)) ELSE UNCHANGED disk
  /\ UNCHANGED <<meta, session, plan, cmd, jobs, sink, warned, fits, outcome>>

(* A case that raises is left out, and so is the save that is due with it. *)
CaseFails ==
  /\ Doing("skew") /\ sweep.open /\ sweep.todo # {} /\ Cardinality(warned) < MaxFailures
  /\ LET case == CHOOSE c \in sweep.todo : TRUE
     IN  /\ sweep' = [sweep EXCEPT !.todo = @ \ {case}, !.fired = @ + 1]
         /\ warned' = warned \cup {<<Tp, case>>}
  /\ UNCHANGED <<disk, meta, session, plan, cmd, jobs, sink, fits, outcome>>

CloseSweep ==
  /\ Doing("skew") /\ sweep.open /\ sweep.todo = {}
  /\ IF sweep.rows = <<>> THEN UNCHANGED disk ELSE Write(Merged(sweep.rows))
  /\ SkewDone
-----------------------------------------------------------------------------
(* _replicate_layer_file: the rows of the stable layers are tp1's. *)
Replicated(file, from, into) ==
  LET canonical == {k \in DOMAIN from : k[1] \in Stable(file)}
      own == {k \in DOMAIN into : k[1] \notin Stable(file)}
  IN  [k \in own \cup canonical |-> IF k \in own THEN into[k] ELSE from[k]]

Replicate ==
  /\ Doing("replicate") /\ NextJob
  /\ LET rows == Replicated(File, disk[1][File], OnDisk)
     IN  IF File \notin DOMAIN disk[1] \/ rows = <<>> THEN UNCHANGED disk ELSE Write(rows)
  /\ UNCHANGED <<meta, session, plan, cmd, sink, sweep, warned, fits, outcome>>

(* persist_meta: fit_alpha for every tp of the session, which raises on an *)
(* empty file, then a table for each tp, then meta.yaml.                   *)
Fit ==
  /\ Doing("fit") /\ NextJob
  /\ \A tp \in ToSet(cmd.tps) : "skew" \in DOMAIN disk[tp] => disk[tp]["skew"] # <<>>
  /\ LET cases == Useful(DOMAIN Preload(Tp, "skew"))
     IN  IF cases = {} THEN UNCHANGED <<disk, fits>>
         ELSE Write(FitAlpha(cases).table) /\ fits' = (Tp :> FitAlpha(cases)) @@ fits
  /\ UNCHANGED <<meta, session, plan, cmd, sink, sweep, warned, outcome>>

WriteMeta ==
  /\ Doing("meta") /\ NextJob
  /\ meta' = SkewFitBlock(fits) /\ outcome' = "done"
  /\ UNCHANGED <<disk, session, plan, cmd, sink, sweep, warned, fits>>

(* The machine stops, the user interrupts, or a shot of a category raises: *)
(* what was in memory is lost, and a file that the next step writes may    *)
(* have been opened, which truncates it, and not filled again.  (A file    *)
(* longer than the write buffer may also be cut in the middle, and so may  *)
(* meta.yaml, which is not modelled.)                                      *)
BeingWritten ==
  \/ sink.open /\ sink.todo = {} /\ sink.rows # <<>>
  \/ sweep.open /\ sweep.todo # {} /\ SaveNow(sweep.fired + 1)
  \/ sweep.open /\ sweep.todo = {} /\ sweep.rows # <<>>
  \/ Doing("replicate") /\ File \in DOMAIN disk[1] /\ Replicated(File, disk[1][File], OnDisk) # <<>>
  \/ Doing("fit") /\ Useful(DOMAIN Preload(Tp, "skew")) # {}

Stop ==
  /\ outcome = "running"
  /\ UNCHANGED disk \/ (BeingWritten /\ Write(<<>>))
  /\ outcome' = "stopped" /\ jobs' = {} /\ sink' = Closed /\ sweep' = NoSweep /\ fits' = <<>>
  /\ UNCHANGED <<meta, session, plan, cmd, warned>>

Next ==
  \/ Begin \/ SkipCategory \/ OpenSink \/ Fire \/ FlushSink
  \/ SkipSweep \/ OpenSweep \/ FireCase \/ CaseFails \/ CloseSweep
  \/ Replicate \/ Fit \/ WriteMeta \/ Stop

Spec == Init /\ [][Next]_vars
-----------------------------------------------------------------------------
(* What a session owes of a shot: a row for the layer, timed from the      *)
(* nodes that layer is meant to be.                                        *)
HasRow(tp, c, l, shot) ==
  LET k == <<IF c \in {"attention", "moe"} THEN "" ELSE l, ShotKey(c, shot)>>
  IN  /\ k \in DOMAIN Preload(tp, c)
      /\ \A sample \in Preload(tp, c)[k] : sample[3] \in Kernels[l]
Covers(tp, c) == \A shot \in Shots(c, cmd.args, tp), l \in Layers(c) : HasRow(tp, c, l, shot)

StableRows(tp, f) ==
  LET rows == Preload(tp, f)
  IN  [k \in {k \in DOMAIN rows : k[1] \in Stable(f)} |-> rows[k]]

(* The rest of what the end of a session owes: tp1's stable rows at every  *)
(* tp, and every skew case on the disk or warned about.                    *)
SharedAndSkewed(tp) ==
  /\ ~cmd.onlySkew => \A f \in {"dense", "per_sequence"} : StableRows(tp, f) = StableRows(1, f)
  /\ ~cmd.skipSkew =>
       \A c \in SkewCases(cmd.args, tp) : c \in DOMAIN Preload(tp, "skew") \/ <<tp, c>> \in warned

(* Resuming, as its documentation has it: only shots that are already      *)
(* there are left out, so that once a session of all of a variant has come *)
(* to its end, every shot of every category it visits has its rows, and    *)
(* what the session owes besides is there: wherever the sessions before it *)
(* were stopped.  It does not hold (prior_shot_keys drops the layer).      *)
SessionLeavesNoGap ==
  outcome = "done" /\ cmd.kind = "profile" =>
    \A tp \in ToSet(cmd.tps) :
      /\ ~cmd.onlySkew => \A c \in CategoriesFor(tp) : Covers(tp, c)
      /\ SharedAndSkewed(tp)

(* What does hold.  A shot is left out for one reason only: a row of a     *)
(* stable layer, measured at tp1 and replicated, has its key.  So when a   *)
(* category is written every shot of it has its rows, or hides behind such *)
(* a row at another tp than 1, in a session without --force; and at the    *)
(* end nothing is left out at tp1 nor of a category without stable layers. *)
Hidden(shot) ==
  /\ Tp # 1 /\ ~cmd.force
  /\ LET rows == StableRows(Tp, File)
     IN  \E k \in DOMAIN rows : k[2] = ShotKey(File, shot) /\ \A sample \in rows[k] : sample[2] = 1

OnlyHiddenGaps ==
  /\ [][FlushSink =>
          \A tp \in {Tp}, c \in {File} :
            \A shot \in Shots(c, cmd.args, tp), l \in Layers(c) :
              \/ Hidden(shot) \/ (tp # 1 /\ l \in Stable(c))
              \/ HasRow(tp, c, l, shot)']_vars
  /\ [](outcome = "done" /\ cmd.kind = "profile" =>
          \A tp \in ToSet(cmd.tps) :
            /\ ~cmd.onlySkew => \A c \in CategoriesFor(tp) : tp = 1 \/ Stable(c) = {} => Covers(tp, c)
            /\ SharedAndSkewed(tp))

(* A session stopped in a skew sweep loses at most the cases since the     *)
(* last save, and a case that fails puts off at most one save.             *)
StopLosesLittle ==
  sweep.open =>
    LET failed == Cardinality({w \in warned : w[1] = Tp})
    IN  Cardinality(DOMAIN sweep.rows \ DOMAIN OnDisk) + failed < SaveEvery * (failed + 1)

(* Rewriting a file keeps every row that was in it as it was, unless the   *)
(* file is measured anew with --force, or the row is one of a stable layer *)
(* of another tp, which are tp1's.  Files are rewritten in place and not   *)
(* atomically: a stop may empty the one file that is being rewritten, with *)
(* the rows of all sessions before, and touches no other.                  *)
RowsSurvive ==
  [][\A tp \in TPs, f \in Files \ {"fit"} :
       LET old == Preload(tp, f)  new == Preload(tp, f)'
       IN  \/ outcome' = "stopped" /\ BeingWritten /\ <<Tp, File>> = <<tp, f>> /\ new = <<>>
           \/ cmd.kind # "none" /\ cmd.force /\ jobs # {} /\ <<Tp, File>> = <<tp, f>>
           \/ \A k \in DOMAIN old :
                \/ tp # 1 /\ f # "skew" /\ k[1] \in Stable(f)
                \/ k \in DOMAIN new /\ new[k] = old[k]]_vars

(* A shot of a category never asks the engine for more than it was booted  *)
(* with: tokens and requests of a step, length of a request with the token *)
(* it samples, blocks of the cache; and forced routing reaches exactly the *)
(* experts the row is for.                                                 *)
FitsEngine(engine, shot) ==
  /\ NewTokens(shot) <= engine.mnbt /\ Len(shot.requests) <= engine.msq
  /\ \A i \in DOMAIN shot.requests : shot.requests[i][1] + shot.requests[i][2] < engine.mml
  /\ BlocksTaken(shot) * BlockSize <= engine.cache
  /\ shot.experts > 0 =>
       /\ ~ForgeRefuses(shot)
       /\ UNION {RoutedTo(shot, t) : t \in 0..(NewTokens(shot) - 1)} = 0..(shot.experts - 1)
       /\ \A t \in 0..(NewTokens(shot) - 1) : Cardinality(RoutedTo(shot, t)) = engine.topK

UniformShotsFit ==
  sink.open => \A shot \in sink.todo : FitsEngine(Engine(cmd.args, Tp), shot)
=============================================================================
