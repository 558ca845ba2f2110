---------------------------- MODULE GRSimulator ----------------------------
(***************************************************************************)
(* gr/simulator.py with the executor of gr/astra.py: one device serves the *)
(* requests of a workload in the order of arrival.  A service looks the    *)
(* user's snapshot up and plans what each tier will keep, runs its stages  *)
(* one after the other on ASTRA-Sim, and commits the plans at its end.     *)
(* Arrivals during a service are observed as the clock passes them: they   *)
(* are looked up and enter the reference histories.                        *)
(*                                                                         *)
(* ASTRA-Sim is external: a stage takes any of Durations.  The analytical  *)
(* mode is the special case of a service that is a single stage.           *)
(***************************************************************************)
EXTENDS GRStages

CONSTANTS
  Users,
  Scenarios,   (* [k: cache_k, capacities: of the tiers, workload: requests *)
               (* in the order of arrival]                                  *)
  Durations    (* bound: cycles a stage may take                            *)

Request ==
  [user : Users, arrival : Nat, history : Nat, inc : Nat, version : Nat, next : Nat,
   candidates : Nat, widths : Seq(Nat)]

ASSUME GRAssumption ==
  \A sc \in Scenarios :
    /\ sc.k \in Nat \ {0}
    /\ \A t \in DOMAIN Locations : sc.capacities[t] \in Nat
    /\ sc.workload \in Seq(Request)

VARIABLES
  scenario,
  clock,
  served,      (* requests served, those at the front of the workload       *)
  seen,        (* arrival_index: requests observed                          *)
  arrivalHits, (* the requests that found their snapshot when they arrived  *)
  history,
  tiers,       (* caches                                                    *)
  service,     (* {} or the one in flight: [req, start, source, plans,      *)
               (* stages still to run, bytes published to each tier]        *)
  latest,      (* user -> snapshot its last service published (ghost)       *)
  stored,      (* tier -> user -> bytes written for its snapshot (ghost)    *)
  raised       (* the run ended in an exception                             *)

gr == <<scenario, clock, served, seen, arrivalHits, history, tiers, service, latest, stored,
        raised>>

Workload == scenario.workload
TierIds  == DOMAIN Locations
Never    == [version |-> 0, tokens |-> 0]
Snapshot(req) == [version |-> req.next, tokens |-> Updated(req)]

GRInit ==
  /\ scenario \in Scenarios
  /\ clock = 0 /\ served = 0 /\ seen = 0 /\ arrivalHits = {}
  /\ history = NewHistory(scenario.k, Users)
  /\ tiers = [t \in TierIds |-> NewTier(scenario.capacities[t])]
  /\ service = {}
  /\ latest = [u \in Users |-> Never]
  /\ stored = [t \in TierIds |-> [u \in Users |-> 0]]
  /\ raised = FALSE

(* _source: the fastest tier that has the snapshot. *)
Source(req, now) ==
  LET holding == {t \in TierIds : Hits(tiers[t], req, now)}
  IN  IF holding = {} THEN NoTier ELSE Min(holding)

(* observe_until *)
ArrivedBy(time, inclusive) ==
  Cardinality({i \in DOMAIN Workload :
                 Workload[i].arrival < time \/ (inclusive /\ Workload[i].arrival = time)})

ObserveUntil(time, inclusive) ==
  LET upto == Max({seen, ArrivedBy(time, inclusive)})
      new  == [k \in 1..(upto - seen) |-> Workload[seen + k]]
  IN  /\ seen' = upto
      /\ history' = FoldLeft(LAMBDA h, req : Record(h, req.user, req.arrival), history, new)
      /\ arrivalHits' = arrivalHits \cup
           {i \in (seen + 1)..upto : Source(Workload[i], Workload[i].arrival) # NoTier}

StartService ==
  /\ ~raised /\ service = {} /\ served < Len(Workload)
  /\ LET req   == Workload[served + 1]
         start == Max({clock, req.arrival})
     IN  /\ clock' = start
         /\ ObserveUntil(start, TRUE)
         /\ \/ /\ TracesRaise(req)
               /\ raised' = TRUE
               /\ UNCHANGED service
            \/ /\ ~TracesRaise(req)
               /\ service' = {[req |-> req, start |-> start, source |-> Source(req, start),
                               plans |-> [t \in TierIds |-> Plan(tiers[t], history', req, start)],
                               stages |-> Stages(req, Source(req, start)),
                               published |-> [t \in TierIds |-> 0]]}
               /\ UNCHANGED raised
  /\ UNCHANGED <<scenario, served, tiers, latest, stored>>

(* execute: one stage, dispatched after the one before it is over. *)
PublishedBy(s, t) ==
  BytesPublished(Operators(s.req, Head(s.stages), s.source, s.plans), Locations[t])

RunStage ==
  \E s \in service : \E d \in Durations :
    /\ s.stages # << >>
    /\ clock' = clock + d
    /\ ObserveUntil(clock', FALSE)
    /\ service' = {[s EXCEPT !.stages = Tail(@),
                             !.published = [t \in TierIds |-> @[t] + PublishedBy(s, t)]]}
    /\ UNCHANGED <<scenario, served, tiers, latest, stored, raised>>

(* What is stored for a snapshot: an append adds to what is there. *)
NowStored(s, t) ==
  s.published[t] + IF s.plans[t].local THEN stored[t][s.req.user] ELSE 0

Finish ==
  \E s \in service :
    /\ s.stages = << >>
    /\ tiers' = [t \in TierIds |-> Commit(tiers[t], s.req, s.plans[t], clock)]
    /\ served' = served + 1
    /\ service' = {}
    /\ latest' = [latest EXCEPT ![s.req.user] = Snapshot(s.req)]
    /\ stored' = [t \in TierIds |-> [stored[t] EXCEPT ![s.req.user] = NowStored(s, t)]]
    /\ UNCHANGED <<scenario, clock, seen, arrivalHits, history, raised>>

GRNext == StartService \/ RunStage \/ Finish

GRSpec == GRInit /\ [][GRNext]_gr
-----------------------------------------------------------------------------
(* A tier holds what it accounts for, within its capacity, and a plan made *)
(* at the start of a service can still be carried out at its end, although *)
(* histories have moved on: the victims are there and the object fits.     *)
NeverOverfull ==
  /\ \A t \in TierIds :
       /\ tiers[t].used = BytesOf(tiers[t], Resident(tiers[t]))
       /\ tiers[t].used <= tiers[t].capacity
       /\ \A u \in Resident(tiers[t]) : HasPriority(history, u)
  /\ \A s \in service : \A t \in TierIds : ~CommitRaises(tiers[t], s.plans[t], s.req)

(* Whatever a tier holds of a user is the snapshot its last service has    *)
(* published, not one that another service has replaced or that was refused*)
(* there; and the tier has been sent every byte of it: where the copy did  *)
(* not match itself it is written in full, whichever tier gave the hit.    *)
SnapshotIsLatest ==
  \A t \in TierIds : \A u \in Resident(tiers[t]) :
    /\ [version |-> tiers[t].entries[u].version, tokens |-> tiers[t].entries[u].tokens] = latest[u]
    /\ stored[t][u] = tiers[t].entries[u].tokens * KvBytes

(* LRU-K, against its definition: a feasible object is refused only if a   *)
(* user that would have to leave is not colder, never when k = 1; and no   *)
(* user that stays is colder than one that leaves, nor could one of those  *)
(* have stayed.                                                            *)
Leaves(tier, h, u, size) ==
  LET others == Resident(tier) \ {u}
  IN  {v \in others : RoomFor(tier, u) + BytesOf(tier, Colder(others, h, v)) < size}

LruK(tier, h, req, plan) ==
  LET size   == SizeOf(Updated(req))
      leaves == Leaves(tier, h, req.user, size)
      admit  == /\ size <= tier.capacity /\ HasPriority(h, req.user)
                /\ h.k > 1 => \A v \in leaves : Priority(h, v) < Priority(h, req.user)
  IN  /\ plan.accepted = admit
      /\ plan.victims = IF admit THEN leaves ELSE {}

AdmitsByRecency ==
  [][\A s \in service' : service = {} /\ Updated(s.req) > 0 =>
       \A t \in TierIds : LruK(tiers[t], history', s.req, s.plans[t])]_gr

(* The stages do the work that the cost model of the request counts, read  *)
(* all the keys that their queries attend to, and lose no byte of a token  *)
(* between the layers.                                                     *)
StagesDoTheWork ==
  [][\A s \in service' : service = {} =>
       /\ FoldLeft(LAMBDA sum, g : sum + g.pairs, 0, s.stages) = ModelPairs(s.req, s.source # NoTier)
       /\ \A k \in DOMAIN s.stages :
            LET stage == s.stages[k]
                ops   == Operators(s.req, stage, s.source, s.plans)
            IN  stage.name # "recall" =>
                  /\ Bytes(ops, {"working_kv_append"}) = stage.queries * KvBytes
                  /\ Bytes(ops, {"user_history", "working_kv_read"})
                       = (stage.context + IF stage.step = 0 THEN stage.queries ELSE stage.prefix)
                         * KvBytes]_gr
=============================================================================
