------------------------------- MODULE Router -------------------------------
(***************************************************************************)
(* core/router.py as operators on a record                                 *)
(*   [pending, counter, next, session]                                     *)
(* pending: the requests loaded and not yet routed, [id, arrival], in the  *)
(* order of arrival; counter: the round-robin counters of the two roles;   *)
(* next: for each agentic session that is open (_deferred_sessions) the    *)
(* index of the sub-request to release; session: _request_to_session.      *)
(* A dataset is a sequence of rows [arrival, agentic, subs]; a flat row has *)
(* one sub-request, [tokens, tool]: output tokens and tool_duration_ns.    *)
(***************************************************************************)
EXTENDS Naturals, FiniteSets, SequencesExt, FiniteSetsExt

(* Ids in the order of the file, all the ids of a session reserved at once. *)
IdBase(rows, k) == FoldLeft(LAMBDA sum, row : sum + Len(row.subs), 0, SubSeq(rows, 1, k - 1))
Ids(rows) == 0..(IdBase(rows, Len(rows) + 1) - 1)
RowOf(rows, id) == CHOOSE k \in DOMAIN rows :
                     IdBase(rows, k) <= id /\ id < IdBase(rows, k + 1)
SubIndex(rows, id) == id - IdBase(rows, RowOf(rows, id))
SubRequest(rows, id) == rows[RowOf(rows, id)].subs[SubIndex(rows, id) + 1]

(* _insert_pending_sorted: the binary search ends behind equal arrivals. *)
InsertionPoint(pending, req) ==
  1 + Cardinality({k \in DOMAIN pending : pending[k].arrival <= req.arrival})
InsertSorted(pending, req) == InsertAt(pending, InsertionPoint(pending, req), req)

(* load_requests: the first sub-request of every row, sorted by arrival. *)
LoadRequests(rows) ==
  [pending |-> FoldLeftDomain(LAMBDA pending, k :
                 InsertSorted(pending, [id |-> IdBase(rows, k), arrival |-> rows[k].arrival]),
                 << >>, rows),
   counter |-> [prefill |-> 0, decode |-> 0],
   next    |-> [k \in {k \in DOMAIN rows : rows[k].agentic} |-> 1],
   session |-> {IdBase(rows, k) : k \in {k \in DOMAIN rows : rows[k].agentic}}]

HasPending(router) == router.pending # << >>
HasDeferred(router) == DOMAIN router.next # {}
FirstPending(router) == Head(router.pending)

-----------------------------------------------------------------------------
(* The two policies.  They choose among the schedulers of a role, numbered *)
(* 0, 1, ...; score is waiting * 4 + running over max_num_seqs, which all  *)
(* have in common here.                                                    *)
Score(sched) == 4 * Len(sched.waiting) + Len(sched.running)

RoundRobin(router, role, scheds) ==
  LET idx == router.counter[role] % Len(scheds)
  IN  [idx |-> idx, counter |-> [router.counter EXCEPT ![role] = idx + 1]]

LeastLoaded(router, role, scheds) ==
  LET n      == Len(scheds)
      at(k)  == (router.counter[role] + k) % n
      score(k) == Score(scheds[at(k) + 1])
      best   == CHOOSE k \in 0..(n - 1) :
                  /\ \A j \in 0..(n - 1) : score(k) <= score(j)
                  /\ \A j \in 0..(k - 1) : score(k) < score(j)
  IN  [idx |-> at(best), counter |-> [router.counter EXCEPT ![role] = (at(best) + 1) % n]]

Select(policy, router, role, scheds) ==
  IF policy = "RR" THEN RoundRobin(router, role, scheds)
                   ELSE LeastLoaded(router, role, scheds)

-----------------------------------------------------------------------------
(* notify_request_completed: release the next sub-request of the session   *)
(* tool_duration_ns after this one, or close the session.                  *)
AfterNext(router, k) == router.next[k] + 1  \* variant: counted up before it is used

NextIndex(router, k) == router.next[k]

Release(router, rows, id, now) ==
  LET k     == RowOf(rows, id)
      index == NextIndex(router, k)
      after == now + SubRequest(rows, id).tool
      next  == IdBase(rows, k) + index
  IN  IF index < Len(rows[k].subs)
      THEN [router EXCEPT !.pending = InsertSorted(@, [id |-> next, arrival |-> after]),
                          !.next[k] = index + 1,
                          !.session = (@ \ {id}) \cup {next}]
      ELSE [router EXCEPT !.next = Restrict(@, DOMAIN @ \ {k}),
                          !.session = @ \ {id}]

NotifyCompleted(router, rows, id, now) ==
  IF id \in router.session THEN Release(router, rows, id, now) ELSE router
=============================================================================
