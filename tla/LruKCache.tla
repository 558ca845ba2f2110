----------------------------- MODULE LruKCache -----------------------------
(***************************************************************************)
(* gr/cache.py: the reference histories of all users and one memory tier   *)
(* of whole user snapshots, as operators on records.                       *)
(*   history [k, references, last]: k, user -> its last k references, each *)
(*     the number of the reference in the order of arrival, and the time   *)
(*     of the last one (the number breaks ties of time, so it orders alone)*)
(*   tier [capacity, entries, used]: user -> [version, tokens, bytes,      *)
(*     ready]                                                              *)
(* A request is [user, arrival, history, inc, version, next, ...]; counters*)
(* that are only reported are left out.                                    *)
(***************************************************************************)
EXTENDS Naturals, FiniteSets, SequencesExt, FiniteSetsExt

CONSTANTS
  BlockTokens,  (* config.block_tokens                                      *)
  KvBytes       (* model.kv_bytes_per_token                                 *)

ASSUME LruKAssumption == BlockTokens \in Nat \ {0} /\ KvBytes \in Nat \ {0}

Updated(req) == req.history + req.inc

-----------------------------------------------------------------------------
(* AccessHistory *)
NewHistory(k, users) ==
  [k |-> k, references |-> [u \in users |-> << >>], sequence |-> 0, last |-> 0]

Youngest(refs, k) == SubSeq(refs, Len(refs) - Min({k, Len(refs)}) + 1, Len(refs))
RecordRaises(history, at) == at < history.last
Record(history, user, at) ==
  [history EXCEPT !.references[user] = Youngest(Append(@, history.sequence + 1), history.k),
                  !.sequence = @ + 1, !.last = at]

HasPriority(history, user) == Len(history.references[user]) = history.k
Priority(history, user) == Head(history.references[user])

-----------------------------------------------------------------------------
(* UserKVCacheManager: lookup and plan *)
NewTier(capacity) == [capacity |-> capacity, entries |-> << >>, used |-> 0]

CDivBy(n, d) == (n + d - 1) \div d
SizeOf(tokens) == CDivBy(tokens, BlockTokens) * BlockTokens * KvBytes

Resident(tier) == DOMAIN tier.entries

Hits(tier, req, now) ==
  /\ req.user \in Resident(tier)
  /\ tier.entries[req.user].version = req.version
  /\ tier.entries[req.user].tokens = req.history
  /\ tier.entries[req.user].ready <= now

(* The own old entry is replaced, so it counts as room. *)
RoomFor(tier, user) ==
  tier.capacity - tier.used + (IF user \in Resident(tier) THEN tier.entries[user].bytes ELSE 0)

BytesOf(tier, users) == FoldSet(LAMBDA u, sum : sum + tier.entries[u].bytes, 0, users)

KeyOrder(tier, history, user) ==  \* variant: an arbitrary order of the users
  SetToSeq(Resident(tier) \ {user})

(* No two users share a reference, so the priorities rank them. *)
Colder(users, history, user) == {v \in users : Priority(history, v) < Priority(history, user)}

Coldest(tier, history, user) ==
  LET others == Resident(tier) \ {user}
  IN  [n \in 1..Cardinality(others) |->
         CHOOSE u \in others : Cardinality(Colder(others, history, u)) = n - 1]

(* The coldest others, no more than it takes to make room. *)
Victims(tier, history, req) ==
  LET cold   == Coldest(tier, history, req.user)
      enough == {n \in 0..Len(cold) :
                   RoomFor(tier, req.user) + BytesOf(tier, ToSet(SubSeq(cold, 1, n)))
                     >= SizeOf(Updated(req))}
  IN  ToSet(SubSeq(cold, 1, IF enough = {} THEN Len(cold) ELSE Min(enough)))

TooCold(tier, history, req) ==
  /\ history.k > 1
  /\ \E u \in Victims(tier, history, req) : Priority(history, req.user) <= Priority(history, u)

Admits(tier, history, req) ==
  /\ 0 < Updated(req) /\ SizeOf(Updated(req)) <= tier.capacity
  /\ HasPriority(history, req.user)
  /\ ~TooCold(tier, history, req)
  /\ RoomFor(tier, req.user) + BytesOf(tier, Victims(tier, history, req)) >= SizeOf(Updated(req))

AnyTierHit(tier, req, now) ==  \* variant: a copy of the user is enough to append to
  req.user \in Resident(tier)

LocalHit(tier, req, now) == Hits(tier, req, now)

Plan(tier, history, req, now) ==
  LET accepted == Admits(tier, history, req)
  IN  [accepted |-> accepted,
       local    |-> LocalHit(tier, req, now),
       bytes    |-> SizeOf(Updated(req)),
       writes   |-> CASE ~accepted -> 0
                      [] accepted /\ LocalHit(tier, req, now) -> req.inc * KvBytes
                      [] OTHER -> Updated(req) * KvBytes,
       victims  |-> IF accepted THEN Victims(tier, history, req) ELSE {}]

-----------------------------------------------------------------------------
(* commit: the old snapshot goes whether or not the new one is kept. *)
Without(tier, users) ==
  [tier EXCEPT !.entries = Restrict(@, DOMAIN @ \ users),
               !.used = @ - BytesOf(tier, users \cap Resident(tier))]

Stored(entries, user, entry) ==
  [u \in DOMAIN entries \cup {user} |-> IF u = user THEN entry ELSE entries[u]]

CommitLeavesOld(tier, req, plan, finish) ==  \* variant: the replaced snapshot stays accounted
  IF plan.accepted
  THEN LET left == Without(tier, plan.victims)
       IN  [left EXCEPT !.used = @ + plan.bytes,
                        !.entries = Stored(@, req.user,
                                           [version |-> req.next, tokens |-> Updated(req),
                                            bytes |-> plan.bytes, ready |-> finish])]
  ELSE Without(tier, {req.user})

Commit(tier, req, plan, finish) ==
  IF plan.accepted
  THEN LET left == Without(tier, plan.victims \cup {req.user})
       IN  [left EXCEPT !.used = @ + plan.bytes,
                        !.entries = Stored(@, req.user,
                                           [version |-> req.next, tokens |-> Updated(req),
                                            bytes |-> plan.bytes, ready |-> finish])]
  ELSE Without(tier, {req.user})

CommitRaises(tier, plan, req) ==
  \/ ~(plan.victims \subseteq Resident(tier) \ {req.user})   \* KeyError
  \/ plan.accepted /\ Without(tier, plan.victims \cup {req.user}).used + plan.bytes > tier.capacity
=============================================================================
