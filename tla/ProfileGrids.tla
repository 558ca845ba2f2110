---------------------------- MODULE ProfileGrids ----------------------------
(***************************************************************************)
(* What the profiler fires (profiler/core/categories.py, skew.py, engine.py *)
(* and the batch the worker builds of it, hooks/batch.py and moe_hook.py). *)
(* A shot is the list of its requests <<new tokens, history>> and the      *)
(* number of experts to activate, 0 for none.  args is the command line's  *)
(* [mnbt, msq, maxKv, chunk, kv, skewN, skewPc, skewKp, skewKvs]: caps and *)
(* factors (fractions) of the axes; lim what the engine allows.            *)
(***************************************************************************)
EXTENDS Fractions, FiniteSets, SequencesExt, FiniteSetsExt

CONSTANTS
  BlockSize,      (* of the paged cache, 16                                        *)
  ChunkStart,     (* smallest prefill chunk of attention and skew, 16              *)
  KvStart,        (* smallest context of attention, 16                             *)
  KpStart,        (* smallest prefill history of skew, 512                         *)
  KvsStart,       (* smallest decode context of skew, 128                          *)
  KvsTop,         (* the axis of KvsStart goes at least this far, 512              *)
  Ratios,         (* fractions of a batch that are long, _RATIO_VALS               *)
  NbAbsolute,     (* and absolute numbers of long requests                         *)
  SkewRep,        (* the skew of the factorial                                     *)
  SkewsMixed, SkewsPure,  (* the skews of the sweep at the pivots, in order        *)
  PivotRatio, BalancedRatio,  (* 0.125 and 0.5                                     *)
  CacheTokens,    (* tp -> tokens the engine has cache for                         *)
  MaxModelLen, NumExperts, TopK

-----------------------------------------------------------------------------
(* The engine is booted with room for max_num_seqs tokens more than asked, *)
(* and the limits read back from it are without them.                      *)
Engine(args, tp) ==
  [mnbt |-> args.mnbt + args.msq, msq |-> args.msq, cache |-> CacheTokens[tp],
   mml |-> MaxModelLen, experts |-> NumExperts, topK |-> TopK]

ProbeLimits(engine) == [engine EXCEPT !.mnbt = @ - engine.msq]

Limits(args, tp) == ProbeLimits(Engine(args, tp))
-----------------------------------------------------------------------------
(* The axes, as sets. *)
PowersOfTwo(top) == {n \in 1..top : \E k \in 0..30 : n = 2^k}

(* start * factor^k rounded, while it does not exceed top, which it does   *)
(* before k is as large as that, for factors above 1.                      *)
Powers(start, factor, top) ==
  {n \in 1..top : \E k \in 0..(top * factor[2]) :
                    n = Round(<<start * factor[1]^k, factor[2]^k>>)}

TokenGrid(top) ==
  IF top < 1 THEN {}
  ELSE (1..Min({15, top})) \cup {n \in 16..Min({63, top}) : n % 4 = 0}
         \cup {n \in 64..top : n % 16 = 0} \cup {top}

GeometricGrid(top, start, factor) ==
  {0} \cup (IF top < start THEN {} ELSE Powers(start, factor, top) \cup {top})

Doubling(start, top, factor) ==
  IF top < start THEN {top} \ {0} ELSE Powers(start, factor, top) \cup {top}
-----------------------------------------------------------------------------
(* Shots, and the cache they need: every request takes whole blocks. *)
Aligned(tokens) == Ceil(tokens, BlockSize) * BlockSize
Decodes(n, kv) == [i \in 1..n |-> <<1, kv>>]

DenseShot(n) == [requests |-> <<<<n, 0>>>>, experts |-> 0]
SequenceShot(n) == [requests |-> Decodes(n, 0), experts |-> 0]
AttentionShot(pc, kp, nd, kd) ==
  [requests |-> (IF pc > 0 THEN <<<<pc, kp>>>> ELSE <<>>) \o Decodes(nd, kd), experts |-> 0]
MoeShot(n, activated) == [requests |-> <<<<n, 0>>>>, experts |-> activated]

NewTokens(shot) == SumFunction([i \in DOMAIN shot.requests |-> shot.requests[i][1]])

(* assemble_scheduler_output hands out whole blocks, one at least. *)
BlocksOf(request) == Max({1, Ceil(request[1] + request[2], BlockSize)})
BlocksTaken(shot) == SumFunction([i \in DOMAIN shot.requests |-> BlocksOf(shot.requests[i])])

(* _cycle_expert_ids: the experts of token t. *)
RoutedTo(shot, t) == {(t * TopK + o) % shot.experts : o \in 0..(TopK - 1)}

ForgeRefuses(shot) == shot.experts < TopK \/ shot.experts > NewTokens(shot) * TopK
-----------------------------------------------------------------------------
(* compose_shots of the four categories. *)
DenseShots(lim) ==
  {DenseShot(n) : n \in {n \in TokenGrid(lim.mnbt) : Aligned(n) <= lim.cache /\ n < lim.mml}}

SequenceShots(lim) ==
  {SequenceShot(n) : n \in {n \in TokenGrid(lim.msq) :
                              n <= lim.mnbt /\ n * BlockSize <= lim.cache}}

ShortDecodeShotsFit(lim, pc, kp, nd, kd) ==  \* variant: the new token of a decode is not counted
  /\ pc + nd <= lim.mnbt + lim.msq
  /\ (IF pc > 0 THEN 1 ELSE 0) + nd <= lim.msq
  /\ pc > 0 => pc + kp + 1 <= lim.mml
  /\ nd > 0 => 1 + kd + 1 <= lim.mml
  /\ (IF pc > 0 THEN Aligned(pc + kp) ELSE 0) + nd * Aligned(kd) <= lim.cache

AttentionFits(lim, pc, kp, nd, kd) ==
  /\ pc + nd <= lim.mnbt + lim.msq
  /\ (IF pc > 0 THEN 1 ELSE 0) + nd <= lim.msq
  /\ pc > 0 => pc + kp + 1 <= lim.mml
  /\ nd > 0 => 1 + kd + 1 <= lim.mml
  /\ (IF pc > 0 THEN Aligned(pc + kp) ELSE 0) + nd * Aligned(1 + kd) <= lim.cache

AttentionShots(args, lim) ==
  LET kv == GeometricGrid(Min({args.maxKv, lim.mml}), KvStart, args.kv)
      points == {p \in GeometricGrid(lim.mnbt, ChunkStart, args.chunk) \X kv
                         \X GeometricGrid(lim.msq, 1, <<2, 1>>) \X kv :
                   /\ p[1] = 0 => p[2] = 0           \* no prefill: no history
                   /\ (p[3] = 0) <=> (p[4] = 0)      \* a decode has a history
                   /\ p[1] > 0 \/ p[3] > 0
                   /\ AttentionFits(lim, p[1], p[2], p[3], p[4])}
  IN  {AttentionShot(p[1], p[2], p[3], p[4]) : p \in points}

ExpertShots(lim) ==
  {MoeShot(p[1], p[2]) :
     p \in {p \in PowersOfTwo(lim.mnbt) \X PowersOfTwo(lim.experts) :
              /\ p[1] < lim.mml /\ Aligned(p[1]) <= lim.cache
              /\ p[2] >= lim.topK /\ p[2] <= Min({lim.experts, p[1] * lim.topK})}}

Shots(category, args, tp) ==
  LET lim == Limits(args, tp)
  IN  CASE category = "dense"        -> DenseShots(lim)
        [] category = "per_sequence" -> SequenceShots(lim)
        [] category = "attention"    -> AttentionShots(args, lim)
        [] category = "moe"          -> ExpertShots(lim)

(* The point of an attention shot: a first request of several tokens is    *)
(* the chunk, the others are decodes of one context.                       *)
AttentionPoint(reqs) ==
  LET chunk   == reqs[1][1] > 1
      decodes == IF chunk THEN Tail(reqs) ELSE reqs
  IN  (IF chunk THEN reqs[1] ELSE <<0, 0>>)
      \o <<Len(decodes), IF decodes = <<>> THEN 0 ELSE decodes[1][2]>>

(* shot_key: what a row of the table says of the shot. *)
ShotKey(category, shot) ==
  CASE category = "dense"        -> <<NewTokens(shot)>>
    [] category = "per_sequence" -> <<Len(shot.requests)>>
    [] category = "moe"          -> <<NewTokens(shot), shot.experts>>
    [] category = "attention"    -> AttentionPoint(shot.requests)
-----------------------------------------------------------------------------
(* Skew: nb of n decodes have a context that is skew times the others'. *)
SkewCase(n, ratio, skew, pc, kp, kvs) ==
  [n |-> n, nb |-> Max({1, Min({n - 1, Round(<<ratio[1] * n, ratio[2]>>)})}),
   skew |-> skew, pc |-> pc, kp |-> kp, kvs |-> kvs]

KvBig(c) == Round(<<c.kvs * c.skew[1], c.skew[2]>>)
KvMean(c) == (c.nb * KvBig(c) + (c.n - c.nb) * c.kvs) \div c.n

SkewFits(args, lim, c) ==  \* _feasible
  /\ c.pc <= lim.mnbt + 1
  /\ Max({c.kvs, KvBig(c), c.kp}) <= args.maxKv + 1
  /\ c.pc + c.n <= lim.mnbt + lim.msq
  /\ KvBig(c) + 1 <= lim.mml
  /\ c.pc > 0 => c.pc + c.kp + 1 <= lim.mml
  /\ c.n + (IF c.pc > 0 THEN 1 ELSE 0) <= lim.msq
  /\ Aligned(KvBig(c)) * c.nb + Aligned(c.kvs) * (c.n - c.nb)
       + (IF c.pc > 0 THEN Aligned(c.pc + c.kp) ELSE 0) <= lim.cache

SkewGrid(args, lim) ==
  LET n == Doubling(2, lim.msq, args.skewN)
  IN  [n   |-> IF n = {} THEN {1} ELSE n,
       pc  |-> {0} \cup Doubling(ChunkStart, lim.mnbt, args.skewPc),
       kp  |-> {0} \cup Doubling(KpStart, Max({KpStart, args.maxKv \div 2}), args.skewKp),
       kvs |-> Doubling(KvsStart, Max({KvsTop, args.maxKv}), args.skewKvs)]

(* Tier 2: the skews swept at a few pivots. *)
PivotCases(grid) ==
  LET ns   == SetToSortSeq(grid.n, <)
      pcs  == SetToSortSeq(grid.pc, <)
      pc   == pcs[Min({2, Len(pcs)})]
      kvs  == Min(grid.kvs)
      mids == IF Len(ns) = 1 THEN ns ELSE SubSeq(ns, 2, Min({3, Len(ns)}))
  IN  {SkewCase(n, PivotRatio, s, pc, 0, kvs) : n \in ToSet(mids), s \in ToSet(SkewsMixed)}
        \cup {SkewCase(mids[1], BalancedRatio, s, pc, 0, kvs) : s \in ToSet(SubSeq(SkewsMixed, 1, 3))}
        \cup {SkewCase(mids[1], PivotRatio, s, 0, 0, kvs) : s \in ToSet(SkewsPure)}

(* Tier 1 is a factorial at one skew; equal cases count once. *)
SkewCases(args, tp) ==
  LET lim  == Limits(args, tp)
      grid == SkewGrid(args, lim)
      shares(n) == Ratios \cup {<<nb, n>> : nb \in {b \in NbAbsolute : b < n}}
      points == {p \in grid.pc \X grid.kp \X grid.kvs : p[1] = 0 => p[2] = 0}
      tier1 == UNION {{SkewCase(n, r, SkewRep, p[1], p[2], p[3]) : r \in shares(n), p \in points} :
                      n \in grid.n}
  IN  {c \in tier1 \cup PivotCases(grid) : SkewFits(args, lim, c)}

(* _measure_case fires the batch three times: all at the mean, all at the  *)
(* largest, and as it is.                                                  *)
SkewShots(c) ==
  LET prefill == IF c.pc > 0 THEN <<<<c.pc, c.kp>>>> ELSE <<>>
      of(decodes) == [requests |-> prefill \o decodes, experts |-> 0]
  IN  <<of(Decodes(c.n, KvMean(c))), of(Decodes(c.n, KvBig(c))),
        of(Decodes(c.nb, KvBig(c)) \o Decodes(c.n - c.nb, c.kvs))>>
=============================================================================
