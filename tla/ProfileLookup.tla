--------------------------- MODULE ProfileLookup ---------------------------
(***************************************************************************)
(* The latency of one layer: tables built from the profiler's rows and     *)
(* interpolated between measured points (core/trace_generator.py).  A      *)
(* table is a function from measured keys to nanoseconds, a fraction is    *)
(* <<numerator, denominator>>.  The code computes in floating point, which *)
(* is exact where neighbouring keys are a power of two apart, as they are  *)
(* on the profiler's doubling grids.                                       *)
(***************************************************************************)
EXTENDS SkewLookup, FiniteSets, SequencesExt, FiniteSetsExt

CONSTANTS
  Dense,          (* tp -> layer -> rows <<tokens, ns>> of dense.csv               *)
  PerSequence,    (* tp -> layer -> rows <<sequences, ns>> of per_sequence.csv     *)
  Attention,      (* tp -> rows <<pc, nd, kp, kd, ns>> of attention.csv            *)
  Moe,            (* rows <<experts, tokens, ns>> of moe.csv of the tp it is       *)
                  (* looked up in, tp1 where profiled                              *)
  TpStable        (* layers the catalog marks tp_stable                            *)

AvailableTps == DOMAIN Dense

(* _load_perf_db and _check_tp_coverage: degrees of a run without tables. *)
Unprofiled(tps) == tps \ AvailableTps
-----------------------------------------------------------------------------
(* Building tables: the last of several rows with one key counts. *)
Keys(rows) == {r[1] : r \in ToSet(rows)}
Of(rows, k) == SelectSeq(rows, LAMBDA r : r[1] = k)
Ns(row) == row[Len(row)]

TableOfOldest(rows) ==  \* variant: the first measurement of a key is kept
  [k \in Keys(rows) |-> Ns(Head(Of(rows, k)))]

Table(rows) == [k \in Keys(rows) |-> Ns(Last(Of(rows, k)))]

(* The rows with key k, without it. *)
Under(rows, k) == [i \in DOMAIN Of(rows, k) |-> Tail(Of(rows, k)[i])]

(* activated experts -> tokens -> ns *)
MoeTable(rows) == [a \in Keys(rows) |-> Table(Under(rows, a))]

(* (prefill_chunk, n_decode) -> kv_prefill -> kv_decode -> ns *)
AttentionTable(rows) ==
  [s \in {<<r[1], r[2]>> : r \in ToSet(rows)} |->
     LET slice == Under(Under(rows, s[1]), s[2])
     IN  [kp \in Keys(slice) |-> Table(Under(slice, kp))]]

(* _build_tp_tables, for every degree. *)
Layered(rows) == [tp \in DOMAIN rows |-> [l \in DOMAIN rows[tp] |-> Table(rows[tp][l])]]
DenseTables == Layered(Dense)
PerSequenceTables == Layered(PerSequence)
AttentionTables == [tp \in DOMAIN Attention |-> AttentionTable(Attention[tp])]
MoeTables == MoeTable(Moe)

-----------------------------------------------------------------------------
(* x + t (y - x). *)
Blend(x, y, t) ==
  IF t[1] = 0 \/ t[2] = 0 \/ x = y THEN x
  ELSE <<x[1] * y[2] * t[2] + t[1] * (y[1] * x[2] - x[1] * y[2]), x[2] * y[2] * t[2]>>

(* _lookup_bounds and _axis_bracket: the measured keys around q; below the *)
(* smallest it alone, above the largest the largest two.                   *)
Bracket(keys, q) ==
  LET low == {k \in keys : k <= q}  high == {k \in keys : k > q}
  IN  CASE low = {} \/ Cardinality(keys) = 1 -> [lo |-> Min(keys), hi |-> Min(keys)]
        [] high = {} -> [lo |-> Max(keys \ {Max(keys)}), hi |-> Max(keys)]
        [] OTHER     -> [lo |-> Max(low), hi |-> Min(high)]

Interpolated(b, value, q) == Blend(value[b.lo], value[b.hi], <<q - b.lo, b.hi - b.lo>>)

Along(keys, q, f(_)) ==
  LET b == Bracket(keys, q) IN Interpolated(b, [k \in {b.lo, b.hi} |-> f(k)], q)

Lookup1d(table, q) == Along(DOMAIN table, q, LAMBDA k : Whole(table[k]))

AtLeastOne(n) == Max({1, n})

EffectiveTp(layer, tp) == IF layer \in TpStable /\ 1 \in AvailableTps THEN 1 ELSE tp

LookupDense(layer, tp, tokens) ==
  AtLeastOne(Floor(Lookup1d(DenseTables[EffectiveTp(layer, tp)][layer], AtLeastOne(tokens))))

LookupPerSequence(layer, tp, sequences) ==
  AtLeastOne(Floor(Lookup1d(PerSequenceTables[EffectiveTp(layer, tp)][layer], AtLeastOne(sequences))))

LookupMoe(tokens, experts) ==
  AtLeastOne(Floor(Along(DOMAIN MoeTables, AtLeastOne(experts),
                         LAMBDA a : Lookup1d(MoeTables[a], AtLeastOne(tokens)))))

-----------------------------------------------------------------------------
(* Attention: linear on all four axes, a missing (pc, nd) corner replaced  *)
(* by the nearest measured one (the smallest of several).                  *)
Slice(slice, kp, kd) ==
  Along(DOMAIN slice, kp, LAMBDA p : Lookup1d(slice[p], kd))

Nearest(pairs, pc, nd) ==
  LET distance(p) == (p[1] - pc) * (p[1] - pc) + (p[2] - nd) * (p[2] - nd)
      close == {p \in pairs : \A o \in pairs : distance(p) <= distance(o)}
  IN  CHOOSE p \in close : \A o \in close : p[1] < o[1] \/ (p[1] = o[1] /\ p[2] <= o[2])

Corner(table, pc, nd, kp, kd) ==
  LET at == IF <<pc, nd>> \in DOMAIN table THEN <<pc, nd>> ELSE Nearest(DOMAIN table, pc, nd)
  IN  Slice(table[at], kp, kd)

LookupAttention(tp, pc, kp, nd, kd) ==
  LET table == AttentionTables[tp]
  IN  AtLeastOne(Floor(
        Along({s[1] : s \in DOMAIN table}, pc, LAMBDA x :
          Along({s[2] : s \in DOMAIN table}, nd, LAMBDA y : Corner(table, x, y, kp, kd)))))

(* _lookup_attention_with_skew: decodes of different lengths cost more     *)
(* than as many of the mean length.                                        *)
Skewed(mean, top, alpha) ==
  IF alpha[1] = 0 \/ top <= mean THEN mean
  ELSE AtLeastOne(Round(Blend(Whole(mean), Whole(top), alpha)))

LookupAttentionWithSkew(tp, pc, kp, n, kv) ==
  IF n <= 1 \/ kv.max = kv.mean THEN LookupAttention(tp, pc, kp, n, kv.mean)
  ELSE Skewed(LookupAttention(tp, pc, kp, n, kv.mean), LookupAttention(tp, pc, kp, n, kv.max),
              SkewAlpha(pc, n, <<kv.mean - kv.min, kv.max - kv.min>>, kv.max, kp))
=============================================================================
