----------------------------- MODULE SkewLookup -----------------------------
(***************************************************************************)
(* How the simulator corrects attention for decodes of unequal length: the *)
(* alpha of the bucket the batch falls into (core/trace_generator.py).     *)
(***************************************************************************)
EXTENDS Fractions, SequencesExt, FiniteSetsExt

CONSTANT
  SkewFit         (* [enabled, alpha, default, n, sr, kv, kp]: bucket -> alpha,    *)
                  (* alpha_default, and the upper edges of the axes' bins          *)

(* _bucket_label: the first bin whose upper edge is not exceeded, or the   *)
(* one beyond the last edge.                                               *)
BucketLabel(edges, val) ==
  LET fits == {i \in DOMAIN edges : val[1] <= edges[i] * val[2]}
  IN  IF fits = {} THEN <<">", Last(edges)>> ELSE <<"<=", edges[Min(fits)]>>

(* _skew_alpha; the edges of the skew rate are hundredths. *)
SkewAlpha(pc, n, rate, big, kp) ==
  LET bucket == <<pc, BucketLabel(SkewFit.n, Whole(n)),
                  BucketLabel(SkewFit.sr, <<100 * rate[1], rate[2]>>),
                  BucketLabel(SkewFit.kv, Whole(big)), BucketLabel(SkewFit.kp, Whole(kp))>>
  IN  CASE ~SkewFit.enabled                -> <<0, 1>>
        [] bucket \in DOMAIN SkewFit.alpha -> SkewFit.alpha[bucket]
        [] OTHER                           -> SkewFit.default
=============================================================================
