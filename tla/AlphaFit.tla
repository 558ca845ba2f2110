------------------------------ MODULE AlphaFit ------------------------------
(***************************************************************************)
(* Fitting alpha to the skew measurements of one tp (core/fit_alpha.py)    *)
(* and publishing the fits (core/writer.py); how the simulator reads them  *)
(* back (serving/core/trace_generator.py).  The alpha fitted to a bucket,  *)
(* a weighted mean, is stood for by the cases it is fitted to.             *)
(***************************************************************************)
EXTENDS ProfileGrids

CONSTANTS
  KvEdge,         (* first edge of the axis of the longest decode, 1024            *)
  SkewRateEdges,  (* edges of the skew rate in hundredths, 5 15 40 70              *)
  DefaultAxes,    (* of a simulator that finds none                                *)
  DefaultKpTop    (* edge above 0 if no case has a prefill history, 2048           *)

Label(edges, val) ==  \* _bucket_label
  LET fits == {i \in DOMAIN edges : val[1] <= edges[i] * val[2]}
  IN  IF fits = {} THEN <<">", Last(edges)>> ELSE <<"<=", edges[Min(fits)]>>

Ascending(s) == SetToSortSeq(s, <)

KvAxis(top) ==
  LET edges == Powers(KvEdge, <<4, 1>>, top)
  IN  Ascending(IF edges = {} THEN {KvEdge} ELSE edges \cup {top})

KpAxis(histories) ==
  Ascending({0} \cup IF histories \ {0} = {} THEN {DefaultKpTop} ELSE histories)

(* _derive_bucket_axes: an edge for every n and history measured. *)
Axes(cases) ==
  [n  |-> Ascending({c.n : c \in cases}),
   kv |-> KvAxis(Max({KvBig(c) : c \in cases})),
   kp |-> KpAxis({c.kp : c \in cases})]

SkewRate(c) == <<KvMean(c) - c.kvs, Max({1, KvBig(c) - c.kvs})>>

Bucket(axes, c) ==
  <<c.pc, Label(axes.n, Whole(c.n)), Label(SkewRateEdges, <<100 * SkewRate(c)[1], SkewRate(c)[2]>>),
    Label(axes.kv, Whole(KvBig(c))), Label(axes.kp, Whole(c.kp))>>

(* A case is of use if its longest decodes took longer than its mean. *)
Useful(cases) == {c \in cases : KvBig(c) > KvMean(c)}

FitAlpha(cases) ==
  LET used == Useful(cases)
      axes == Axes(used)
      bucket == [c \in used |-> Bucket(axes, c)]
  IN  [axes |-> axes, default |-> used,
       table |-> [b \in {bucket[c] : c \in used} |-> {c \in used : bucket[c] = b}]]
-----------------------------------------------------------------------------
(* meta.yaml: the axes once if every tp has the same, else with each tp. *)
NoAxes == <<>>
NoSkewFit == [enabled |-> FALSE, axes |-> NoAxes, perTp |-> <<>>]

AxesOfFirst(fits) ==  \* variant: the first tp's axes are taken for everyone's
  [enabled |-> TRUE, axes |-> fits[Min(DOMAIN fits)].axes,
   perTp   |-> [tp \in DOMAIN fits |-> [default |-> fits[tp].default, axes |-> NoAxes]]]

Published(fits) ==
  LET agree == \A a, b \in DOMAIN fits : fits[a].axes = fits[b].axes
  IN  [enabled |-> TRUE, axes |-> IF agree THEN fits[Min(DOMAIN fits)].axes ELSE NoAxes,
       perTp   |-> [tp \in DOMAIN fits |->
                      [default |-> fits[tp].default,
                       axes    |-> IF agree THEN NoAxes ELSE fits[tp].axes]]]

SkewFitBlock(fits) == IF DOMAIN fits = {} THEN NoSkewFit ELSE Published(fits)
-----------------------------------------------------------------------------
(* _resolve_skew_axes: a tp's own axes, else the common ones. *)
ResolveSkewAxes(block, tp) ==
  IF block.perTp[tp].axes # NoAxes THEN block.perTp[tp].axes
  ELSE IF block.axes # NoAxes THEN block.axes ELSE DefaultAxes

(* _hydrate_skew_fit_tables: what a simulator of this tp looks alpha up in. *)
Hydrated(block, table, tp) ==
  IF ~block.enabled \/ tp \notin DOMAIN block.perTp
  THEN [enabled |-> FALSE, alpha |-> <<>>, default |-> {}, n |-> <<0>>, sr |-> SkewRateEdges,
        kv |-> <<0>>, kp |-> <<0>>]
  ELSE LET axes == ResolveSkewAxes(block, tp)
       IN  [enabled |-> TRUE, alpha |-> table, default |-> block.perTp[tp].default,
            n |-> axes.n, sr |-> SkewRateEdges, kv |-> axes.kv, kp |-> axes.kp]
=============================================================================
