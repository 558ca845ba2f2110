----------------------------- MODULE FitReadBack ----------------------------
(***************************************************************************)
(* What a simulator finds of the fits the profiler has published: the      *)
(* profiler's sessions and the simulator's lookup together.                *)
(***************************************************************************)
EXTENDS ProfileSweep

(* After a session a simulator that reads the variant back finds, for a    *)
(* batch of a shape that was measured, the alpha fitted to that very       *)
(* measurement, though the profiler makes the bucket axes of the data, tps *)
(* may differ in them, and the files are replaced one by one.              *)
Simulator(tp) ==
  INSTANCE SkewLookup WITH SkewFit <- Hydrated(meta, Preload(tp, "fit"), tp)

FitIsFound ==
  outcome = "done" =>
    \A tp \in ToSet(cmd.tps) :
      \A c \in Useful(DOMAIN Preload(tp, "skew")) :
        /\ meta.enabled /\ tp \in DOMAIN meta.perTp
        /\ c \in Simulator(tp)!SkewAlpha(c.pc, c.n, SkewRate(c), KvBig(c), c.kp)
        /\ Bucket(ResolveSkewAxes(meta, tp), c) \in DOMAIN Preload(tp, "fit")
=============================================================================
