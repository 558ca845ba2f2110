-------------------------- MODULE SchedulerRefines --------------------------
(***************************************************************************)
(* An instance (module Scheduler) as a caller of its KV cache manager      *)
(* (module KVCacheManager).                                                *)
(***************************************************************************)
EXTENDS Scheduler

(* The scheduler is a caller that keeps the manager's contract, so what    *)
(* KVCacheManager shows of the manager holds in an instance.               *)
Granted(r) == IF InBatch(r) THEN WorkOf(r).before + WorkOf(r).n ELSE computed[r]

Manager == INSTANCE KVCacheManager WITH
  granted <- [r \in Reqs |-> Granted(r)],
  gone    <- {r \in Reqs : status[r] = "finished"}

KeepsManagerContract == Manager!Spec
=============================================================================
