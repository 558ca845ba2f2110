------------------------------- MODULE Queues -------------------------------
(***************************************************************************)
(* Lists from which an element is taken out of the middle: the free list   *)
(* of a block pool (core/block_pool.py) and the queues of a scheduler      *)
(* (core/scheduler.py).                                                    *)
(***************************************************************************)
EXTENDS Integers, FiniteSets, Sequences, SequencesExt

(***************************************************************************)
(* The subsequence of s whose elements are in T, in the order of s.  (It   *)
(* is SelectSeq, given through ranks: the prover has no SelectSeq.)        *)
(***************************************************************************)
Rank(I, i) == Cardinality({j \in I : j <= i})

Kept(s, T) ==
  LET I == {i \in DOMAIN s : s[i] \in T}
  IN  [k \in 1..Cardinality(I) |-> s[CHOOSE i \in I : Rank(I, i) = k]]
=============================================================================
