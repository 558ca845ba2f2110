-------------------------- MODULE MCKVCacheManager --------------------------
(* Small instances of KVCacheManager.  Content[r] is r's prompt and output, *)
(* a letter per block; a block hash is the content up to and including it.  *)
EXTENDS KVCacheManager, BlockHashes

(* The first n tokens of a content in which a letter stands for a block. *)
Spelled(content, n) == [t \in 1..n |-> content[(t + 1) \div 2]]
ChainOf(content, n) == RequestBlockHashes(Spelled(content, n), 2)

(* 1 and 2 share their first block; 3 repeats the prompt of 1. *)
Content == << <<"a", "b", "c">>, <<"a", "d", "f">>, <<"a", "b", "e">> >>

MCReqs   == 1..3
MCPrompt == <<4, 3, 4>>
MCOutput == <<5, 5, 5>>
MCChain  == [r \in MCReqs |-> ChainOf(Content[r], MCOutput[r])]
MCHashes == UNION {ToSet(MCChain[r]) : r \in MCReqs}
(* Two victim tiers that overflow: one block, two NPU blocks wide, and two *)
(* blocks of the NPU's size.                                               *)
TwoTiers == << [blocks |-> 1, factor |-> 2], [blocks |-> 2, factor |-> 1] >>

(* Kept is SelectSeq. *)
ASSUME KeptIsSelectSeq ==
  \A s \in BoundedSeq(1..3, 4) : \A T \in SUBSET (1..3) :
    Kept(s, T) = SelectSeq(s, LAMBDA b : b \in T)
=============================================================================
