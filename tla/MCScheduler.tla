---------------------------- MODULE MCScheduler ----------------------------
(* Small instances of Scheduler.  TierContent[r] is r's prompt and output, *)
(* a letter per block; a block hash is the content up to and including it. *)
EXTENDS SchedulerRefines, BlockHashes

(* The first n tokens of a content in which a letter stands for a block. *)
Spelled(content, n) == [t \in 1..n |-> content[(t + 1) \div 2]]
ChainOf(content, n) == RequestBlockHashes(Spelled(content, n), 2)

(* A host tier of coarse blocks, two NPU blocks each; no length reached by *)
(* these requests is a multiple of 4, the coarse block.                    *)
HostTier     == << [blocks |-> 2, factor |-> 2] >>
TierContent  == << <<"a", "b", "c", "d">>, <<"g", "h", "i", "j">>, <<"a", "b", "e", "f">>,
                   <<"a", "b", "c", "k">>, <<"g", "h", "l", "m">> >>
TierReqs     == 1..5
TierPrompt   == <<5, 5, 7, 5, 5>>
TierOutput   == <<8, 8, 8, 7, 8>>
TierChain    == [r \in TierReqs |-> ChainOf(TierContent[r], TierOutput[r])]
TierHashes   == UNION {ToSet(TierChain[r]) : r \in TierReqs}
AlignedPrompt == <<4, 4, 4, 4, 4>>
=============================================================================
