-------------------------- MODULE MCPrefillDecode --------------------------
(* Small instances of PrefillDecode; contents as in MCScheduler. *)
EXTENDS PrefillDecode, BlockHashes

(* The first n tokens of a content in which a letter stands for a block. *)
Spelled(content, n) == [t \in 1..n |-> content[(t + 1) \div 2]]
ChainOf(content, n) == RequestBlockHashes(Spelled(content, n), 2)

(* 1 and 2 have their first two blocks in common. *)
Content == << <<"a", "b", "c", "k">>, <<"a", "b", "d", "l">>, <<"e", "f", "g">>, <<"h", "i", "j">> >>

MCReqs   == 1..4
MCPrompt == <<4, 3, 2, 4>>
MCOutput == <<7, 7, 5, 6>>
MCChain  == [r \in MCReqs |-> ChainOf(Content[r], MCOutput[r])]
MCHashes == UNION {ToSet(MCChain[r]) : r \in MCReqs}
SharedPrompt == <<4, 4, 2, 4>>
NoTiers  == << >>
=============================================================================
