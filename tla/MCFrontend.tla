----------------------------- MODULE MCFrontend -----------------------------
(* Small instances of Frontend.  The clusters are built by ClusterTables.  *)
EXTENDS Frontend

Raw(tp, pp, dp, pd) ==
  [num_npus |-> Absent, tp |-> tp, pp |-> pp, ep |-> Absent, dp |-> dp, pd |-> pd,
   node |-> 0, model |-> [experts |-> 0, layers |-> 4], set |-> "any"]
Cluster(raws) == FoldLeft(Place, << >>, raws)

Flat(arrival, tokens) ==
  [arrival |-> arrival, agentic |-> FALSE, subs |-> <<[tokens |-> tokens, tool |-> 0]>>]
Session(arrival, subs) == [arrival |-> arrival, agentic |-> TRUE, subs |-> subs]
Sub(tokens, tool) == [tokens |-> tokens, tool |-> tool]

Scenario(raws, rows, policy) == [cluster |-> Cluster(raws), rows |-> rows, policy |-> policy]

(* Two members of a DP group, with two stages each or two ranks each. *)
DpStages == Scenario(<<Raw(1, 2, "g", "none"), Raw(1, 2, "g", "none")>>,
                     <<Flat(0, 1), Flat(0, 2), Flat(1, 1)>>, "RR")
DpRanks  == Scenario(<<Raw(2, 1, "g", "none"), Raw(2, 1, "g", "none")>>,
                     <<Flat(0, 1), Flat(1, 2)>>, "LOAD")

(* Three members: a dummy does not complete the round yet. *)
DpTrio   == Scenario([k \in 1..3 |-> Raw(1, 1, "g", "none")], <<Flat(0, 1), Flat(1, 2)>>, "LOAD")

(* A prefill instance with its sender NPU, and two decode instances. *)
PdPair   == Scenario(<<Raw(1, 1, NoGroup, "prefill"), Raw(1, 1, NoGroup, "decode"),
                       Raw(1, 1, NoGroup, "decode")>>,
                     <<Flat(0, 2), Flat(0, 3), Flat(1, 2)>>, "RR")

(* Sessions and a flat request on two plain instances. *)
Agents   == Scenario(<<Raw(1, 1, NoGroup, "none"), Raw(2, 1, NoGroup, "none")>>,
                     <<Session(0, <<Sub(1, 1), Sub(2, 2), Sub(1, 0)>>), Flat(1, 1),
                       Session(1, <<Sub(1, 1), Sub(1, 0)>>)>>, "LOAD")

MCScenarios == {DpStages, DpRanks, DpTrio, PdPair, Agents}
MCNpuIds == 0..3

PdAgents == {Scenario(<<Raw(1, 1, NoGroup, "prefill"), Raw(1, 1, NoGroup, "decode")>>,
                      <<Session(0, <<Sub(2, 1), Sub(2, 0)>>)>>, "RR")}
Mixed == {Scenario(<<Raw(1, 1, NoGroup, "none"), Raw(1, 1, NoGroup, "prefill"),
                     Raw(1, 1, NoGroup, "decode")>>,
                   <<Flat(0, 2), Flat(0, 2)>>, "RR")}

(* The tool of a session answers at once (tool_duration_ns is left out). *)
NoToolTime == {Scenario(<<Raw(1, 1, NoGroup, "none")>>, <<Session(0, <<Sub(1, 0), Sub(1, 0)>>)>>, "RR")}
=============================================================================
