---------------------------- MODULE GateRouting ----------------------------
(***************************************************************************)
(* core/gate_function.py: how many tokens each expert-parallel rank        *)
(* computes and how many of its experts they activate.  RAND and CUSTOM    *)
(* policies are left out.                                                  *)
(***************************************************************************)
EXTENDS ProfileLookup

CONSTANTS
  Experts,      (* num_local_experts or num_experts                         *)
  TopK          (* num_experts_per_tok, at most Experts                     *)

ASSUME GateAssumption == Experts \in Nat \ {0} /\ TopK \in 1..Experts

Ranks(ep) == 0..(ep - 1)

ExpertOwner(e, ep) == Min({(e * ep) \div Experts, ep - 1})

(* route_ep draws every token with index 0: one choice for all of them. *)
Selected == {o % Experts : o \in 0..(TopK - 1)}

RoundRobinShares(total, ep) ==
  LET chosen(r) == {e \in Selected : ExpertOwner(e, ep) = r /\ total > 0}
  IN  [r \in Ranks(ep) |-> [tokens  |-> IF chosen(r) = {} THEN 0 ELSE total,
                            experts |-> Cardinality(chosen(r))]]

(* A token misses a rank's experts with probability ((ep-1)/ep)^k. *)
Balanced(total, ep) ==
  [r \in Ranks(ep) |->
     [tokens  |-> Round(<<total * (ep^TopK - (ep - 1)^TopK), ep^TopK>>),
      experts |-> Min({Round(<<total * TopK, ep>>), AtLeastOne(Experts \div ep)})]]

RouteEp(policy, total, ep) ==  \* policy is "BALANCED" or "RR"
  IF policy = "BALANCED" THEN Balanced(total, ep) ELSE RoundRobinShares(total, ep)
=============================================================================
