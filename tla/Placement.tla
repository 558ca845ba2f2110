----------------------------- MODULE Placement -----------------------------
(***************************************************************************)
(* Where the weights and the KV cache of an instance are kept, from the    *)
(* "placement" rules of the cluster description (core/config_builder.py).  *)
(* Rules are [default, blocks, layers]:                                    *)
(*   default  kind -> device name                                          *)
(*   blocks   sequence of [ids, set]: the blocks a rule is for, as parts   *)
(*            <<v>> or <<from, to>>, and a function from kinds to names    *)
(*   layers   layer -> (kind -> device name)                               *)
(* all partial.  A name is <<"npu">>, <<"cpu">>, <<"cxl">> or              *)
(* <<"cxl", n>>; text that is no number or no device is left out.          *)
(***************************************************************************)
EXTENDS Integers, SequencesExt, TLC

Kinds == {"weights", "kv_loc", "kv_evict_loc"}

Local == <<"LOCAL">>  \* an NPU's own memory
NoBlock == -1   \* block_idx is None, for the layers around the blocks
NoLayer == ""   \* layer_name is None

NoRules == [default |-> << >>, blocks |-> << >>, layers |-> << >>]

Usual == [weights |-> <<"npu">>, kv_loc |-> <<"npu">>, kv_evict_loc |-> <<"cpu">>]

(* _mem_str: the CPU memory is that of the instance's own node. *)
MemStr(name, node) ==
  CASE Head(name) = "npu" -> Local
    [] Head(name) = "cpu" -> <<"REMOTE", node>>
    [] Head(name) = "cxl" -> <<"CXL">> \o Tail(name)

Norm(loc) == IF Len(loc) = 1 THEN Append(loc, 0) ELSE loc

Locations(names, node) == [k \in DOMAIN names |-> MemStr(names[k], node)]

(* _parse_blocks_expr: ranges either way round, cut to the model's blocks. *)
BetweenHalfOpen(part) ==  \* variant: the end of a range is left out
  IF Len(part) = 1 THEN {part[1]} ELSE (part[1]..(part[2] - 1)) \cup (part[2]..(part[1] - 1))

Between(part) ==
  IF Len(part) = 1 THEN {part[1]} ELSE (part[1]..part[2]) \cup (part[2]..part[1])

ParseBlocks(parts, numLayers) ==
  (UNION {Between(p) : p \in ToSet(parts)}) \cap 0..(numLayers - 1)

-----------------------------------------------------------------------------
(* Later rules go before earlier ones, kind by kind. *)
BlockRule(table, rule, node) ==
  [i \in DOMAIN table |-> IF i \in rule.ids THEN Locations(rule.set, node) @@ table[i] ELSE table[i]]

(* The tables of one instance: block is empty as long as no rule names a   *)
(* block, and then the blocks need not be traced one by one.               *)
Resolved(rules, node, numLayers) ==
  LET default == Locations(rules.default @@ Usual, node)
      named   == SelectSeq([n \in DOMAIN rules.blocks |->
                              [ids |-> ParseBlocks(rules.blocks[n].ids, numLayers),
                               set |-> rules.blocks[n].set]],
                           LAMBDA r : r.ids # {})
  IN  [default   |-> default,
       block     |-> IF named = << >> THEN << >>
                     ELSE FoldLeft(LAMBDA table, r : BlockRule(table, r, node),
                                   [i \in 0..(numLayers - 1) |-> default], named),
       layer     |-> [l \in {l \in DOMAIN rules.layers : DOMAIN rules.layers[l] # {}} |->
                        Locations(rules.layers[l], node) @@ default],
       blockMode |-> named # << >>]

(* get_device: a layer's rule before a block's. *)
GetDevice(placement, block, layer, kind) ==
  IF layer \in DOMAIN placement.layer THEN placement.layer[layer][kind]
  ELSE IF block \in DOMAIN placement.block THEN placement.block[block][kind]
  ELSE placement.default[kind]

-----------------------------------------------------------------------------
(* The memories ASTRA-Sim is configured with, and the check of a placement *)
(* against them (_validate_memory_config): an NPU's own is always there.   *)
Devices(numNodes, numCxl) ==
  {<<"REMOTE", n>> : n \in 0..(numNodes - 1)} \cup {<<"CXL", n>> : n \in 0..(numCxl - 1)}
  \cup {Norm(Local)}

Entries(placement) ==
  {placement.default} \cup {placement.block[i] : i \in DOMAIN placement.block}
  \cup {placement.layer[l] : l \in DOMAIN placement.layer}

PlacementValid(placement, devices) ==
  \A entry \in Entries(placement) : \A k \in Kinds : Norm(entry[k]) \in devices
=============================================================================
