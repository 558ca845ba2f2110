--------------------------- MODULE MCGRSimulator ---------------------------
(* Small instances of GRSimulator. *)
EXTENDS GRSimulator

MCUsers == {1, 2, 3}

(* A workload is given by what distinguishes its requests: the user, the   *)
(* time since the last arrival, the new tokens, and whether the user's     *)
(* history has changed elsewhere since (one token more, another version).  *)
Item == [user : MCUsers, gap : {0, 3, 8, 30}, inc : {0, 1}, rewritten : BOOLEAN]

PreviousOf(items, k) == {j \in 1..(k - 1) : items[j].user = items[k].user}
Total(items, k, f(_)) == FoldSet(LAMBDA j, sum : sum + f(items[j]), 0, PreviousOf(items, k))

Req(items, k) ==
  LET grown   == Total(items, k, LAMBDA item : item.inc)
      changed == grown + Total(items, k, LAMBDA item : IF item.rewritten THEN 1 ELSE 0)
                 + IF items[k].rewritten THEN 1 ELSE 0
  IN  [user |-> items[k].user,
       arrival |-> FoldLeft(LAMBDA sum, item : sum + item.gap, 0, SubSeq(items, 1, k)),
       history |-> items[k].user + changed, inc |-> items[k].inc,
       version |-> changed, next |-> changed + items[k].inc,
       candidates |-> 2, widths |-> << >>]

Requests(items) == [k \in DOMAIN items |-> Req(items, k)]

(* Four requests, the first one user 1's.  Gaps: at once, during a stage,  *)
(* between two stages or at the end of a service, after it.                *)
MCItems == {items \in [1..4 -> Item] :
              /\ items[1] = [user |-> 1, gap |-> 0, inc |-> 1, rewritten |-> FALSE]
              /\ items[2].inc = 0 /\ ~items[2].rewritten /\ items[2].user # 3
              /\ \A k \in 3..4 : items[k].rewritten => items[k].inc = 0 /\ items[k].user = 1
              /\ items[3].gap \in {3, 30} /\ items[4].gap # 30}

MCScenarios ==
  {[k |-> k, capacities |-> <<c, 8, 16>>, workload |-> Requests(items)] :
     k \in {1, 2}, c \in {4, 8}, items \in MCItems}
MCLocations == <<"local", "remote", "storage">>
MCVocab == <<2, 2, 2>>
=============================================================================
