----------------------------- MODULE GraphCache -----------------------------
(***************************************************************************)
(* generate_graph (core/graph_generator.py): the graph files ASTRA-Sim     *)
(* reads are converted from a trace, or written from the cache of graphs   *)
(* converted before.  Operators on a record                                *)
(*   [disk, seen, cache]                                                   *)
(*   disk: <<folder, npu>> -> the llm.<npu>.et file in that folder         *)
(*   seen: keys converted once or more, oldest first                       *)
(*   cache: entries [key, files], least recently used first, files being   *)
(*     npu -> file                                                         *)
(* Several processes and the text artifact are left out.                   *)
(***************************************************************************)
EXTENDS Naturals, SequencesExt, FiniteSetsExt, Functions, TLC

CONSTANTS
  MaxSeen,      (* _ET_SEEN_MAX                                             *)
  MaxBytes      (* _ET_CACHE_MAX_BYTES                                      *)

ASSUME GraphCacheAssumption == {MaxSeen, MaxBytes} \subseteq Nat \ {0}

NewGraphs == [disk |-> << >>, seen |-> << >>, cache |-> << >>]

(* Chakra's converter: one file for every NPU of the instance. *)
Convert(trace, npus, offset) ==
  [n \in offset..(offset + npus - 1) |-> [trace |-> trace, npus |-> npus, offset |-> offset, npu |-> n]]

SizeOfFile(file) == Len(file.trace.rows)
BytesOf(files) == FoldSet(LAMBDA n, sum : sum + SizeOfFile(files[n]), 0, DOMAIN files)
CacheBytes(cache) == FoldLeft(LAMBDA sum, e : sum + BytesOf(e.files), 0, cache)

InFolder(disk, folder) ==
  [n \in {f[2] : f \in {f \in DOMAIN disk : f[1] = folder}} |-> disk[<<folder, n>>]]

Written(disk, folder, files) ==
  [f \in {<<folder, n>> : n \in DOMAIN files} \cup DOMAIN disk |->
     IF f[1] = folder /\ f[2] \in DOMAIN files THEN files[f[2]] ELSE disk[f]]

CacheKey(trace, npus, offset) == <<trace, npus, offset>>

-----------------------------------------------------------------------------
(* _cache_store: a graph is kept when its trace comes for the second time. *)
FreshFilesOrOld(before, after) ==  \* variant: all files of the folder are taken
  after

FreshFiles(before, after) == Restrict(after, DOMAIN after \ DOMAIN before)

DropOldest(seq, n) == SubSeq(seq, n + 1, Len(seq))

Remembered(seen, key) ==
  LET all == Append(seen, key) IN DropOldest(all, IF Len(all) > MaxSeen THEN Len(all) - MaxSeen ELSE 0)

(* The fewest oldest entries whose going leaves the limit kept, or all but one. *)
Evicted(cache) ==
  LET enough == {n \in 0..(Len(cache) - 1) :
                   n = Len(cache) - 1 \/ CacheBytes(DropOldest(cache, n)) <= MaxBytes}
  IN  DropOldest(cache, Min(enough))

CacheStore(g, key, files) ==
  CASE key \notin ToSet(g.seen) -> [g EXCEPT !.seen = Remembered(@, key)]
    [] DOMAIN files = {} \/ BytesOf(files) > MaxBytes -> g
    [] OTHER -> [g EXCEPT !.cache = Evicted(Append(@, [key |-> key, files |-> files]))]

-----------------------------------------------------------------------------
Cached(g, key) == {i \in DOMAIN g.cache : g.cache[i].key = key}

MovedToEnd(cache, i) == Append(RemoveAt(cache, i), cache[i])

GenerateGraph(g, folder, trace, npus, offset) ==
  LET key    == CacheKey(trace, npus, offset)
      before == InFolder(g.disk, folder)
      disk   == Written(g.disk, folder, Convert(trace, npus, offset))
  IN  IF Cached(g, key) # {}
      THEN LET i == CHOOSE i \in Cached(g, key) : TRUE
           IN  [g EXCEPT !.disk = Written(@, folder, g.cache[i].files),
                         !.cache = MovedToEnd(@, i)]
      ELSE CacheStore([g EXCEPT !.disk = disk], key, FreshFiles(before, InFolder(disk, folder)))
=============================================================================
