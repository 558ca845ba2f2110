---------------------------- MODULE MainLoopProofs ----------------------------
(***************************************************************************)
(* What the main loop of __main__.py does with batches, once they are      *)
(* scheduled.  First from batches to graphs (BatchPipeline): every NPU     *)
(* finds the graph of its batch, GraphIsTheTrace.  Then from graphs to     *)
(* NPUs (Frontend): every NPU runs the batches of its instance in order,   *)
(* through the DP barrier too, RunInOrder.                                 *)
(***************************************************************************)
EXTENDS BatchPipeline, Frontend, QueueLemmas

-----------------------------------------------------------------------------
(* The cache. *)

(* An entry's files are what its trace is converted to. *)
FaithfulEntry(e) == e.files = Convert(e.key[1], e.key[2], e.key[3])

Faithful(cache) == \E E : cache \in Seq(E) /\ \A e \in E : FaithfulEntry(e)

LEMMA FaithfulAppend ==
  ASSUME NEW cache, Faithful(cache), NEW e, FaithfulEntry(e)
  PROVE  Faithful(Append(cache, e)) /\ Len(Append(cache, e)) \in Nat \ {0}
<1>1. PICK E : cache \in Seq(E) /\ \A x \in E : FaithfulEntry(x)
  BY DEF Faithful
<1> DEFINE F == E \cup {e}
<1>2. cache \in Seq(F) /\ e \in F /\ \A x \in F : FaithfulEntry(x)
  BY <1>1
<1> HIDE DEF F
<1>3. Append(cache, e) \in Seq(F) /\ Len(Append(cache, e)) = Len(cache) + 1 /\ Len(cache) \in Nat
  BY <1>2, AppendProperties, LenProperties
<1>4. QED
  BY <1>2, <1>3 DEF Faithful

LEMMA FaithfulElement ==
  ASSUME NEW cache, Faithful(cache), NEW i \in DOMAIN cache
  PROVE  FaithfulEntry(cache[i])
<1>1. PICK E : cache \in Seq(E) /\ \A x \in E : FaithfulEntry(x)
  BY DEF Faithful
<1>2. i \in 1..Len(cache)
  BY <1>1, LenProperties
<1>3. cache[i] \in E
  BY <1>1, <1>2, ElementOfSeq
<1>4. QED
  BY <1>1, <1>3

(* Dropping or moving entries keeps them. *)
LEMMA FaithfulEvicted ==
  ASSUME NEW cache, Faithful(cache), Len(cache) \in Nat \ {0}
  PROVE  Faithful(Evicted(cache))
<1> DEFINE len == Len(cache)
<1> DEFINE enough == {n \in 0..(len - 1) :
                        n = len - 1 \/ CacheBytes(DropOldest(cache, n)) <= MaxBytes}
<1>1. PICK E : cache \in Seq(E) /\ \A x \in E : FaithfulEntry(x)
  BY DEF Faithful
<1>2. len \in Nat \ {0} /\ \A i \in 1..len : cache[i] \in E
  BY <1>1, ElementOfSeq
<1>3. Evicted(cache) = DropOldest(cache, Min(enough))
  BY DEF Evicted
<1>4. Min(enough) \in enough
  <2>1. enough \in SUBSET Nat /\ len - 1 \in enough
    BY <1>2
  <2> HIDE DEF enough
  <2>2. \E m \in enough : \A i \in enough : m <= i
    BY <2>1, LeastElement
  <2>3. QED
    BY <2>2 DEF Min
<1>5. Min(enough) \in 0..(len - 1)
  BY <1>4
<1> DEFINE n == Min(enough)
<1> HIDE DEF enough, n, len
<1>6. n + 1 \in Int /\ len \in Int /\ \A i \in (n + 1)..len : i \in 1..len
  BY ONLY <1>2, <1>5 DEF n
<1>7. SubSeq(cache, n + 1, len) \in Seq(E)
  BY <1>2, <1>6, SubSeqProperties
<1>8. QED
  BY <1>1, <1>3, <1>7 DEF Faithful, DropOldest, n, len

LEMMA FaithfulMoved ==
  ASSUME NEW cache, Faithful(cache), NEW i \in DOMAIN cache
  PROVE  Faithful(MovedToEnd(cache, i))
<1>1. PICK E : cache \in Seq(E) /\ \A x \in E : FaithfulEntry(x)
  BY DEF Faithful
<1> DEFINE len == Len(cache)
<1> DEFINE a == SubSeq(cache, 1, i - 1)
<1> DEFINE b == SubSeq(cache, i + 1, len)
<1>2. len \in Nat /\ i \in 1..len /\ \A j \in 1..len : cache[j] \in E
  BY <1>1, LenProperties, ElementOfSeq
<1> HIDE DEF len
<1>3. /\ \A j \in 1..(i - 1) : j \in 1..len
      /\ \A j \in (i + 1)..len : j \in 1..len
      /\ i - 1 \in Int /\ i + 1 \in Int /\ 1 \in Int /\ len \in Int
  BY ONLY <1>2
<1>4. a \in Seq(E) /\ b \in Seq(E)
  BY <1>2, <1>3, SubSeqProperties
<1>5. MovedToEnd(cache, i) = Append(a \o b, cache[i])
  BY DEF MovedToEnd, RemoveAt, len
<1> HIDE DEF a, b
<1>6. a \o b \in Seq(E) /\ cache[i] \in E
  BY <1>2, <1>4, ConcatProperties
<1>7. Faithful(a \o b)
  BY <1>1, <1>6 DEF Faithful
<1>8. QED
  BY <1>1, <1>5, <1>6, <1>7, FaithfulAppend

-----------------------------------------------------------------------------
(* The files. *)

NpusFrom(offset, npus) == offset..(offset + npus - 1)
PlacesOf(folder, offset, npus) == {<<folder, n>> : n \in NpusFrom(offset, npus)}

(* Files are named by folder and NPU, and cached graphs are faithful. *)
FilesNamed(disk) == \A f \in DOMAIN disk : f = <<f[1], f[2]>>

GraphsOK(g) ==
  /\ g = [disk |-> g.disk, seen |-> g.seen, cache |-> g.cache]
  /\ FilesNamed(g.disk) /\ Faithful(g.cache)

(* Files were added at these places, and nothing else has changed. *)
Added(before, after, places) ==
  /\ DOMAIN after = DOMAIN before \cup places
  /\ \A f \in DOMAIN before : after[f] = before[f]

LEMMA GraphsExcept ==
  ASSUME NEW g, g = [disk |-> g.disk, seen |-> g.seen, cache |-> g.cache],
         NEW disk, NEW seen, NEW cache
  PROVE  /\ [g EXCEPT !.disk = disk] = [disk |-> disk, seen |-> g.seen, cache |-> g.cache]
         /\ [g EXCEPT !.seen = seen] = [disk |-> g.disk, seen |-> seen, cache |-> g.cache]
         /\ [g EXCEPT !.cache = cache] = [disk |-> g.disk, seen |-> g.seen, cache |-> cache]
         /\ [g EXCEPT !.disk = disk, !.cache = cache]
              = [disk |-> disk, seen |-> g.seen, cache |-> cache]
<1> DEFINE fields == {"disk", "seen", "cache"}
<1>1. DOMAIN g = fields
  OBVIOUS
<1>2. ASSUME NEW h, h = [i \in fields |-> h[i]]
      PROVE  h = [disk |-> h.disk, seen |-> h.seen, cache |-> h.cache]
  BY <1>2
<1>3. [g EXCEPT !.disk = disk] = [disk |-> disk, seen |-> g.seen, cache |-> g.cache]
  <2> DEFINE h == [g EXCEPT !.disk = disk]
  <2>1. h = [i \in fields |-> h[i]] /\ h.disk = disk /\ h.seen = g.seen /\ h.cache = g.cache
    BY <1>1
  <2> HIDE DEF h, fields
  <2>2. h = [disk |-> disk, seen |-> g.seen, cache |-> g.cache]
    BY <1>2, <2>1
  <2>3. QED
    BY <2>2 DEF h
<1>4. [g EXCEPT !.seen = seen] = [disk |-> g.disk, seen |-> seen, cache |-> g.cache]
  <2> DEFINE h == [g EXCEPT !.seen = seen]
  <2>1. h = [i \in fields |-> h[i]] /\ h.disk = g.disk /\ h.seen = seen /\ h.cache = g.cache
    BY <1>1
  <2> HIDE DEF h, fields
  <2>2. h = [disk |-> g.disk, seen |-> seen, cache |-> g.cache]
    BY <1>2, <2>1
  <2>3. QED
    BY <2>2 DEF h
<1>5. [g EXCEPT !.cache = cache] = [disk |-> g.disk, seen |-> g.seen, cache |-> cache]
  <2> DEFINE h == [g EXCEPT !.cache = cache]
  <2>1. h = [i \in fields |-> h[i]] /\ h.disk = g.disk /\ h.seen = g.seen /\ h.cache = cache
    BY <1>1
  <2> HIDE DEF h, fields
  <2>2. h = [disk |-> g.disk, seen |-> g.seen, cache |-> cache]
    BY <1>2, <2>1
  <2>3. QED
    BY <2>2 DEF h
<1>6. [g EXCEPT !.disk = disk, !.cache = cache] = [disk |-> disk, seen |-> g.seen, cache |-> cache]
  <2> DEFINE h == [g EXCEPT !.disk = disk, !.cache = cache]
  <2>1. h = [i \in fields |-> h[i]] /\ h.disk = disk /\ h.seen = g.seen /\ h.cache = cache
    BY <1>1
  <2> HIDE DEF h, fields
  <2>2. h = [disk |-> disk, seen |-> g.seen, cache |-> cache]
    BY <1>2, <2>1
  <2>3. QED
    BY <2>2 DEF h
<1>7. QED
  BY <1>3, <1>4, <1>5, <1>6

LEMMA ConvertFiles ==
  ASSUME NEW trace, NEW npus, NEW offset
  PROVE  LET files == Convert(trace, npus, offset)
         IN  /\ DOMAIN files = NpusFrom(offset, npus)
             /\ files = [n \in NpusFrom(offset, npus) |-> files[n]]
BY DEF Convert, NpusFrom

(* The files of one graph have been written. *)
Wrote(disk, after, folder, trace, npus, offset) ==
  /\ FilesNamed(after)
  /\ DOMAIN after = DOMAIN disk \cup PlacesOf(folder, offset, npus)
  /\ \A n \in NpusFrom(offset, npus) : after[<<folder, n>>] = Convert(trace, npus, offset)[n]
  /\ \A f \in DOMAIN disk : f \notin PlacesOf(folder, offset, npus) => after[f] = disk[f]

LEMMA WrittenFiles ==
  ASSUME NEW disk, FilesNamed(disk), NEW folder, NEW trace, NEW npus, NEW offset
  PROVE  Wrote(disk, Written(disk, folder, Convert(trace, npus, offset)),
               folder, trace, npus, offset)
<1> DEFINE files == Convert(trace, npus, offset)
<1> DEFINE N == NpusFrom(offset, npus)
<1> DEFINE places == PlacesOf(folder, offset, npus)
<1> DEFINE after == Written(disk, folder, files)
<1>1. DOMAIN files = N
  BY ConvertFiles
<1>2. places = {<<folder, n>> : n \in N}
  BY DEF PlacesOf
<1>3. after = [f \in places \cup DOMAIN disk |->
                 IF f[1] = folder /\ f[2] \in N THEN files[f[2]] ELSE disk[f]]
  BY <1>1, <1>2 DEF Written
<1> HIDE DEF files, N, places, after
<1>4. DOMAIN after = DOMAIN disk \cup places
  BY <1>3
<1>5. FilesNamed(after)
  BY <1>2, <1>4 DEF FilesNamed
<1>6. ASSUME NEW n \in N PROVE after[<<folder, n>>] = files[n]
  <2>1. <<folder, n>> \in places
    BY <1>2
  <2> DEFINE f == <<folder, n>>
  <2>2. f[1] = folder /\ f[2] = n
    OBVIOUS
  <2> HIDE DEF f
  <2>3. after[f] = files[f[2]]
    BY <1>3, <2>1, <2>2 DEF f
  <2>4. QED
    BY <2>2, <2>3 DEF f
<1>7. ASSUME NEW f \in DOMAIN disk, f \notin places PROVE after[f] = disk[f]
  <2>1. f = <<f[1], f[2]>>
    BY DEF FilesNamed
  <2>2. ~(f[1] = folder /\ f[2] \in N)
    BY <1>2, <1>7, <2>1
  <2>3. QED
    BY <1>3, <2>2
<1>8. QED
  BY <1>4, <1>5, <1>6, <1>7 DEF after, files, N, places, Wrote

LEMMA FolderFiles ==
  ASSUME NEW disk, FilesNamed(disk), NEW folder
  PROVE  /\ \A n : n \in DOMAIN InFolder(disk, folder) <=> <<folder, n>> \in DOMAIN disk
         /\ \A n \in DOMAIN InFolder(disk, folder) :
              InFolder(disk, folder)[n] = disk[<<folder, n>>]
<1> DEFINE K == {f[2] : f \in {f \in DOMAIN disk : f[1] = folder}}
<1>1. InFolder(disk, folder) = [n \in K |-> disk[<<folder, n>>]]
  BY DEF InFolder
<1>2. ASSUME NEW n PROVE n \in K <=> <<folder, n>> \in DOMAIN disk
  <2>1. ASSUME n \in K PROVE <<folder, n>> \in DOMAIN disk
    <3>1. PICK f \in DOMAIN disk : f[1] = folder /\ f[2] = n
      BY <2>1
    <3>2. QED
      BY <3>1 DEF FilesNamed
  <2>2. ASSUME <<folder, n>> \in DOMAIN disk PROVE n \in K
    <3> DEFINE f == <<folder, n>>
    <3>1. f[1] = folder /\ f[2] = n /\ f \in DOMAIN disk
      BY <2>2
    <3> HIDE DEF f
    <3>2. QED
      BY <3>1
  <2>3. QED
    BY <2>1, <2>2
<1> HIDE DEF K
<1>3. QED
  BY <1>1, <1>2

(* What is new in the folder is just what the trace is converted to. *)
LEMMA FreshIsConverted ==
  ASSUME NEW disk, FilesNamed(disk), NEW folder, NEW trace, NEW npus, NEW offset,
         PlacesOf(folder, offset, npus) \cap DOMAIN disk = {},
         NEW after, Wrote(disk, after, folder, trace, npus, offset)
  PROVE  FreshFiles(InFolder(disk, folder), InFolder(after, folder))
           = Convert(trace, npus, offset)
<1> DEFINE files == Convert(trace, npus, offset)
<1> DEFINE N == NpusFrom(offset, npus)
<1> DEFINE places == PlacesOf(folder, offset, npus)
<1> DEFINE one == InFolder(disk, folder)
<1> DEFINE two == InFolder(after, folder)
<1>1. /\ FilesNamed(after) /\ DOMAIN after = DOMAIN disk \cup places
      /\ \A n \in N : after[<<folder, n>>] = files[n]
  BY DEF Wrote
<1>2. files = [n \in N |-> files[n]]
  BY ConvertFiles
<1>3. \A n : <<folder, n>> \in places <=> n \in N
  <2>1. ASSUME NEW n, <<folder, n>> \in places PROVE n \in N
    <3>1. PICK m \in N : <<folder, n>> = <<folder, m>>
      BY <2>1 DEF PlacesOf
    <3>2. QED
      BY <3>1
  <2>2. QED
    BY <2>1 DEF PlacesOf
<1> HIDE DEF files, N, places
<1>4. /\ \A n : n \in DOMAIN one <=> <<folder, n>> \in DOMAIN disk
      /\ \A n : n \in DOMAIN two <=> <<folder, n>> \in DOMAIN after
      /\ \A n \in DOMAIN two : two[n] = after[<<folder, n>>]
  BY <1>1, FolderFiles
<1> HIDE DEF one, two
<1>5. DOMAIN two \ DOMAIN one = N
  <2>1. ASSUME NEW n PROVE n \in DOMAIN two /\ n \notin DOMAIN one <=> n \in N
    BY <1>1, <1>3, <1>4 DEF places
  <2>2. QED
    BY <2>1
<1>6. \A n \in N : two[n] = files[n]
  BY <1>1, <1>4, <1>5
<1>7. FreshFiles(one, two) = [n \in N |-> two[n]]
  BY <1>5 DEF FreshFiles, Restrict
<1>8. FreshFiles(one, two) = files
  BY <1>2, <1>6, <1>7
<1>9. QED
  BY <1>8 DEF one, two, files

(* A graph is found for each NPU that an order names. *)
HasGraph(disk, h) ==
  \A n \in NpusFrom(h.offset, h.npus) :
    <<h.folder, n>> \in DOMAIN disk /\ disk[<<h.folder, n>>] = Convert(h.trace, h.npus, h.offset)[n]

FilesOf(h) == PlacesOf(h.folder, h.offset, h.npus)

(* Only what is remembered has changed. *)
Stored(g, new) == GraphsOK(new) /\ new.disk = g.disk

LEMMA StoreKeeps ==
  ASSUME NEW g, GraphsOK(g), NEW trace, NEW npus, NEW offset
  PROVE  Stored(g, CacheStore(g, CacheKey(trace, npus, offset), Convert(trace, npus, offset)))
<1> DEFINE key == CacheKey(trace, npus, offset)
<1> DEFINE files == Convert(trace, npus, offset)
<1> DEFINE e == [key |-> key, files |-> files]
<1> DEFINE new == CacheStore(g, key, files)
<1> DEFINE more == Evicted(Append(g.cache, e))
<1> DEFINE seen == Remembered(g.seen, key)
<1>1. FaithfulEntry(e)
  BY DEF FaithfulEntry, CacheKey
<1>2. Faithful(more)
  <2> HIDE DEF e
  <2>1. Faithful(Append(g.cache, e)) /\ Len(Append(g.cache, e)) \in Nat \ {0}
    BY <1>1, FaithfulAppend DEF GraphsOK
  <2>2. QED
    BY <2>1, FaithfulEvicted
<1>3. new = g \/ new = [g EXCEPT !.seen = seen] \/ new = [g EXCEPT !.cache = more]
  BY DEF CacheStore
<1> HIDE DEF more, seen, new
<1>4. /\ g = [disk |-> g.disk, seen |-> g.seen, cache |-> g.cache]
      /\ FilesNamed(g.disk) /\ Faithful(g.cache)
  BY DEF GraphsOK
<1>5. CASE new = g
  BY <1>5 DEF new, Stored
<1>6. CASE new = [g EXCEPT !.seen = seen]
  <2>1. new = [disk |-> g.disk, seen |-> seen, cache |-> g.cache]
    BY <1>4, <1>6, GraphsExcept
  <2>2. new.disk = g.disk /\ new.seen = seen /\ new.cache = g.cache
    BY <2>1
  <2>3. QED
    BY <1>4, <2>1, <2>2 DEF GraphsOK, new, Stored
<1>7. CASE new = [g EXCEPT !.cache = more]
  <2>1. new = [disk |-> g.disk, seen |-> g.seen, cache |-> more]
    BY <1>4, <1>7, GraphsExcept
  <2>2. new.disk = g.disk /\ new.seen = g.seen /\ new.cache = more
    BY <2>1
  <2>3. QED
    BY <1>2, <1>4, <2>1, <2>2 DEF GraphsOK, new, Stored
<1>8. QED
  BY <1>3, <1>5, <1>6, <1>7

(* generate_graph adds the files of its order, converted or from the cache.*)
MadeFrom(g, new, h) ==
  GraphsOK(new) /\ Added(g.disk, new.disk, FilesOf(h)) /\ HasGraph(new.disk, h)

LEMMA MadeOK ==
  ASSUME NEW g, GraphsOK(g), NEW h, FilesOf(h) \cap DOMAIN g.disk = {}
  PROVE  MadeFrom(g, Made(g, h), h)
<1> DEFINE key == CacheKey(h.trace, h.npus, h.offset)
<1> DEFINE files == Convert(h.trace, h.npus, h.offset)
<1> DEFINE disk == Written(g.disk, h.folder, files)
<1> DEFINE new == Made(g, h)
<1>1. /\ g = [disk |-> g.disk, seen |-> g.seen, cache |-> g.cache]
      /\ FilesNamed(g.disk) /\ Faithful(g.cache)
  BY DEF GraphsOK
<1>2. Wrote(g.disk, disk, h.folder, h.trace, h.npus, h.offset)
  BY <1>1, WrittenFiles
<1>3. /\ FilesNamed(disk) /\ DOMAIN disk = DOMAIN g.disk \cup FilesOf(h)
      /\ \A n \in NpusFrom(h.offset, h.npus) : disk[<<h.folder, n>>] = files[n]
      /\ \A f \in DOMAIN g.disk : f \notin FilesOf(h) => disk[f] = g.disk[f]
  <2> HIDE DEF disk
  <2>1. QED
    BY <1>2 DEF Wrote, FilesOf
<1>4. FreshFiles(InFolder(g.disk, h.folder), InFolder(disk, h.folder)) = files
  <2> HIDE DEF disk
  <2>1. QED
    BY <1>1, <1>2, FreshIsConverted DEF FilesOf
<1>5. Added(g.disk, disk, FilesOf(h))
  <2> HIDE DEF disk
  <2>1. QED
    BY <1>3 DEF Added
<1>6. HasGraph(disk, h)
  <2> HIDE DEF disk
  <2>1. \A n \in NpusFrom(h.offset, h.npus) : <<h.folder, n>> \in FilesOf(h)
    BY DEF FilesOf, PlacesOf
  <2>2. QED
    BY <1>3, <2>1 DEF HasGraph
<1>7. CASE Cached(g, key) # {}
  <2> DEFINE i == CHOOSE i \in Cached(g, key) : TRUE
  <2> DEFINE moved == MovedToEnd(g.cache, i)
  <2>1. i \in DOMAIN g.cache /\ g.cache[i].key = key
    <3>1. i \in Cached(g, key)
      BY <1>7
    <3> HIDE DEF i
    <3>2. QED
      BY <3>1 DEF Cached
  <2>2. new = [g EXCEPT !.disk = Written(g.disk, h.folder, g.cache[i].files),
                        !.cache = moved]
    BY <1>7 DEF Made, GenerateGraph
  <2> HIDE DEF i
  <2>3. g.cache[i].files = files
    <3>1. FaithfulEntry(g.cache[i])
      BY <1>1, <2>1, FaithfulElement
    <3>2. QED
      BY <2>1, <3>1 DEF FaithfulEntry, CacheKey
  <2>4. Faithful(moved)
    BY <1>1, <2>1, FaithfulMoved
  <2>5. new = [g EXCEPT !.disk = disk, !.cache = moved]
    BY <2>2, <2>3
  <2> HIDE DEF moved, disk, new
  <2>6. new = [disk |-> disk, seen |-> g.seen, cache |-> moved]
    BY <1>1, <2>5, GraphsExcept
  <2>7. new.disk = disk /\ new.seen = g.seen /\ new.cache = moved
    BY <2>6
  <2>8. GraphsOK(new)
    BY <1>3, <2>4, <2>6, <2>7 DEF GraphsOK
  <2>9. QED
    BY <1>5, <1>6, <2>7, <2>8 DEF new, MadeFrom
<1>8. CASE ~(Cached(g, key) # {})
  <2> DEFINE mid == [g EXCEPT !.disk = disk]
  <2>1. new = CacheStore(mid, key,
                         FreshFiles(InFolder(g.disk, h.folder), InFolder(disk, h.folder)))
    BY <1>8 DEF Made, GenerateGraph
  <2>2. new = CacheStore(mid, key, files)
    BY <1>4, <2>1
  <2> HIDE DEF disk, new
  <2>3. mid = [disk |-> disk, seen |-> g.seen, cache |-> g.cache]
    BY <1>1, GraphsExcept
  <2> HIDE DEF mid
  <2>4. mid.disk = disk /\ mid.seen = g.seen /\ mid.cache = g.cache
    BY <2>3
  <2>5. GraphsOK(mid)
    BY <1>1, <1>3, <2>3, <2>4 DEF GraphsOK
  <2>6. GraphsOK(new) /\ new.disk = mid.disk
    BY <2>2, <2>5, StoreKeeps DEF Stored
  <2>7. QED
    BY <1>5, <1>6, <2>4, <2>6 DEF new, MadeFrom
<1>9. QED
  BY <1>7, <1>8

(* What has been added stays. *)
LEMMA HasGraphStays ==
  ASSUME NEW before, NEW after, NEW places, Added(before, after, places), NEW h, HasGraph(before, h)
  PROVE  HasGraph(after, h)
BY DEF Added, HasGraph

-----------------------------------------------------------------------------
(* One order after the other. *)

MadeRun(c, g, orders, n) ==
  c = [k \in 0..n |-> IF k = 0 THEN g ELSE Made(c[k - 1], orders[k])]

LEMMA MadeRunExists ==
  ASSUME NEW g, NEW orders, NEW n \in Nat
  PROVE  \E c : MadeRun(c, g, orders, n)
<1> DEFINE M == {m \in Nat : ~\E c : MadeRun(c, g, orders, m)}
<1>1. SUFFICES ASSUME M # {} PROVE FALSE
  BY <1>1
<1>2. PICK m \in M : \A i \in M : m <= i
  <2>1. M \in SUBSET Nat
    OBVIOUS
  <2>2. QED
    BY <1>1, <2>1, LeastElement
<1>3. m \in Nat /\ ~\E c : MadeRun(c, g, orders, m)
  BY <1>2
<1>4. CASE m = 0
  <2>1. MadeRun([k \in 0..0 |-> g], g, orders, 0)
    BY DEF MadeRun
  <2>2. QED
    BY <1>3, <1>4, <2>1
<1>5. CASE m # 0
  <2>1. m - 1 \in Nat /\ m - 1 \notin M
    <3> HIDE DEF M
    <3>1. QED
      BY <1>3, <1>2, <1>5
  <2>2. PICK c : MadeRun(c, g, orders, m - 1)
    BY <2>1
  <2> DEFINE d == [k \in 0..m |-> IF k < m THEN c[k] ELSE Made(c[m - 1], orders[m])]
  <2>3. ASSUME NEW k \in 0..m
        PROVE  d[k] = IF k = 0 THEN g ELSE Made(d[k - 1], orders[k])
    <3>1. CASE k = m
      BY <1>5, <2>1, <3>1
    <3>2. CASE k # m
      <4>1. k \in 0..(m - 1) /\ d[k] = c[k]
        BY <1>3, <3>2
      <4>2. c[k] = IF k = 0 THEN g ELSE Made(c[k - 1], orders[k])
        BY <2>2, <4>1 DEF MadeRun
      <4>3. k # 0 => d[k - 1] = c[k - 1]
        BY <1>3, <4>1
      <4>4. QED
        BY <4>1, <4>2, <4>3
    <3>3. QED
      BY <3>1, <3>2
  <2>4. d = [k \in 0..m |-> d[k]]
    OBVIOUS
  <2> HIDE DEF d
  <2>5. MadeRun(d, g, orders, m)
    BY <2>3, <2>4 DEF MadeRun
  <2>6. QED
    BY <1>3, <2>5
<1>6. QED
  BY <1>4, <1>5

(* The orders of a batch or round: none names a place of another, nor one  *)
(* where there is a file.                                                  *)
Orderly(disk, orders) ==
  /\ Len(orders) \in Nat
  /\ \A k \in 1..Len(orders) : FilesOf(orders[k]) \cap DOMAIN disk = {}
  /\ \A j, k \in 1..Len(orders) : j # k => FilesOf(orders[j]) \cap FilesOf(orders[k]) = {}

PlacesTo(orders, n) == UNION {FilesOf(orders[k]) : k \in 1..n}

(* After the first n orders. *)
MadeTo(g, orders, now, n) ==
  /\ GraphsOK(now) /\ Added(g.disk, now.disk, PlacesTo(orders, n))
  /\ \A k \in 1..n : HasGraph(now.disk, orders[k])

LEMMA MadeToNext ==
  ASSUME NEW g, NEW orders, Orderly(g.disk, orders), NEW n \in 1..Len(orders), NEW now,
         MadeTo(g, orders, now, n - 1)
  PROVE  MadeTo(g, orders, Made(now, orders[n]), n)
<1> DEFINE h == orders[n]
<1> DEFINE new == Made(now, h)
<1>1. n \in Nat \ {0} /\ n \in 1..Len(orders) /\ Len(orders) \in Nat
  BY DEF Orderly
<1>2. \A k \in 1..(n - 1) : k \in 1..Len(orders) /\ k # n
  BY ONLY <1>1
<1>3. \A k \in 1..n : k = n \/ k \in 1..(n - 1)
  BY ONLY <1>1
<1>4. 1..n = (1..(n - 1)) \cup {n}
  BY ONLY <1>1
<1>5. PlacesTo(orders, n) = PlacesTo(orders, n - 1) \cup FilesOf(h)
  BY <1>4 DEF PlacesTo
<1>6. /\ GraphsOK(now) /\ Added(g.disk, now.disk, PlacesTo(orders, n - 1))
      /\ \A k \in 1..(n - 1) : HasGraph(now.disk, orders[k])
  BY DEF MadeTo
<1>7. FilesOf(h) \cap DOMAIN now.disk = {}
  <2>1. FilesOf(h) \cap PlacesTo(orders, n - 1) = {}
    BY <1>2 DEF Orderly, PlacesTo
  <2>2. FilesOf(h) \cap DOMAIN g.disk = {}
    BY DEF Orderly
  <2>3. QED
    BY <1>6, <2>1, <2>2 DEF Added
<1>8. GraphsOK(new) /\ Added(now.disk, new.disk, FilesOf(h)) /\ HasGraph(new.disk, h)
  <2> HIDE DEF h
  <2>1. QED
    BY <1>6, <1>7, MadeOK DEF MadeFrom
<1> HIDE DEF new
<1>9. Added(g.disk, new.disk, PlacesTo(orders, n))
  BY <1>5, <1>6, <1>8 DEF Added
<1>10. \A k \in 1..n : HasGraph(new.disk, orders[k])
  BY <1>3, <1>6, <1>8, HasGraphStays
<1>11. QED
  BY <1>8, <1>9, <1>10 DEF MadeTo, new

LEMMA AllMadeOK ==
  ASSUME NEW g, GraphsOK(g), NEW orders, Orderly(g.disk, orders)
  PROVE  MadeTo(g, orders, AllMade(g, orders), Len(orders))
<1> DEFINE n == Len(orders)
<1> DEFINE c == CHOOSE c : MadeRun(c, g, orders, n)
<1>1. n \in Nat
  BY DEF Orderly
<1>2. AllMade(g, orders) = c[n]
  BY DEF AllMade, MadeRun
<1>3. MadeRun(c, g, orders, n)
  <2>1. \E d : MadeRun(d, g, orders, n)
    BY <1>1, MadeRunExists
  <2>2. QED
    BY <2>1
<1> HIDE DEF c
<1>4. ASSUME NEW k \in 0..n
      PROVE  c[k] = IF k = 0 THEN g ELSE Made(c[k - 1], orders[k])
  BY <1>3 DEF MadeRun
<1> DEFINE M == {k \in 0..n : ~MadeTo(g, orders, c[k], k)}
<1>5. M = {}
  <2>1. SUFFICES ASSUME M # {} PROVE FALSE
    BY <2>1
  <2>2. M \in SUBSET Nat
    BY <1>1
  <2>3. PICK m \in M : \A i \in M : m <= i
    BY <2>1, <2>2, LeastElement
  <2>4. m \in 0..n /\ ~MadeTo(g, orders, c[m], m)
    BY <2>3
  <2>5. m # 0
    <3>1. MadeTo(g, orders, g, 0)
      <4>1. 1..0 = {}
        OBVIOUS
      <4>2. PlacesTo(orders, 0) = {}
        BY <4>1 DEF PlacesTo
      <4>3. QED
        BY <4>1, <4>2 DEF MadeTo, Added
    <3>2. c[0] = g
      BY <1>1, <1>4
    <3>3. QED
      BY <2>4, <3>1, <3>2
  <2>6. m - 1 \in 0..n /\ ~(m <= m - 1) /\ m \in 1..n
    BY ONLY <1>1, <2>4, <2>5
  <2>7. m - 1 \notin M
    <3> HIDE DEF M
    <3>1. QED
      BY <2>3, <2>6
  <2>8. MadeTo(g, orders, c[m - 1], m - 1)
    BY <2>6, <2>7
  <2>9. MadeTo(g, orders, Made(c[m - 1], orders[m]), m)
    BY <2>6, <2>8, MadeToNext
  <2>10. QED
    BY <1>4, <2>4, <2>5, <2>9
<1>6. n \in 0..n
  BY <1>1
<1>7. QED
  BY <1>2, <1>5, <1>6

-----------------------------------------------------------------------------
(* The run. *)

(* The folders of the n-th batch of an instance, or of the n-th round. *)
Folders(n) == {<<"dp", n>>} \cup {<<"instance", i, n>> : i \in Instances}

(* No file is in the folder of a batch or round to come. *)
Free(disk, n) == \A k \in Nat : k >= n => \A f \in DOMAIN disk : f[1] \notin Folders(k)

SetupOK == {cx.tp, cx.pp} \subseteq Nat \ {0} /\ setup.last \in Nat

HandedOK ==
  /\ \E E : handed \in Seq(E)
  /\ \A h \in ToSet(handed) : HasGraph(graphs.disk, h)

GraphInv ==
  /\ SetupOK /\ served \in Nat
  /\ GraphsOK(graphs) /\ Free(graphs.disk, served)
  /\ HandedOK

LEMMA FoldersDiffer ==
  ASSUME NEW n \in Nat
  PROVE  /\ EventFolder \notin Folders(n)
         /\ \A k \in Nat \ {n} : Folders(k) \cap Folders(n) = {}
<1>1. \A i : <<"instance", i, n>>[1] = "instance" /\ <<"instance", i, n>>[3] = n
  OBVIOUS
<1>2. <<"dp", n>>[1] = "dp" /\ <<"dp", n>>[2] = n /\ EventFolder[1] = "event_handler"
  BY DEF EventFolder
<1>3. \A f \in Folders(n) : \/ f[1] = "dp" /\ f[2] = n
                            \/ f[1] = "instance" /\ f[3] = n
  BY <1>1, <1>2 DEF Folders
<1>4. \A k \in Nat : \A f \in Folders(k) : \/ f[1] = "dp" /\ f[2] = k
                                           \/ f[1] = "instance" /\ f[3] = k
  BY DEF Folders
<1>5. EventFolder \notin Folders(n)
  BY <1>2, <1>3
<1>6. ASSUME NEW k \in Nat \ {n}, NEW f \in Folders(k), f \in Folders(n)
      PROVE  FALSE
  BY <1>3, <1>4, <1>6
<1>7. QED
  BY <1>5, <1>6

(* Files in the folders of this batch leave those to come free. *)
LEMMA FreeAfter ==
  ASSUME NEW n \in Nat, NEW before, NEW after, NEW places,
         Free(before, n), Added(before, after, places), \A f \in places : f[1] \in Folders(n)
  PROVE  Free(after, n + 1)
<1>1. SUFFICES ASSUME NEW k \in Nat, k >= n + 1, NEW f \in DOMAIN after
               PROVE  f[1] \notin Folders(k)
  BY DEF Free
<1>2. k >= n /\ k # n
  BY <1>1
<1>3. CASE f \in DOMAIN before
  BY <1>2, <1>3 DEF Free
<1>4. CASE f \in places
  BY <1>2, <1>4, FoldersDiffer
<1>5. QED
  BY <1>3, <1>4 DEF Added

(* Two instances have no NPU in common. *)
LEMMA InstancesApart ==
  ASSUME NEW i \in Int, NEW j \in Int, i # j, NEW npus \in Nat \ {0}
  PROVE  NpusFrom((i - 1) * npus, npus) \cap NpusFrom((j - 1) * npus, npus) = {}
<1> DEFINE a == npus * (i - 1)
<1> DEFINE b == npus * (j - 1)
<1>1. a \in Int /\ b \in Int /\ a = (i - 1) * npus /\ b = (j - 1) * npus
  OBVIOUS
<1>2. SUFFICES ASSUME NEW n \in NpusFrom(a, npus), n \in NpusFrom(b, npus) PROVE FALSE
  BY <1>1
<1>3. n \in a..(a + npus - 1) /\ n \in b..(b + npus - 1)
  BY <1>2 DEF NpusFrom
<1> HIDE DEF a, b
<1>4. a < b + npus /\ b < a + npus
  BY ONLY <1>1, <1>3, npus \in Nat
<1>5. i - 1 \in Int /\ j - 1 \in Int /\ npus \in Int /\ npus >= 1
  OBVIOUS
<1>6. i - 1 <= j - 1
  BY <1>4, <1>5, ProductOrder DEF a, b
<1>7. j - 1 <= i - 1
  BY <1>4, <1>5, ProductOrder DEF a, b
<1>8. QED
  BY ONLY <1>6, <1>7, i \in Int, j \in Int, i # j

LEMMA PlacesInFolder ==
  ASSUME NEW h
  PROVE  \A f \in FilesOf(h) : f[1] = h.folder /\ f[2] \in NpusFrom(h.offset, h.npus)
BY DEF FilesOf, PlacesOf

(* The orders of one batch or round, in folders of their own. *)
LEMMA ServeKeeps ==
  ASSUME GraphInv, NEW orders, NEW E, orders \in Seq(E),
         \A k \in 1..Len(orders) : orders[k].folder \in Folders(served),
         \A j, k \in 1..Len(orders) : j # k => FilesOf(orders[j]) \cap FilesOf(orders[k]) = {},
         Serve(orders)
  PROVE  GraphInv'
<1> DEFINE len == Len(orders)
<1> DEFINE disk == graphs.disk
<1> DEFINE new == AllMade(graphs, orders)
<1>1. /\ graphs' = new /\ handed' = handed \o orders
      /\ served' = served + 1 /\ setup' = setup
  BY DEF Serve
<1>2. /\ SetupOK /\ served \in Nat /\ GraphsOK(graphs) /\ Free(disk, served) /\ HandedOK
  BY DEF GraphInv
<1>3. len \in Nat
  BY LenProperties
<1>4. ASSUME NEW k \in 1..len, NEW f \in FilesOf(orders[k])
      PROVE  f[1] \in Folders(served)
  BY PlacesInFolder
<1>5. Orderly(disk, orders)
  <2>1. ASSUME NEW k \in 1..len PROVE FilesOf(orders[k]) \cap DOMAIN disk = {}
    <3>1. \A f \in DOMAIN disk : f[1] \notin Folders(served)
      BY <1>2 DEF Free
    <3>2. QED
      BY <1>4, <3>1
  <2>2. QED
    BY <1>3, <2>1 DEF Orderly
<1>6. MadeTo(graphs, orders, new, len)
  <2> HIDE DEF len, new, disk
  <2>1. QED
    BY <1>2, <1>5, AllMadeOK DEF new, len, disk
<1> HIDE DEF new
<1>7. /\ GraphsOK(new) /\ Added(disk, new.disk, PlacesTo(orders, len))
      /\ \A k \in 1..len : HasGraph(new.disk, orders[k])
  BY <1>6 DEF MadeTo
<1>8. Free(new.disk, served + 1)
  <2>1. \A f \in PlacesTo(orders, len) : f[1] \in Folders(served)
    BY <1>4 DEF PlacesTo
  <2> HIDE DEF len, disk
  <2>2. QED
    BY <1>2, <1>7, <2>1, FreeAfter
<1>9. PICK F : handed \in Seq(F)
  BY <1>2 DEF HandedOK
<1>10. handed \in Seq(E \cup F) /\ orders \in Seq(E \cup F)
  BY <1>9
<1>11. /\ handed \o orders \in Seq(E \cup F)
       /\ ToSet(handed \o orders) = ToSet(handed) \cup ToSet(orders)
  BY <1>10, ConcatProperties, ConcatElements
<1>12. ASSUME NEW h \in ToSet(handed \o orders) PROVE HasGraph(new.disk, h)
  <2>1. CASE h \in ToSet(handed)
    <3>1. HasGraph(disk, h)
      BY <1>2, <2>1 DEF HandedOK
    <3>2. QED
      BY <1>7, <3>1, HasGraphStays
  <2>2. CASE h \in ToSet(orders)
    <3>1. PICK k \in DOMAIN orders : h = orders[k]
      BY <2>2 DEF ToSet
    <3>2. k \in 1..len
      BY LenProperties
    <3>3. QED
      BY <1>7, <3>1, <3>2
  <2>3. QED
    BY <1>11, <2>1, <2>2
<1>13. HandedOK'
  <2>1. handed' \in Seq(E \cup F)
    BY <1>1, <1>11
  <2>2. \A h \in ToSet(handed') : HasGraph(graphs'.disk, h)
    BY <1>1, <1>12
  <2>3. QED
    BY <2>1, <2>2 DEF HandedOK
<1>14. SetupOK'
  BY <1>1, <1>2 DEF SetupOK, cx
<1>15. GraphsOK(graphs') /\ Free(graphs'.disk, served')
  BY <1>1, <1>7, <1>8
<1>16. served' \in Nat
  BY <1>1, <1>2
<1>17. QED
  BY <1>13, <1>14, <1>15, <1>16 DEF GraphInv

LEMMA GraphsInit ==
  ASSUME Init
  PROVE  GraphInv
<1> DEFINE h == EventOrder
<1>1. PICK s \in Setups : setup = Placed(s)
  BY DEF Init
<1>2. /\ DOMAIN s = {"cx", "rules", "dp", "pool", "last"} /\ s.last \in Nat
      /\ {"tp", "pp"} \subseteq DOMAIN s.cx /\ {s.cx.tp, s.cx.pp} \subseteq Nat \ {0}
  BY PipelineAssumption
<1>3. SetupOK
  <2> DEFINE placed == [f \in DOMAIN s.cx \cup {"place"} |->
                          IF f = "place" THEN Resolved(s.rules, s.cx.node, NumLayers) ELSE s.cx[f]]
  <2>1. placed.tp = s.cx.tp /\ placed.pp = s.cx.pp
    BY <1>2
  <2>2. Placed(s) = [s EXCEPT !.cx = placed]
    BY DEF Placed
  <2> HIDE DEF placed
  <2>3. Placed(s).cx = placed /\ Placed(s).last = s.last
    BY <1>2, <2>2
  <2>4. QED
    BY <1>1, <1>2, <2>1, <2>3 DEF SetupOK, cx
<1>4. GraphsOK(NewGraphs) /\ DOMAIN NewGraphs.disk = {}
  <2>1. NewGraphs.disk = << >> /\ NewGraphs.seen = << >> /\ NewGraphs.cache = << >>
    BY DEF NewGraphs
  <2>2. DOMAIN NewGraphs.disk = {}
    BY <2>1
  <2>3. << >> \in Seq({})
    OBVIOUS
  <2>4. Faithful(NewGraphs.cache)
    <3>1. NewGraphs.cache \in Seq({}) /\ \A e \in {} : FaithfulEntry(e)
      BY <2>1, <2>3
    <3>2. \E E : NewGraphs.cache \in Seq(E) /\ \A e \in E : FaithfulEntry(e)
      <4> WITNESS {}
      <4>1. QED
        BY <3>1
    <3>3. QED
      BY <3>2 DEF Faithful
  <2>5. NewGraphs = [disk |-> NewGraphs.disk, seen |-> NewGraphs.seen, cache |-> NewGraphs.cache]
    BY DEF NewGraphs
  <2>6. QED
    BY <2>2, <2>4, <2>5 DEF GraphsOK, FilesNamed
<1>5. MadeFrom(NewGraphs, graphs, h)
  <2>1. graphs = Made(NewGraphs, h)
    BY DEF Init
  <2>2. FilesOf(h) \cap DOMAIN NewGraphs.disk = {}
    BY <1>4
  <2> HIDE DEF h
  <2>3. QED
    BY <1>4, <2>1, <2>2, MadeOK
<1>6. GraphsOK(graphs) /\ DOMAIN graphs.disk = FilesOf(h) /\ HasGraph(graphs.disk, h)
  BY <1>4, <1>5 DEF MadeFrom, Added
<1>7. served = 0
  BY DEF Init
<1>8. Free(graphs.disk, served)
  <2>1. h.folder = EventFolder
    BY DEF EventOrder
  <2>2. \A f \in FilesOf(h) : f[1] = EventFolder
    BY <2>1, PlacesInFolder
  <2>3. QED
    BY <1>6, <2>2, FoldersDiffer DEF Free
<1>9. HandedOK
  <2>1. handed = <<h>>
    BY DEF Init
  <2> HIDE DEF h
  <2>2. handed \in Seq({h})
    BY <2>1
  <2>3. \A x \in ToSet(handed) : x = h
    BY <2>1 DEF ToSet
  <2>4. QED
    BY <1>6, <2>2, <2>3 DEF HandedOK
<1>10. QED
  BY <1>3, <1>6, <1>7, <1>8, <1>9 DEF GraphInv

(* One order alone. *)
LEMMA BatchKeeps ==
  ASSUME GraphInv, NEW i \in Instances, ServeBatch(i)
  PROVE  GraphInv'
<1>1. PICK job \in setup.pool : Serve(<<Order(<<"instance", i, served>>, i, Batch(job))>>)
  BY DEF ServeBatch
<1> DEFINE h == Order(<<"instance", i, served>>, i, Batch(job))
<1>2. h.folder \in Folders(served)
  BY DEF Order, Folders
<1> HIDE DEF h
<1> DEFINE orders == <<h>>
<1>3. orders \in Seq({h}) /\ Len(orders) = 1 /\ orders[1] = h
  OBVIOUS
<1>4. Serve(orders)
  BY <1>1 DEF h
<1> HIDE DEF orders
<1>5. \A k \in 1..Len(orders) : k = 1
  BY <1>3
<1>6. \A k \in 1..Len(orders) : orders[k].folder \in Folders(served)
  BY <1>2, <1>3, <1>5
<1>7. \A j, k \in 1..Len(orders) : j # k => FilesOf(orders[j]) \cap FilesOf(orders[k]) = {}
  BY <1>5
<1>8. QED
  BY <1>3, <1>4, <1>6, <1>7, ServeKeeps

(* The orders of the members, each for NPUs of its own. *)
LEMMA RoundKeeps ==
  ASSUME GraphInv, ServeRound
  PROVE  GraphInv'
<1>1. PICK round : Serve([i \in Instances |-> Order(<<"dp", served>>, i, PaddedRound(round)[i])])
  BY DEF ServeRound
<1> DEFINE orders == [i \in Instances |-> Order(<<"dp", served>>, i, PaddedRound(round)[i])]
<1> DEFINE n == Cardinality(Instances)
<1>2. n \in Nat /\ Instances = 1..n
  BY PipelineAssumption, FS_CardinalityType
<1>3. NpusPerInstance \in Nat \ {0}
  <2>1. cx.tp \in Nat \ {0} /\ cx.pp \in Nat \ {0}
    BY DEF GraphInv, SetupOK
  <2>2. \A a, b \in Nat \ {0} : a * b \in Nat \ {0}
    OBVIOUS
  <2>3. QED
    BY <2>1, <2>2 DEF NpusPerInstance
<1> HIDE DEF n
<1>4. ASSUME NEW i \in Instances
      PROVE  /\ orders[i].folder = <<"dp", served>>
             /\ orders[i].npus = NpusPerInstance /\ orders[i].offset = (i - 1) * NpusPerInstance
  BY DEF Order, OffsetOf
<1>5. Serve(orders)
  BY <1>1
<1>6. DOMAIN orders = 1..n /\ orders = [i \in 1..n |-> orders[i]]
  BY <1>2
<1> HIDE DEF orders
<1> DEFINE E == {orders[i] : i \in 1..n}
<1>7. orders \in [1..n -> E]
  <2>1. \A i \in 1..n : orders[i] \in E
    OBVIOUS
  <2> HIDE DEF E
  <2>2. QED
    BY <1>6, <2>1
<1> HIDE DEF E
<1>8. orders \in Seq(E)
  BY <1>2, <1>7, SeqDef
<1>9. Len(orders) = n
  <2>1. Len(orders) \in Nat /\ 1..Len(orders) = 1..n
    BY <1>6, <1>8, LenProperties
  <2>2. \A a, b \in Nat : 1..a = 1..b => a = b
    OBVIOUS
  <2>3. QED
    BY <1>2, <2>1, <2>2
<1>10. \A k \in 1..Len(orders) : orders[k].folder \in Folders(served)
  BY <1>2, <1>4, <1>9 DEF Folders
<1>11. ASSUME NEW j \in 1..Len(orders), NEW k \in 1..Len(orders), j # k
       PROVE  FilesOf(orders[j]) \cap FilesOf(orders[k]) = {}
  <2>1. j \in Instances /\ k \in Instances /\ j \in Int /\ k \in Int
    BY <1>2, <1>9
  <2>2. NpusFrom((j - 1) * NpusPerInstance, NpusPerInstance)
        \cap NpusFrom((k - 1) * NpusPerInstance, NpusPerInstance) = {}
    <3> DEFINE npus == NpusPerInstance
    <3>1. npus \in Nat \ {0}
      BY <1>3
    <3> HIDE DEF npus
    <3>2. NpusFrom((j - 1) * npus, npus) \cap NpusFrom((k - 1) * npus, npus) = {}
      BY <1>11, <2>1, <3>1, InstancesApart
    <3>3. QED
      BY <3>2 DEF npus
  <2>3. /\ \A f \in FilesOf(orders[j]) : f[2] \in NpusFrom((j - 1) * NpusPerInstance, NpusPerInstance)
        /\ \A f \in FilesOf(orders[k]) : f[2] \in NpusFrom((k - 1) * NpusPerInstance, NpusPerInstance)
    BY <1>4, <2>1, PlacesInFolder
  <2>4. QED
    BY <2>2, <2>3
<1>12. QED
  BY <1>5, <1>8, <1>10, <1>11, ServeKeeps

LEMMA RefuseKeeps ==
  ASSUME GraphInv, Refuse
  PROVE  GraphInv'
<1>1. /\ setup' = setup /\ graphs' = graphs /\ handed' = handed
      /\ served' = setup.last /\ served < setup.last
  BY DEF Refuse
<1>2. /\ SetupOK /\ served \in Nat /\ GraphsOK(graphs) /\ Free(graphs.disk, served) /\ HandedOK
  BY DEF GraphInv
<1>3. setup.last \in Nat
  BY <1>2 DEF SetupOK
<1>4. Free(graphs.disk, setup.last)
  <2>1. \A k \in Nat : k >= setup.last => k >= served
    BY <1>1, <1>2, <1>3
  <2>2. QED
    BY <1>2, <2>1 DEF Free
<1>5. SetupOK' /\ HandedOK'
  BY <1>1, <1>2 DEF SetupOK, HandedOK, cx
<1>6. QED
  BY <1>1, <1>2, <1>3, <1>4, <1>5 DEF GraphInv

(* In every run of the main loop, the cached graphs are what their traces  *)
(* are converted to, the folders of later batches are empty, and what was  *)
(* handed to ASTRA-Sim has not been overwritten since                      *)
(* (graph_generator.py, generate_graph and _cache_store).                  *)
THEOREM GraphsInductive == Spec => []GraphInv
<1>1. Init => GraphInv
  BY GraphsInit
<1>2. GraphInv /\ [Next]_vars => GraphInv'
  <2>1. SUFFICES ASSUME GraphInv, [Next]_vars PROVE GraphInv'
    OBVIOUS
  <2>2. CASE \E i \in Instances : ServeBatch(i)
    BY <2>1, <2>2, BatchKeeps
  <2>3. CASE ServeRound
    BY <2>1, <2>3, RoundKeeps
  <2>4. CASE Refuse
    BY <2>1, <2>4, RefuseKeeps
  <2>5. CASE UNCHANGED vars
    <3>1. /\ setup' = setup /\ graphs' = graphs /\ handed' = handed /\ served' = served
      BY <2>5 DEF vars
    <3>2. SetupOK' /\ HandedOK'
      BY <2>1, <3>1 DEF GraphInv, SetupOK, HandedOK, cx
    <3>3. QED
      BY <2>1, <3>1, <3>2 DEF GraphInv
  <2>6. QED
    BY <2>1, <2>2, <2>3, <2>4, <2>5 DEF Next
<1>3. QED
  BY <1>1, <1>2, PTL DEF Spec

(* Every NPU of an instance finds the graph of the trace generated for its *)
(* batch in the folder it is pointed at, whatever the cache of graphs has  *)
(* kept, moved and evicted in between (graph_generator.py).                *)
THEOREM GraphsAreTheTraces == Spec => []GraphIsTheTrace
<1>1. GraphInv => GraphIsTheTrace
  BY DEF GraphInv, HandedOK, HasGraph, NpusFrom, GraphIsTheTrace
<1>2. QED
  BY <1>1, GraphsInductive, PTL

-----------------------------------------------------------------------------
(* Sequences. *)

List(s) == s \in Seq(ToSet(s))

LEMMA ListOf == ASSUME NEW S, NEW s \in Seq(S)
                PROVE  List(s) /\ Len(s) \in Nat /\ DOMAIN s = 1..Len(s)
<1>1. Len(s) \in Nat /\ DOMAIN s = 1..Len(s) /\ s = [k \in 1..Len(s) |-> s[k]]
  BY LenProperties
<1>2. \A k \in 1..Len(s) : s[k] \in ToSet(s)
  BY <1>1 DEF ToSet
<1>3. QED
  BY <1>1, <1>2, IsASeq DEF List

(* A function on 1..n is a list of n elements. *)
LEMMA ListFrom ==
  ASSUME NEW n \in Nat, NEW f, f = [k \in 1..n |-> f[k]]
  PROVE  List(f) /\ Len(f) = n /\ DOMAIN f = 1..n
<1>1. \A k \in 1..n : f[k] \in ToSet(f)
  BY DEF ToSet
<1>2. f \in Seq(ToSet(f)) /\ DOMAIN f = 1..n
  BY <1>1, IsASeq
<1>3. Len(f) = n
  BY <1>2, LenProperties
<1>4. QED
  BY <1>2, <1>3 DEF List

LEMMA ListLen == ASSUME NEW s, List(s)
                 PROVE  /\ Len(s) \in Nat /\ DOMAIN s = 1..Len(s)
                        /\ s = << >> <=> Len(s) = 0
  BY LenProperties, EmptySeq DEF List

LEMMA ListAppend ==
  ASSUME NEW s, List(s), NEW x
  PROVE  /\ List(Append(s, x)) /\ Len(Append(s, x)) = Len(s) + 1
         /\ \A k \in 1..Len(s) : Append(s, x)[k] = s[k]
         /\ Append(s, x)[Len(s) + 1] = x
<1> DEFINE S == ToSet(s) \cup {x}
<1>1. s \in Seq(S) /\ x \in S
  BY SeqMonotonic DEF List
<1> HIDE DEF S
<1>2. Append(s, x) \in Seq(S)
  BY <1>1, AppendProperties
<1>3. List(Append(s, x))
  BY <1>2, ListOf
<1>4. QED
  BY <1>1, <1>3, AppendProperties

LEMMA ListTail ==
  ASSUME NEW s, List(s), s # << >>
  PROVE  /\ List(Tail(s)) /\ Len(Tail(s)) = Len(s) - 1
         /\ \A k \in 1..(Len(s) - 1) : Tail(s)[k] = s[k + 1]
         /\ Head(s) = s[1] /\ Len(s) >= 1 /\ Head(s) \in ToSet(s)
<1> DEFINE S == ToSet(s)
<1>1. s \in Seq(S)
  BY DEF List
<1>2. Len(s) \in Nat /\ Len(s) # 0
  BY ListLen
<1>3. /\ Tail(s) \in Seq(S) /\ Len(Tail(s)) = Len(s) - 1 /\ Head(s) = s[1]
      /\ \A k \in 1..Len(Tail(s)) : Tail(s)[k] = s[k + 1]
      /\ Head(s) \in S
  <2> HIDE DEF S
  <2>1. QED
    BY <1>1, <1>2, HeadTailProperties
<1>4. List(Tail(s))
  BY <1>3, ListOf
<1>5. QED
  BY <1>2, <1>3, <1>4

(* The places of the elements that are left. *)
Shifted(j, k) == IF j < k THEN j ELSE j + 1

LEMMA ListRemoveAt ==
  ASSUME NEW s, List(s), NEW k \in 1..Len(s)
  PROVE  LET t == RemoveAt(s, k)
         IN  /\ List(t) /\ Len(t) = Len(s) - 1
             /\ \A j \in 1..Len(t) : t[j] = s[Shifted(j, k)]
<1> DEFINE S == ToSet(s)
<1> DEFINE n == Len(s)
<1> DEFINE a == SubSeq(s, 1, k - 1)
<1> DEFINE b == SubSeq(s, k + 1, n)
<1>1. n \in Nat /\ k \in 1..n /\ \A j \in 1..n : s[j] \in S
  BY ListLen DEF ToSet
<1> HIDE DEF S, n
<1>2. /\ a \in Seq(S) /\ Len(a) = IF 1 <= k - 1 THEN k - 1 - 1 + 1 ELSE 0
      /\ \A j \in 1..(k - 1 - 1 + 1) : a[j] = s[1 + j - 1]
  <2>1. 1 \in Int /\ k - 1 \in Int /\ \A j \in 1..(k - 1) : s[j] \in S
    BY <1>1
  <2>2. QED
    BY <2>1, SubSeqProperties
<1>3. /\ b \in Seq(S) /\ Len(b) = IF k + 1 <= n THEN n - (k + 1) + 1 ELSE 0
      /\ \A j \in 1..(n - (k + 1) + 1) : b[j] = s[k + 1 + j - 1]
  <2>1. k + 1 \in Int /\ n \in Int /\ \A j \in (k + 1)..n : s[j] \in S
    BY <1>1
  <2>2. QED
    BY <2>1, SubSeqProperties
<1>4. RemoveAt(s, k) = a \o b
  BY DEF RemoveAt, n
<1> HIDE DEF a, b
<1>5. /\ Len(a) = k - 1 /\ \A j \in 1..(k - 1) : a[j] = s[j]
      /\ Len(b) = n - k /\ \A j \in 1..(n - k) : b[j] = s[k + j]
  BY <1>1, <1>2, <1>3
<1>6. /\ a \o b \in Seq(S) /\ Len(a \o b) = n - 1
      /\ \A j \in 1..(n - 1) : (a \o b)[j] = IF j <= k - 1 THEN a[j] ELSE b[j - (k - 1)]
  <2>1. /\ a \o b \in Seq(S) /\ Len(a \o b) = Len(a) + Len(b)
        /\ \A j \in 1..Len(a) + Len(b) : (a \o b)[j] = IF j <= Len(a) THEN a[j] ELSE b[j - Len(a)]
    BY <1>2, <1>3, ConcatProperties
  <2>2. Len(a) + Len(b) = n - 1
    BY <1>1, <1>5
  <2>3. QED
    BY <1>5, <2>1, <2>2
<1>7. ASSUME NEW j \in 1..(n - 1) PROVE (a \o b)[j] = s[Shifted(j, k)]
  <2>1. CASE j <= k - 1
    <3>1. j \in 1..(k - 1) /\ Shifted(j, k) = j
      BY <1>1, <2>1 DEF Shifted
    <3>2. QED
      BY <1>5, <1>6, <2>1, <3>1
  <2>2. CASE ~(j <= k - 1)
    <3>1. j - (k - 1) \in 1..(n - k) /\ k + (j - (k - 1)) = j + 1 /\ Shifted(j, k) = j + 1
      BY <1>1, <2>2 DEF Shifted
    <3>2. b[j - (k - 1)] = s[k + (j - (k - 1))]
      BY <1>5, <3>1
    <3>3. (a \o b)[j] = b[j - (k - 1)]
      BY <1>6, <2>2
    <3>4. QED
      BY <3>1, <3>2, <3>3
  <2>3. QED
    BY <2>1, <2>2
<1>8. List(a \o b)
  BY <1>6, ListOf
<1>9. QED
  BY <1>4, <1>6, <1>7, <1>8 DEF n

-----------------------------------------------------------------------------
(* The cluster. *)

LEMMA PlacedNpus ==
  ASSUME scenario \in Scenarios
  PROVE  /\ List(Insts)
         /\ \A n \in 0..(TotalNpu(Insts) - 1) : /\ InstOf(n) \in DOMAIN Insts
                                               /\ n \in NpusOf(Insts[InstOf(n)])
         /\ \A i \in DOMAIN Insts :
              /\ {Insts[i].start, LastOf(Insts[i])} \subseteq NpusOf(Insts[i])
              /\ NpusOf(Insts[i]) \subseteq 0..(TotalNpu(Insts) - 1)
              /\ \A n \in NpusOf(Insts[i]) : InstOf(n) = i
<1>1. /\ Insts \in Seq(ToSet(Insts))
      /\ \A n \in 0..(TotalNpu(Insts) - 1) : \E i \in DOMAIN Insts : n \in NpusOf(Insts[i])
      /\ \A i \in DOMAIN Insts :
           /\ Insts[i].start \in Nat /\ {Insts[i].num_npus, Insts[i].tp} \subseteq Nat \ {0}
           /\ NpusOf(Insts[i]) \subseteq 0..(TotalNpu(Insts) - 1)
           /\ \A j \in DOMAIN Insts : i # j => NpusOf(Insts[i]) \cap NpusOf(Insts[j]) = {}
  BY PlacedAssumption DEF Insts
<1>2. \A n \in 0..(TotalNpu(Insts) - 1) : InstOf(n) \in DOMAIN Insts /\ n \in NpusOf(Insts[InstOf(n)])
  BY <1>1 DEF InstOf
<1>3. ASSUME NEW i \in DOMAIN Insts
      PROVE  {Insts[i].start, LastOf(Insts[i])} \subseteq NpusOf(Insts[i])
  BY <1>1 DEF NpusOf, LastOf, Effective
<1>4. ASSUME NEW i \in DOMAIN Insts, NEW n \in NpusOf(Insts[i]) PROVE InstOf(n) = i
  BY <1>1, <1>2
<1>5. QED
  BY <1>1, <1>2, <1>3, <1>4 DEF List

(* The stage before. *)
LEMMA StageBack ==
  ASSUME NEW a \in Nat, NEW k \in Nat \ {0}, a \div k > 0
  PROVE  a - k \in Nat /\ (a - k) \div k = a \div k - 1
<1>1. a \div k \in Nat /\ k * (a \div k) <= a /\ a < k * (a \div k) + k
  BY DivBounds
<1> DEFINE q == a \div k
<1> HIDE DEF q
<1>2. q \in Nat /\ q >= 1 /\ k * q \in Nat /\ k * q <= a /\ a < k * q + k
  BY <1>1 DEF q
<1>3. k * q >= k
  BY <1>2
<1>4. a - k \in Nat
  BY <1>2, <1>3
<1> DEFINE p == (a - k) \div k
<1>5. p \in Nat /\ k * p <= a - k /\ a - k < k * p + k
  BY <1>4, DivBounds
<1> HIDE DEF p
<1>6. k * p \in Nat /\ k * (q - 1) = k * q - k /\ k * (q - 1) \in Int
  BY <1>2, <1>5
<1>7. k * p < k * (q - 1) + k /\ k * (q - 1) < k * p + k
  BY <1>2, <1>4, <1>5, <1>6
<1>8. p <= q - 1 /\ q - 1 <= p
  BY <1>2, <1>5, <1>7, ProductOrder
<1>9. QED
  BY <1>2, <1>4, <1>5, <1>8 DEF p, q

LEMMA Stages ==
  ASSUME scenario \in Scenarios, NEW i \in DOMAIN Insts, NEW n \in NpusOf(Insts[i])
  PROVE  /\ StageOf(Insts[i], n) \in Nat
         /\ StageOf(Insts[i], n) <= StageOf(Insts[i], LastOf(Insts[i]))
         /\ StageOf(Insts[i], n) > 0 =>
              /\ n - Insts[i].tp \in NpusOf(Insts[i])
              /\ StageOf(Insts[i], n - Insts[i].tp) = StageOf(Insts[i], n) - 1
<1>1. Insts[i].start \in Nat /\ {Insts[i].num_npus, Insts[i].tp} \subseteq Nat \ {0}
  BY PlacedAssumption DEF Insts
<1> DEFINE a == n - Insts[i].start
<1> DEFINE b == LastOf(Insts[i]) - Insts[i].start
<1> DEFINE k == Insts[i].tp
<1>2. a \in Nat /\ b \in Nat /\ k \in Nat \ {0} /\ a <= b /\ n \in Nat
  BY <1>1 DEF NpusOf, LastOf, Effective
<1>3. a \div k \in Nat /\ a \div k <= b \div k
  BY <1>2, DivMonotonic, DivBounds
<1>4. ASSUME a \div k > 0 PROVE a - k \in Nat /\ (a - k) \div k = a \div k - 1
  <2> HIDE DEF a, k
  <2>1. QED
    BY <1>2, <1>4, StageBack
<1>5. n - k - Insts[i].start = a - k
  BY <1>1, <1>2
<1>6. ASSUME a - k \in Nat PROVE n - k \in NpusOf(Insts[i])
  BY <1>1, <1>2, <1>6 DEF NpusOf, LastOf, Effective
<1>7. QED
  BY <1>3, <1>4, <1>5, <1>6 DEF StageOf
-----------------------------------------------------------------------------
(* The inductive invariant, of the parts of a state: the core c, the       *)
(* batches pending at the barrier, the graphs owed to NPUs, and the NPUs.  *)

(* The first batch of instance i that has not been through the barrier.    *)
Due(c, pending, i) == c.sched[i].nextId - Len(pending[i])

(* Batches NPU n has run or is owed, and the NPU that opened a batch.      *)
Got(owed, npus, n) == Len(npus[n].log) + Len(owed[n])
Opener(batch) == Head(batch.fired)

OfBatch(graph, id) == graph.batch = id /\ graph.round = id

(* What an NPU has run, and then what it is owed, are the batches 0, 1, ... *)
(* of its instance; it has ended all it has run but the one it is busy with. *)
NpuOK(x, given) ==
  /\ DOMAIN x = {"mode", "until", "log", "ended"} /\ List(x.log) /\ List(given)
  /\ x.ended = IF x.mode = "busy" THEN Len(x.log) - 1 ELSE Len(x.log)
  /\ \A k \in 1..Len(x.log) : OfBatch(x.log[k], k - 1)
  /\ \A k \in 1..Len(given) : OfBatch(given[k], Len(x.log) + k - 1)

NpusOK(c, pending, owed, npus) ==
  /\ DOMAIN npus = 0..(TotalNpu(Insts) - 1) /\ DOMAIN owed = DOMAIN npus
  /\ \A n \in DOMAIN npus : /\ NpuOK(npus[n], owed[n])
                            /\ Got(owed, npus, n) <= Due(c, pending, InstOf(n))

(* Who has ended a batch met everybody of its stage and the stages before. *)
StagesOK(npus) ==
  \A i \in DOMAIN Insts : \A m, n \in NpusOf(Insts[i]) :
    StageOf(Insts[i], m) <= StageOf(Insts[i], n) => npus[n].ended <= Len(npus[m].log)

SchedShape(s, i) ==
  /\ DOMAIN s = {"waiting", "running", "inflight", "nextId"}
  /\ s.nextId \in Nat /\ List(s.inflight)

BatchShape(b, i) ==
  /\ DOMAIN b = {"id", "reqs", "fired", "ended", "name"}
  /\ b.id \in Nat /\ b.fired \in Seq(NpusOf(Insts[i])) /\ b.fired # << >>
  /\ b.ended \subseteq NpusOf(Insts[i])

(* Who takes part in a batch has run it, or is owed it, or has opened it   *)
(* and waits at the barrier with everything before it run or owed.  A      *)
(* batch gets its name, and number, at the barrier.                        *)
BatchOK(owed, npus, b, due) ==
  /\ \A n \in b.ended : b.id < npus[n].ended
  /\ b.name # NoName => b.name.round = b.id /\ b.id < due
  /\ \A n \in ToSet(b.fired) : b.id < Got(owed, npus, n) \/ (b.id >= due /\ Opener(b) = n)
  /\ b.id >= due => Got(owed, npus, Opener(b)) = due

(* One NPU has opened all the batches an instance has at the barrier.      *)
BatchesOK(owed, npus, s, due, i) ==
  \A k \in 1..Len(s.inflight) :
    LET b == s.inflight[k]
    IN  /\ BatchShape(b, i) /\ b.id < s.nextId /\ BatchOK(owed, npus, b, due)
        /\ \A l \in 1..Len(s.inflight) :
             LET d == s.inflight[l]
             IN  /\ b.id = d.id => k = l
                 /\ b.id >= due /\ d.id >= due => Opener(b) = Opener(d)

(* A batch that is not in flight has been ended by the first and the last. *)
NoneMissing(npus, s, i) ==
  \A x \in 0..(s.nextId - 1) :
    \/ \E k \in 1..Len(s.inflight) : s.inflight[k].id = x
    \/ x < npus[Insts[i].start].ended /\ x < npus[LastOf(Insts[i])].ended

(* The batches at the barrier are the latest, and the members of a group   *)
(* have as many behind them.                                               *)
PendingOK(c, pending, i) ==
  /\ List(pending[i]) /\ Due(c, pending, i) \in Nat
  /\ \A k \in 1..Len(pending[i]) : pending[i][k] = Due(c, pending, i) + k - 1
  /\ \A j \in GroupOf(i) : Due(c, pending, j) = Due(c, pending, i)

CoreShape(c) ==
  /\ DOMAIN c = {"router", "sched", "made", "served", "gen", "finished"}
  /\ DOMAIN c.sched = DOMAIN Insts

LoopOK(c, pending, owed, npus) ==
  /\ scenario \in Scenarios /\ CoreShape(c) /\ DOMAIN pending = DOMAIN Insts
  /\ NpusOK(c, pending, owed, npus) /\ StagesOK(npus)
  /\ \A i \in DOMAIN Insts :
       /\ SchedShape(c.sched[i], i) /\ BatchesOK(owed, npus, c.sched[i], Due(c, pending, i), i)
       /\ NoneMissing(npus, c.sched[i], i) /\ PendingOK(c, pending, i)

(* Only the batches of groups go through the barrier. *)
PlainOK(pending) == \A i \in DOMAIN Insts : ~InGroup(i) => pending[i] = << >>

LoopInv ==
  /\ turn \subseteq Npus /\ \A n \in turn : npu[n].mode # "busy"
  /\ LoopOK(core, dpPending, dpReady, npu) /\ PlainOK(dpPending)

-----------------------------------------------------------------------------
(* Steps that leave the batches alone. *)

(* The barrier and the logs do not depend on the queues and the router.    *)
LEMMA SameBatches ==
  ASSUME NEW c, NEW pending, NEW owed, NEW npus, LoopOK(c, pending, owed, npus),
         NEW d, CoreShape(d),
         \A i \in DOMAIN Insts :
           /\ DOMAIN d.sched[i] = {"waiting", "running", "inflight", "nextId"}
           /\ d.sched[i].inflight = c.sched[i].inflight
           /\ d.sched[i].nextId = c.sched[i].nextId
  PROVE  LoopOK(d, pending, owed, npus)
<1>1. \A i \in DOMAIN Insts : Due(d, pending, i) = Due(c, pending, i)
  BY DEF Due
<1>2. NpusOK(d, pending, owed, npus)
  BY <1>1, PlacedNpus DEF LoopOK, NpusOK
<1>3. ASSUME NEW i \in DOMAIN Insts
      PROVE  /\ SchedShape(d.sched[i], i) /\ BatchesOK(owed, npus, d.sched[i], Due(d, pending, i), i)
             /\ NoneMissing(npus, d.sched[i], i) /\ PendingOK(d, pending, i)
  <2>1. SchedShape(d.sched[i], i)
    BY DEF LoopOK, SchedShape
  <2>2. BatchesOK(owed, npus, d.sched[i], Due(d, pending, i), i)
    BY <1>1 DEF LoopOK, BatchesOK
  <2>3. NoneMissing(npus, d.sched[i], i)
    BY DEF LoopOK, NoneMissing
  <2>4. PendingOK(d, pending, i)
    BY <1>1 DEF LoopOK, PendingOK, GroupOf
  <2>5. QED
    BY <2>1, <2>2, <2>3, <2>4
<1>4. QED
  BY <1>2, <1>3 DEF LoopOK

(* What the stages and the batches of the instances see of the NPUs is what *)
(* each has got, ended and run.                                            *)
LEMMA SameGot ==
  ASSUME scenario \in Scenarios, NEW i \in DOMAIN Insts, NEW s, NEW due,
         NEW owed, NEW npus, BatchesOK(owed, npus, s, due, i), NoneMissing(npus, s, i),
         NEW rest, NEW new,
         \A m \in NpusOf(Insts[i]) : /\ Got(rest, new, m) = Got(owed, npus, m)
                                     /\ new[m].ended = npus[m].ended
  PROVE  BatchesOK(rest, new, s, due, i) /\ NoneMissing(new, s, i)
<1>1. ASSUME NEW k \in 1..Len(s.inflight), NEW b, b = s.inflight[k]
      PROVE  BatchOK(rest, new, b, due)
  <2>1. BatchOK(owed, npus, b, due) /\ BatchShape(b, i)
    BY <1>1 DEF BatchesOK
  <2>2. Opener(b) \in NpusOf(Insts[i]) /\ ToSet(b.fired) \subseteq NpusOf(Insts[i])
    BY <2>1, HeadTailProperties, ToSetType DEF BatchShape, Opener
  <2>3. QED
    BY <2>1, <2>2 DEF BatchOK, BatchShape
<1>2. BatchesOK(rest, new, s, due, i)
  BY <1>1 DEF BatchesOK
<1>3. NoneMissing(new, s, i)
  <2>1. {Insts[i].start, LastOf(Insts[i])} \subseteq NpusOf(Insts[i])
    BY PlacedNpus
  <2>2. QED
    BY <2>1 DEF NoneMissing
<1>4. QED
  BY <1>2, <1>3

LEMMA MoreRun ==
  ASSUME NEW c, NEW pending, NEW owed, NEW npus, LoopOK(c, pending, owed, npus), NEW new,
         \A m \in DOMAIN npus :
           /\ new[m].ended = npus[m].ended /\ Len(npus[m].log) <= Len(new[m].log)
           /\ Len(new[m].log) \in Nat
  PROVE  StagesOK(new)
<1>1. /\ \A n \in DOMAIN npus : npus[n].ended \in Int /\ Len(npus[n].log) \in Nat
      /\ \A i \in DOMAIN Insts : \A n \in NpusOf(Insts[i]) : n \in DOMAIN npus
  BY PlacedNpus, ListLen DEF LoopOK, NpusOK, NpuOK
<1>2. SUFFICES ASSUME NEW i \in DOMAIN Insts, NEW m \in NpusOf(Insts[i]), NEW n \in NpusOf(Insts[i]),
                      StageOf(Insts[i], m) <= StageOf(Insts[i], n)
               PROVE  new[n].ended <= Len(new[m].log)
  BY DEF StagesOK
<1>3. npus[n].ended <= Len(npus[m].log) /\ m \in DOMAIN npus /\ n \in DOMAIN npus
  BY <1>1, <1>2 DEF LoopOK, StagesOK
<1>4. QED
  BY <1>1, <1>3

LEMMA MoreLogs ==
  ASSUME NEW c, NEW pending, NEW owed, NEW npus, LoopOK(c, pending, owed, npus),
         NEW rest, NEW new, DOMAIN new = DOMAIN npus,
         \A m \in DOMAIN npus :
           /\ Got(rest, new, m) = Got(owed, npus, m)
           /\ new[m].ended = npus[m].ended /\ Len(npus[m].log) <= Len(new[m].log)
           /\ Len(new[m].log) \in Nat,
         NpusOK(c, pending, rest, new)
  PROVE  LoopOK(c, pending, rest, new)
<1>1. StagesOK(new)
  BY MoreRun
<1>2. ASSUME NEW i \in DOMAIN Insts
      PROVE  BatchesOK(rest, new, c.sched[i], Due(c, pending, i), i) /\ NoneMissing(new, c.sched[i], i)
  <2>1. \A m \in NpusOf(Insts[i]) : m \in DOMAIN npus
    BY PlacedNpus DEF LoopOK, NpusOK
  <2>2. QED
    BY <2>1, SameGot DEF LoopOK
<1>3. QED
  BY <1>1, <1>2 DEF LoopOK

(* Nor on whether an NPU is held. *)
LEMMA SameLogs ==
  ASSUME NEW c, NEW pending, NEW owed, NEW npus, LoopOK(c, pending, owed, npus),
         NEW new, DOMAIN new = DOMAIN npus,
         \A n \in DOMAIN npus :
           /\ DOMAIN new[n] = {"mode", "until", "log", "ended"}
           /\ new[n].log = npus[n].log /\ new[n].ended = npus[n].ended
           /\ new[n].mode = "busy" <=> npus[n].mode = "busy"
  PROVE  LoopOK(c, pending, owed, new)
<1>1. \A n \in DOMAIN npus : Got(owed, new, n) = Got(owed, npus, n)
  BY DEF Got
<1>2. NpusOK(c, pending, owed, new)
  BY <1>1 DEF LoopOK, NpusOK, NpuOK
<1>3. \A n \in DOMAIN npus : Len(npus[n].log) <= Len(new[n].log) /\ Len(new[n].log) \in Nat
  BY ListLen DEF LoopOK, NpusOK, NpuOK
<1>4. QED
  BY <1>1, <1>2, <1>3, MoreLogs

(* Routing, the handover, and the end of the turn's list.                  *)
LEMMA QueuesOnly ==
  ASSUME NEW c, NEW pending, NEW owed, NEW npus, LoopOK(c, pending, owed, npus), NEW i
  PROVE  /\ LoopOK(RouteArrived(c), pending, owed, npus)
         /\ LoopOK(Notify(c, i), pending, owed, npus)
         /\ LoopOK(Transfer(c, i), pending, owed, npus)
         /\ LoopOK([c EXCEPT !.finished = << >>], pending, owed, npus)
<1>1. /\ CoreShape(c)
      /\ \A j \in DOMAIN Insts : DOMAIN c.sched[j] = {"waiting", "running", "inflight", "nextId"}
  BY DEF LoopOK, SchedShape
<1>2. ASSUME NEW d, CoreShape(d),
             \A j \in DOMAIN Insts : /\ DOMAIN d.sched[j] = {"waiting", "running", "inflight", "nextId"}
                                     /\ d.sched[j].inflight = c.sched[j].inflight
                                     /\ d.sched[j].nextId = c.sched[j].nextId
      PROVE  LoopOK(d, pending, owed, npus)
  BY <1>2, SameBatches
<1>3. LoopOK(RouteArrived(c), pending, owed, npus)
  <2> DEFINE r == AfterRouting(c)
  <2> DEFINE d == [c EXCEPT !.router = r.router,
                     !.sched = [j \in DOMAIN Insts |-> [@[j] EXCEPT !.waiting = r.sched[j].waiting]]]
  <2>1. RouteArrived(c) = d
    BY DEF RouteArrived
  <2> HIDE DEF r
  <2>2. CoreShape(d)
    BY <1>1 DEF CoreShape
  <2>3. \A j \in DOMAIN Insts : d.sched[j] = [c.sched[j] EXCEPT !.waiting = r.sched[j].waiting]
    BY <1>1 DEF CoreShape
  <2> HIDE DEF d
  <2>4. QED
    BY <1>1, <1>2, <2>1, <2>2, <2>3
<1>4. LoopOK(Notify(c, i), pending, owed, npus)
  <2>1. ASSUME NEW r, NEW d, d = [c EXCEPT !.router = r] PROVE LoopOK(d, pending, owed, npus)
    <3>1. CoreShape(d) /\ d.sched = c.sched
      BY <1>1, <2>1 DEF CoreShape
    <3>2. QED
      BY <1>1, <1>2, <3>1
  <2>2. QED
    BY <2>1 DEF Notify
<1>5. LoopOK(Transfer(c, i), pending, owed, npus)
  <2> DEFINE r == FoldLeft(TransferOne, c, c.finished)
  <2> DEFINE d == [c EXCEPT !.router = r.router,
                     !.sched = [j \in DOMAIN Insts |-> [@[j] EXCEPT !.running = r.sched[j].running]]]
  <2>1. Transfer(c, i) \in {c, d}
    BY DEF Transfer
  <2> HIDE DEF r
  <2>2. CoreShape(d)
    BY <1>1 DEF CoreShape
  <2>3. \A j \in DOMAIN Insts : d.sched[j] = [c.sched[j] EXCEPT !.running = r.sched[j].running]
    BY <1>1 DEF CoreShape
  <2> HIDE DEF d
  <2>4. LoopOK(d, pending, owed, npus)
    BY <1>1, <1>2, <2>2, <2>3
  <2>5. QED
    BY <2>1, <2>4
<1>6. LoopOK([c EXCEPT !.finished = << >>], pending, owed, npus)
  <2> DEFINE d == [c EXCEPT !.finished = << >>]
  <2>1. CoreShape(d) /\ d.sched = c.sched
    BY <1>1 DEF CoreShape
  <2>2. QED
    BY <1>1, <1>2, <2>1
<1>7. QED
  BY <1>3, <1>4, <1>5, <1>6

LEMMA ReopenedModes ==
  ASSUME NEW npus, \A m \in DOMAIN npus : DOMAIN npus[m] = {"mode", "until", "log", "ended"}
  PROVE  /\ DOMAIN Reopened(npus) = DOMAIN npus
         /\ \A m \in DOMAIN npus :
              LET x == Reopened(npus)[m]
              IN  /\ DOMAIN x = {"mode", "until", "log", "ended"}
                  /\ x.log = npus[m].log /\ x.ended = npus[m].ended
                  /\ x.mode = "busy" <=> npus[m].mode = "busy"
<1> DEFINE new == Reopened(npus)
<1>1. DOMAIN new = DOMAIN npus
  BY DEF Reopened
<1>2. ASSUME NEW m \in DOMAIN npus, NEW x, x = new[m]
      PROVE  /\ DOMAIN x = {"mode", "until", "log", "ended"}
             /\ x.log = npus[m].log /\ x.ended = npus[m].ended
             /\ x.mode = "busy" <=> npus[m].mode = "busy"
  <2>1. CASE npus[m].mode = "held"
    <3>1. x = [npus[m] EXCEPT !.mode = "open"]
      BY <1>2, <2>1 DEF Reopened
    <3>2. QED
      BY <2>1, <3>1
  <2>2. CASE npus[m].mode # "held"
    <3>1. x = npus[m]
      BY <1>2, <2>2 DEF Reopened
    <3>2. QED
      BY <3>1
  <2>3. QED
    BY <2>1, <2>2
<1> HIDE DEF new
<1>3. QED
  BY <1>1, <1>2 DEF new

(* Answers that open and hold NPUs.                                        *)
LEMMA ModesOnly ==
  ASSUME NEW c, NEW pending, NEW owed, NEW npus, LoopOK(c, pending, owed, npus),
         NEW n \in DOMAIN npus, npus[n].mode # "busy"
  PROVE  /\ LoopOK(c, pending, owed, Reopened(npus))
         /\ LoopOK(c, pending, owed, PassChanged(npus))
         /\ LoopOK(c, pending, owed, PassFor(npus, c, n))
         /\ LoopOK(c, pending, owed, [npus EXCEPT ![n].mode = "asleep"])
<1>1. \A m \in DOMAIN npus : DOMAIN npus[m] = {"mode", "until", "log", "ended"}
  BY DEF LoopOK, NpusOK, NpuOK
<1>2. LoopOK(c, pending, owed, Reopened(npus))
  <2> DEFINE new == Reopened(npus)
  <2>1. /\ DOMAIN new = DOMAIN npus
        /\ \A m \in DOMAIN npus :
             /\ DOMAIN new[m] = {"mode", "until", "log", "ended"}
             /\ new[m].log = npus[m].log /\ new[m].ended = npus[m].ended
             /\ new[m].mode = "busy" <=> npus[m].mode = "busy"
    BY <1>1, ReopenedModes
  <2> HIDE DEF new
  <2>2. LoopOK(c, pending, owed, new)
    BY <2>1, SameLogs
  <2>3. QED
    BY <2>2 DEF new
<1>3. LoopOK(c, pending, owed, PassFor(npus, c, n))
  <2> DEFINE until == Deadline(c)
  <2> DEFINE new == [npus EXCEPT ![n].mode = "held", ![n].until = until]
  <2> HIDE DEF until
  <2>1. /\ DOMAIN new = DOMAIN npus
        /\ \A m \in DOMAIN npus :
             /\ DOMAIN new[m] = {"mode", "until", "log", "ended"}
             /\ new[m].log = npus[m].log /\ new[m].ended = npus[m].ended
             /\ new[m].mode = "busy" <=> npus[m].mode = "busy"
    BY <1>1
  <2>2. PassFor(npus, c, n) = new
    BY DEF PassFor, until
  <2> HIDE DEF new
  <2>3. QED
    BY <2>1, <2>2, SameLogs
<1>4. LoopOK(c, pending, owed, [npus EXCEPT ![n].mode = "asleep"])
  <2> DEFINE new == [npus EXCEPT ![n].mode = "asleep"]
  <2>1. /\ DOMAIN new = DOMAIN npus
        /\ \A m \in DOMAIN npus :
             /\ DOMAIN new[m] = {"mode", "until", "log", "ended"}
             /\ new[m].log = npus[m].log /\ new[m].ended = npus[m].ended
             /\ new[m].mode = "busy" <=> npus[m].mode = "busy"
    BY <1>1
  <2>2. LoopOK(c, pending, owed, new)
    <3> HIDE DEF new
    <3>1. QED
      BY <2>1, SameLogs
  <2>3. QED
    BY <2>2
<1>5. QED
  BY <1>2, <1>3, <1>4 DEF PassChanged

-----------------------------------------------------------------------------
(* Completing a batch (add_done). *)

(* A lighter test for the batches of one instance: the others are as they  *)
(* were.                                                                   *)
LEMMA OneInstance ==
  ASSUME NEW c, NEW pending, NEW owed, NEW npus, LoopOK(c, pending, owed, npus),
         NEW i \in DOMAIN Insts, NEW d, CoreShape(d),
         \A j \in DOMAIN Insts \ {i} : d.sched[j] = c.sched[j],
         SchedShape(d.sched[i], i), d.sched[i].nextId = c.sched[i].nextId,
         BatchesOK(owed, npus, d.sched[i], Due(c, pending, i), i),
         NoneMissing(npus, d.sched[i], i)
  PROVE  LoopOK(d, pending, owed, npus)
<1>1. \A j \in DOMAIN Insts : Due(d, pending, j) = Due(c, pending, j)
  BY DEF Due
<1>2. NpusOK(d, pending, owed, npus)
  BY <1>1, PlacedNpus DEF LoopOK, NpusOK
<1>3. ASSUME NEW j \in DOMAIN Insts
      PROVE  /\ SchedShape(d.sched[j], j) /\ BatchesOK(owed, npus, d.sched[j], Due(d, pending, j), j)
             /\ NoneMissing(npus, d.sched[j], j) /\ PendingOK(d, pending, j)
  <2>1. PendingOK(d, pending, j)
    BY <1>1 DEF LoopOK, PendingOK, GroupOf
  <2>2. CASE j = i
    BY <1>1, <2>1, <2>2
  <2>3. CASE j # i
    BY <1>1, <2>1, <2>3 DEF LoopOK
  <2>4. QED
    BY <2>2, <2>3
<1>4. QED
  BY <1>2, <1>3 DEF LoopOK

LEMMA Marked ==
  ASSUME NEW c, NEW pending, NEW owed, NEW npus, LoopOK(c, pending, owed, npus),
         NEW i \in DOMAIN Insts, NEW n \in NpusOf(Insts[i]),
         NEW k \in DOMAIN c.sched[i].inflight, c.sched[i].inflight[k].id < npus[n].ended
  PROVE  LET d == [c EXCEPT !.sched[i].inflight[k].ended = @ \cup {n}]
         IN  /\ LoopOK(d, pending, owed, npus)
             /\ k \in 1..Len(d.sched[i].inflight)
             /\ d.sched[i].inflight[k].id < npus[n].ended
<1> DEFINE d == [c EXCEPT !.sched[i].inflight[k].ended = @ \cup {n}]
<1> DEFINE s == c.sched[i]
<1> DEFINE t == d.sched[i]
<1> DEFINE due == Due(c, pending, i)
<1>1. /\ CoreShape(c) /\ SchedShape(s, i) /\ BatchesOK(owed, npus, s, due, i)
      /\ NoneMissing(npus, s, i)
  BY DEF LoopOK
<1>2. k \in 1..Len(s.inflight) /\ DOMAIN s.inflight = 1..Len(s.inflight) /\ Len(s.inflight) \in Nat
  BY <1>1, ListLen DEF SchedShape
<1>3. /\ CoreShape(d) /\ \A j \in DOMAIN Insts \ {i} : d.sched[j] = c.sched[j]
      /\ t = [s EXCEPT !.inflight[k].ended = @ \cup {n}]
  BY <1>1 DEF CoreShape
<1> HIDE DEF d, s, t, due
<1>4. /\ DOMAIN t = {"waiting", "running", "inflight", "nextId"} /\ t.nextId = s.nextId
      /\ t.inflight = [s.inflight EXCEPT ![k].ended = @ \cup {n}]
  BY <1>1, <1>3 DEF SchedShape
<1> DEFINE fl == s.inflight
<1> DEFINE gl == t.inflight
<1> DEFINE len == Len(fl)
<1>5. /\ gl = [l \in 1..len |-> gl[l]]
      /\ \A l \in 1..len \ {k} : gl[l] = fl[l]
      /\ gl[k] = [fl[k] EXCEPT !.ended = @ \cup {n}]
  BY <1>2, <1>4
<1>6. List(gl) /\ Len(gl) = len
  <2> HIDE DEF gl, fl, len
  <2>1. QED
    BY <1>2, <1>5, ListFrom DEF fl, len
<1>7. SchedShape(t, i)
  BY <1>1, <1>4, <1>6 DEF SchedShape
<1>8. \A l \in 1..len : BatchShape(fl[l], i) /\ BatchOK(owed, npus, fl[l], due)
  BY <1>1 DEF BatchesOK
<1>9. ASSUME NEW l \in 1..len
      PROVE  /\ BatchShape(gl[l], i) /\ BatchOK(owed, npus, gl[l], due)
             /\ gl[l].id = fl[l].id /\ Opener(gl[l]) = Opener(fl[l])
  <2> HIDE DEF gl, fl, len
  <2>1. CASE l # k
    BY <1>5, <1>8, <2>1
  <2>2. CASE l = k
    <3>1. /\ DOMAIN gl[k] = {"id", "reqs", "fired", "ended", "name"}
          /\ gl[k].id = fl[k].id /\ gl[k].fired = fl[k].fired /\ gl[k].name = fl[k].name
          /\ gl[k].ended = fl[k].ended \cup {n}
      BY <1>5, <1>8, <2>2 DEF BatchShape
    <3>2. BatchShape(gl[k], i)
      BY <1>8, <2>2, <3>1 DEF BatchShape
    <3>3. Opener(gl[k]) = Opener(fl[k])
      BY <3>1 DEF Opener
    <3>4. fl[k].id < npus[n].ended
      BY DEF fl, s
    <3>5. BatchOK(owed, npus, gl[k], due)
      BY <1>8, <2>2, <3>1, <3>3, <3>4 DEF BatchOK
    <3>6. QED
      BY <2>2, <3>1, <3>2, <3>3, <3>5
  <2>3. QED
    BY <2>1, <2>2
<1>10. BatchesOK(owed, npus, t, due, i)
  <2>1. \A a, b \in 1..len : /\ fl[a].id < s.nextId /\ (fl[a].id = fl[b].id => a = b)
                             /\ fl[a].id >= due /\ fl[b].id >= due => Opener(fl[a]) = Opener(fl[b])
    BY <1>1 DEF BatchesOK
  <2> HIDE DEF fl, len, gl
  <2>2. ASSUME NEW a \in 1..len, NEW b \in 1..len
        PROVE  /\ BatchShape(gl[a], i) /\ BatchOK(owed, npus, gl[a], due) /\ gl[a].id < s.nextId
               /\ gl[a].id = gl[b].id => a = b
               /\ gl[a].id >= due /\ gl[b].id >= due => Opener(gl[a]) = Opener(gl[b])
    BY <1>9, <2>1
  <2>3. len = Len(t.inflight) /\ gl = t.inflight
    BY <1>6 DEF gl
  <2>4. QED
    BY <1>4, <2>2, <2>3 DEF BatchesOK
<1>11. NoneMissing(npus, t, i)
  <2> HIDE DEF fl, len
  <2>1. QED
    BY <1>1, <1>4, <1>6, <1>9 DEF NoneMissing, fl, len
<1>12. LoopOK(d, pending, owed, npus)
  BY <1>3, <1>4, <1>7, <1>10, <1>11, OneInstance DEF s, t, due
<1>13. gl[k].id < npus[n].ended
  BY <1>2, <1>9 DEF s
<1>14. QED
  BY <1>2, <1>6, <1>12, <1>13 DEF d, t

LEMMA Removed ==
  ASSUME NEW c, NEW pending, NEW owed, NEW npus, LoopOK(c, pending, owed, npus),
         NEW i \in DOMAIN Insts, NEW k \in 1..Len(c.sched[i].inflight),
         {Insts[i].start, LastOf(Insts[i])} \subseteq c.sched[i].inflight[k].ended
  PROVE  LoopOK(CompleteBatch(c, i, k), pending, owed, npus)
<1> DEFINE d == CompleteBatch(c, i, k)
<1> DEFINE s == c.sched[i]
<1> DEFINE t == d.sched[i]
<1> DEFINE due == Due(c, pending, i)
<1>1. /\ CoreShape(c) /\ SchedShape(s, i) /\ BatchesOK(owed, npus, s, due, i)
      /\ NoneMissing(npus, s, i)
  BY DEF LoopOK
<1>2. \E running, made, gen, over, finished :
        d = [c EXCEPT !.made = made, !.gen = gen, !.sched[i].running = running,
                      !.sched[i].inflight = RemoveAt(@, k), !.served = over, !.finished = finished]
  BY DEF CompleteBatch
<1> HIDE DEF d
<1>3. PICK running, made, gen, over, finished :
        d = [c EXCEPT !.made = made, !.gen = gen, !.sched[i].running = running,
                      !.sched[i].inflight = RemoveAt(@, k), !.served = over, !.finished = finished]
  BY <1>2
<1>4. /\ CoreShape(d) /\ \A j \in DOMAIN Insts \ {i} : d.sched[j] = c.sched[j]
      /\ DOMAIN t = {"waiting", "running", "inflight", "nextId"} /\ t.nextId = s.nextId
      /\ t.inflight = RemoveAt(s.inflight, k)
  BY <1>1, <1>3 DEF CoreShape, SchedShape
<1> DEFINE fl == s.inflight
<1> DEFINE gl == t.inflight
<1> DEFINE len == Len(fl)
<1>5. len \in Nat /\ k \in 1..len /\ List(fl)
  BY <1>1, ListLen DEF SchedShape
<1>6. /\ List(gl) /\ Len(gl) = len - 1 /\ \A l \in 1..(len - 1) : gl[l] = fl[Shifted(l, k)]
  <2>1. gl = RemoveAt(fl, k)
    BY <1>4
  <2> HIDE DEF gl, fl, len
  <2>2. QED
    BY <1>5, <2>1, ListRemoveAt DEF len
<1>7. \A l \in 1..(len - 1) : Shifted(l, k) \in 1..len
  BY <1>5 DEF Shifted
<1>8. \A l, m \in 1..(len - 1) : Shifted(l, k) = Shifted(m, k) => l = m
  BY <1>5 DEF Shifted
<1>9. \A l \in 1..len \ {k} : \E m \in 1..(len - 1) : Shifted(m, k) = l
  <2>1. SUFFICES ASSUME NEW l \in 1..len, l # k PROVE \E m \in 1..(len - 1) : Shifted(m, k) = l
    OBVIOUS
  <2> HIDE DEF len
  <2>2. CASE l < k
    <3>1. l \in 1..(len - 1) /\ Shifted(l, k) = l
      BY <1>5, <2>2 DEF Shifted
    <3>2. QED
      BY <3>1
  <2>3. CASE ~(l < k)
    <3>1. l - 1 \in 1..(len - 1) /\ Shifted(l - 1, k) = l
      BY <1>5, <2>1, <2>3 DEF Shifted
    <3>2. QED
      BY <3>1
  <2>4. QED
    BY <2>2, <2>3
<1>10. SchedShape(t, i)
  BY <1>1, <1>4, <1>6 DEF SchedShape
<1>11. \A a, b \in 1..len :
         /\ BatchShape(fl[a], i) /\ BatchOK(owed, npus, fl[a], due) /\ fl[a].id < s.nextId
         /\ fl[a].id = fl[b].id => a = b
         /\ fl[a].id >= due /\ fl[b].id >= due => Opener(fl[a]) = Opener(fl[b])
  BY <1>1 DEF BatchesOK
<1>12. BatchesOK(owed, npus, t, due, i)
  <2> HIDE DEF gl, fl, len, t, due
  <2>1. ASSUME NEW a \in 1..(len - 1), NEW b \in 1..(len - 1)
        PROVE  /\ BatchShape(gl[a], i) /\ BatchOK(owed, npus, gl[a], due) /\ gl[a].id < s.nextId
               /\ gl[a].id = gl[b].id => a = b
               /\ gl[a].id >= due /\ gl[b].id >= due => Opener(gl[a]) = Opener(gl[b])
    BY <1>6, <1>7, <1>8, <1>11
  <2>2. len - 1 = Len(t.inflight) /\ gl = t.inflight
    BY <1>6 DEF gl
  <2>3. QED
    BY <1>4, <2>1, <2>2 DEF BatchesOK
<1>13. NoneMissing(npus, t, i)
  <2>1. SUFFICES ASSUME NEW x \in 0..(t.nextId - 1)
                 PROVE  \/ \E l \in 1..Len(gl) : gl[l].id = x
                        \/ x < npus[Insts[i].start].ended /\ x < npus[LastOf(Insts[i])].ended
    BY DEF NoneMissing
  <2>2. CASE \E l \in 1..len : fl[l].id = x
    <3>1. PICK l \in 1..len : fl[l].id = x
      BY <2>2
    <3>2. CASE l = k
      <4>1. \A n \in fl[k].ended : fl[k].id < npus[n].ended
        BY <1>5, <1>11 DEF BatchOK
      <4>2. QED
        BY <3>1, <3>2, <4>1
    <3>3. CASE l # k
      <4>1. PICK m \in 1..(len - 1) : Shifted(m, k) = l
        BY <1>9, <3>3
      <4> HIDE DEF gl, fl, len
      <4>2. QED
        BY <1>6, <3>1, <4>1
    <3>4. QED
      BY <3>2, <3>3
  <2>3. CASE ~\E l \in 1..len : fl[l].id = x
    BY <1>1, <1>4, <2>3 DEF NoneMissing
  <2>4. QED
    BY <2>2, <2>3
<1>14. LoopOK(d, pending, owed, npus)
  <2> HIDE DEF gl, fl, len
  <2>1. QED
    BY <1>4, <1>10, <1>12, <1>13, OneInstance
<1>15. QED
  BY <1>14 DEF d

LEMMA DoneAdded ==
  ASSUME NEW c, NEW pending, LoopOK(c, pending, dpReady, npu), NEW n \in DOMAIN npu
  PROVE  LoopOK(AddDone(c, n), pending, dpReady, npu)
<1> DEFINE i == InstOf(n)
<1> DEFINE fl == c.sched[i].inflight
<1> DEFINE batches == {k \in DOMAIN fl : fl[k].id + 1 = npu[n].ended /\ n \notin fl[k].ended}
<1> DEFINE k == CHOOSE k \in batches : TRUE
<1> DEFINE marked == [c EXCEPT !.sched[i].inflight[k].ended = @ \cup {n}]
<1>1. i \in DOMAIN Insts /\ n \in NpusOf(Insts[i])
  BY PlacedNpus DEF LoopOK, NpusOK
<1>2. AddDone(c, n) =
        IF batches = {} THEN c
        ELSE IF {Insts[i].start, LastOf(Insts[i])} \subseteq marked.sched[i].inflight[k].ended
             THEN CompleteBatch(marked, i, k)
             ELSE marked
  BY DEF AddDone
<1>3. CASE batches = {}
  <2> HIDE DEF batches, k, marked, i, fl
  <2>1. AddDone(c, n) = c
    BY <1>2, <1>3
  <2>2. QED
    BY <2>1
<1>4. CASE batches # {}
  <2>1. k \in DOMAIN fl /\ fl[k].id + 1 = npu[n].ended
    BY <1>4
  <2>2. SchedShape(c.sched[i], i) /\ BatchesOK(dpReady, npu, c.sched[i], Due(c, pending, i), i)
    BY <1>1 DEF LoopOK
  <2> HIDE DEF batches, k, i
  <2>3. fl[k].id \in Nat
    <3>1. k \in 1..Len(fl)
      BY <2>1, <2>2, ListLen DEF SchedShape
    <3>2. BatchShape(fl[k], i)
      BY <2>2, <3>1 DEF BatchesOK
    <3>3. QED
      BY <3>2 DEF BatchShape
  <2>4. fl[k].id < npu[n].ended
    <3> HIDE DEF fl
    <3>1. QED
      BY <2>1, <2>3
  <2>5. LoopOK(marked, pending, dpReady, npu) /\ k \in 1..Len(marked.sched[i].inflight)
    BY <1>1, <2>1, <2>4, Marked
  <2> HIDE DEF marked, fl
  <2>6. CASE {Insts[i].start, LastOf(Insts[i])} \subseteq marked.sched[i].inflight[k].ended
    BY <1>1, <1>2, <1>4, <2>5, <2>6, Removed
  <2>7. CASE ~({Insts[i].start, LastOf(Insts[i])} \subseteq marked.sched[i].inflight[k].ended)
    BY <1>2, <1>4, <2>5, <2>7
  <2>8. QED
    BY <2>6, <2>7
<1>5. QED
  BY <1>3, <1>4

-----------------------------------------------------------------------------
(* Giving out graphs. *)

(* An NPU that is not busy has ended all it has run. *)
LEMMA IdleNpu ==
  ASSUME NEW c, NEW pending, NEW owed, NEW npus, LoopOK(c, pending, owed, npus),
         NEW i \in DOMAIN Insts, NEW n \in NpusOf(Insts[i]), npus[n].mode # "busy"
  PROVE  /\ n \in DOMAIN npus /\ InstOf(n) = i /\ NpuOK(npus[n], owed[n])
         /\ npus[n].ended = Len(npus[n].log) /\ npus[n].ended \in Nat
         /\ Len(owed[n]) \in Nat /\ (owed[n] = << >> <=> Len(owed[n]) = 0)
         /\ Got(owed, npus, n) = npus[n].ended + Len(owed[n])
         /\ Got(owed, npus, n) <= Due(c, pending, i)
<1>1. n \in DOMAIN npus /\ InstOf(n) = i
  BY PlacedNpus DEF LoopOK, NpusOK
<1>2. NpuOK(npus[n], owed[n]) /\ Got(owed, npus, n) <= Due(c, pending, i)
  BY <1>1 DEF LoopOK, NpusOK
<1>3. QED
  BY <1>1, <1>2, ListLen DEF NpuOK, Got

(* The graph an NPU is owed first is the next of its batches. *)
LEMMA HandedOver ==
  ASSUME NEW c, NEW pending, NEW owed, NEW npus, LoopOK(c, pending, owed, npus),
         NEW n \in DOMAIN npus, npus[n].mode # "busy", owed[n] # << >>
  PROVE  LoopOK(c, pending, [owed EXCEPT ![n] = Tail(@)], GiveWorkload(npus, n, Head(owed[n])))
<1> DEFINE g == Head(owed[n])
<1> DEFINE rest == [owed EXCEPT ![n] = Tail(@)]
<1> DEFINE open == Reopened(npus)
<1> DEFINE new == [open EXCEPT ![n].mode = "busy", ![n].log = Append(@, g)]
<1>1. LoopOK(c, pending, owed, open) /\ open[n].mode # "busy" /\ DOMAIN open = DOMAIN npus
  <2>1. LoopOK(c, pending, owed, open)
    BY ModesOnly
  <2>2. DOMAIN open = DOMAIN npus /\ open[n].mode # "busy"
    <3>1. \A m \in DOMAIN npus : DOMAIN npus[m] = {"mode", "until", "log", "ended"}
      BY DEF LoopOK, NpusOK, NpuOK
    <3>2. QED
      BY <3>1, ReopenedModes
  <2>3. QED
    BY <2>1, <2>2
<1> HIDE DEF open
<1>2. /\ DOMAIN open = 0..(TotalNpu(Insts) - 1) /\ DOMAIN owed = DOMAIN open
      /\ \A m \in DOMAIN open : /\ NpuOK(open[m], owed[m])
                                /\ Got(owed, open, m) <= Due(c, pending, InstOf(m))
  BY <1>1 DEF LoopOK, NpusOK
<1>3. /\ DOMAIN new = DOMAIN open /\ DOMAIN rest = DOMAIN owed
      /\ \A m \in DOMAIN open \ {n} : new[m] = open[m] /\ rest[m] = owed[m]
      /\ DOMAIN new[n] = {"mode", "until", "log", "ended"}
      /\ new[n].mode = "busy" /\ new[n].log = Append(open[n].log, g)
      /\ new[n].ended = open[n].ended /\ rest[n] = Tail(owed[n])
  BY <1>1, <1>2 DEF NpuOK
<1> HIDE DEF new, rest
<1>4. /\ List(open[n].log) /\ List(owed[n]) /\ Len(open[n].log) \in Nat /\ Len(owed[n]) \in Nat
      /\ open[n].ended = Len(open[n].log)
  BY <1>1, <1>2, ListLen DEF NpuOK
<1>5. /\ List(new[n].log) /\ Len(new[n].log) = Len(open[n].log) + 1
      /\ \A k \in 1..Len(open[n].log) : new[n].log[k] = open[n].log[k]
      /\ new[n].log[Len(open[n].log) + 1] = g
  BY <1>3, <1>4, ListAppend
<1>6. /\ List(rest[n]) /\ Len(rest[n]) = Len(owed[n]) - 1 /\ Len(owed[n]) >= 1
      /\ \A k \in 1..(Len(owed[n]) - 1) : rest[n][k] = owed[n][k + 1]
      /\ g = owed[n][1]
  BY <1>3, <1>4, ListTail
<1>7. NpuOK(new[n], rest[n])
  <2>1. /\ \A k \in 1..Len(open[n].log) : OfBatch(open[n].log[k], k - 1)
        /\ \A k \in 1..Len(owed[n]) : OfBatch(owed[n][k], Len(open[n].log) + k - 1)
    BY <1>1, <1>2 DEF NpuOK
  <2>2. OfBatch(g, Len(open[n].log))
    <3>1. 1 \in 1..Len(owed[n]) /\ Len(open[n].log) + 1 - 1 = Len(open[n].log)
      BY <1>4, <1>6
    <3>2. OfBatch(owed[n][1], Len(open[n].log) + 1 - 1)
      BY <2>1, <3>1
    <3>3. QED
      BY <1>6, <3>1, <3>2
  <2>3. ASSUME NEW k \in 1..Len(new[n].log) PROVE OfBatch(new[n].log[k], k - 1)
    <3>1. CASE k = Len(open[n].log) + 1
      BY <1>4, <1>5, <2>2, <3>1
    <3>2. CASE k # Len(open[n].log) + 1
      BY <1>4, <1>5, <2>1, <3>2
    <3>3. QED
      BY <3>1, <3>2
  <2>4. ASSUME NEW k \in 1..Len(rest[n]) PROVE OfBatch(rest[n][k], Len(new[n].log) + k - 1)
    <3>1. /\ k + 1 \in 1..Len(owed[n]) /\ k \in 1..(Len(owed[n]) - 1)
          /\ Len(new[n].log) + k - 1 = Len(open[n].log) + (k + 1) - 1
      BY <1>4, <1>5, <1>6
    <3>2. QED
      BY <1>6, <2>1, <3>1
  <2>5. QED
    BY <1>3, <1>4, <1>5, <1>6, <2>3, <2>4 DEF NpuOK
<1>8. \A m \in DOMAIN open : Got(rest, new, m) = Got(owed, open, m)
  <2>1. Len(new[n].log) + Len(rest[n]) = Len(open[n].log) + Len(owed[n])
    <3>1. Len(new[n].log) = Len(open[n].log) + 1 /\ Len(rest[n]) = Len(owed[n]) - 1
      BY <1>5, <1>6
    <3>2. ASSUME NEW a \in Nat, NEW b \in Nat PROVE (a + 1) + (b - 1) = a + b
      OBVIOUS
    <3>3. QED
      BY ONLY <1>4, <3>1, <3>2
  <2>2. QED
    BY <1>3, <2>1 DEF Got
<1>9. \A m \in DOMAIN open : new[m].ended = open[m].ended /\ Len(open[m].log) <= Len(new[m].log)
                             /\ Len(new[m].log) \in Nat
  <2>1. \A m \in DOMAIN open : Len(open[m].log) \in Nat
    BY <1>2, ListLen DEF NpuOK
  <2>2. QED
    BY <1>3, <1>4, <1>5, <2>1
<1>10. LoopOK(c, pending, rest, new)
  <2>1. NpusOK(c, pending, rest, new)
    BY <1>2, <1>3, <1>7, <1>8 DEF NpusOK
  <2>2. LoopOK(c, pending, owed, open)
    BY <1>1
  <2>3. QED
    BY <1>3, <1>8, <1>9, <2>1, <2>2, MoreLogs
<1>11. QED
  BY <1>10 DEF GiveWorkload, new, open, rest

LEMMA AppendedSet ==
  ASSUME NEW S, NEW s \in Seq(S), NEW x \in S
  PROVE  ToSet(Append(s, x)) = ToSet(s) \cup {x}
<1>1. Len(s) \in Nat /\ DOMAIN s = 1..Len(s)
  BY LenProperties
<1>2. /\ Append(s, x) \in Seq(S) /\ Len(Append(s, x)) = Len(s) + 1
      /\ \A k \in 1..Len(s) : Append(s, x)[k] = s[k]
      /\ Append(s, x)[Len(s) + 1] = x
  BY AppendProperties
<1>3. DOMAIN Append(s, x) = 1..(Len(s) + 1)
  BY <1>2, LenProperties
<1>4. ToSet(Append(s, x)) \subseteq ToSet(s) \cup {x}
  BY <1>1, <1>2, <1>3 DEF ToSet
<1>5. ToSet(s) \subseteq ToSet(Append(s, x))
  BY <1>1, <1>2, <1>3 DEF ToSet
<1>6. x \in ToSet(Append(s, x))
  BY <1>1, <1>2, <1>3 DEF ToSet
<1>7. QED
  BY <1>4, <1>5, <1>6

(* An NPU with nothing owed to it runs a batch that went through the       *)
(* barrier: the one it has not run yet.                                    *)
LEMMA GivenGraph ==
  ASSUME NEW c, NEW pending, NEW owed, NEW npus, LoopOK(c, pending, owed, npus),
         NEW i \in DOMAIN Insts, NEW n \in NpusOf(Insts[i]),
         npus[n].mode # "busy", owed[n] = << >>,
         NEW g, OfBatch(g, npus[n].ended)
  PROVE  LET new == GiveWorkload(npus, n, g)
         IN  /\ DOMAIN new = DOMAIN npus
             /\ NpuOK(new[n], << >>) /\ Len(new[n].log) = npus[n].ended + 1
             /\ new[n].ended = npus[n].ended
             /\ \A m \in DOMAIN npus \ {n} : /\ NpuOK(new[m], owed[m])
                                             /\ Len(new[m].log) = Len(npus[m].log)
                                             /\ new[m].log = npus[m].log
                                             /\ new[m].ended = npus[m].ended
<1> DEFINE open == Reopened(npus)
<1> DEFINE new == [open EXCEPT ![n].mode = "busy", ![n].log = Append(@, g)]
<1>1. /\ n \in DOMAIN npus /\ \A m \in DOMAIN npus : NpuOK(npus[m], owed[m])
      /\ npus[n].ended = Len(npus[n].log) /\ npus[n].ended \in Nat
  <2>1. \A m \in DOMAIN npus : NpuOK(npus[m], owed[m])
    BY DEF LoopOK, NpusOK
  <2>2. n \in DOMAIN npus /\ npus[n].ended = Len(npus[n].log) /\ npus[n].ended \in Nat
    BY IdleNpu
  <2>3. QED
    BY <2>1, <2>2
<1>2. /\ DOMAIN open = DOMAIN npus
      /\ \A m \in DOMAIN npus : /\ DOMAIN open[m] = {"mode", "until", "log", "ended"}
                                /\ open[m].log = npus[m].log /\ open[m].ended = npus[m].ended
                                /\ open[m].mode = "busy" <=> npus[m].mode = "busy"
  <2>1. \A m \in DOMAIN npus : DOMAIN npus[m] = {"mode", "until", "log", "ended"}
    BY <1>1 DEF NpuOK
  <2>2. QED
    BY <2>1, ReopenedModes
<1> HIDE DEF open
<1>3. /\ DOMAIN new = DOMAIN npus
      /\ \A m \in DOMAIN npus \ {n} : new[m] = open[m]
      /\ DOMAIN new[n] = {"mode", "until", "log", "ended"}
      /\ new[n].mode = "busy" /\ new[n].log = Append(npus[n].log, g)
      /\ new[n].ended = npus[n].ended
  BY <1>1, <1>2
<1> HIDE DEF new
<1>4. /\ List(npus[n].log) /\ \A k \in 1..Len(npus[n].log) : OfBatch(npus[n].log[k], k - 1)
  BY <1>1 DEF NpuOK
<1>5. /\ List(new[n].log) /\ Len(new[n].log) = Len(npus[n].log) + 1
      /\ \A k \in 1..Len(npus[n].log) : new[n].log[k] = npus[n].log[k]
      /\ new[n].log[Len(npus[n].log) + 1] = g
  BY <1>3, <1>4, ListAppend
<1>6. ASSUME NEW k \in 1..Len(new[n].log) PROVE OfBatch(new[n].log[k], k - 1)
  <2>1. Len(npus[n].log) \in Nat
    BY <1>1
  <2>2. CASE k = Len(npus[n].log) + 1
    <3>1. k - 1 = npus[n].ended
      BY <1>1, <2>1, <2>2
    <3>2. QED
      BY <1>5, <2>2, <3>1
  <2>3. CASE k # Len(npus[n].log) + 1
    <3>1. k \in 1..Len(npus[n].log)
      BY <1>5, <2>1, <2>3
    <3>2. QED
      BY <1>4, <1>5, <3>1
  <2>4. QED
    BY <2>2, <2>3
<1>7. NpuOK(new[n], << >>)
  <2>1. List(<< >>) /\ Len(<< >>) = 0
    <3>1. << >> \in Seq({})
      OBVIOUS
    <3>2. QED
      BY <3>1, ListOf
  <2>2. new[n].ended = Len(new[n].log) - 1
    BY <1>1, <1>3, <1>5
  <2>3. QED
    BY <1>3, <1>5, <1>6, <2>1, <2>2 DEF NpuOK
<1>8. ASSUME NEW m \in DOMAIN npus \ {n}
      PROVE  /\ NpuOK(new[m], owed[m]) /\ Len(new[m].log) = Len(npus[m].log)
             /\ new[m].log = npus[m].log /\ new[m].ended = npus[m].ended
  BY <1>1, <1>2, <1>3 DEF NpuOK
<1>9. new = GiveWorkload(npus, n, g)
  BY DEF GiveWorkload, new, open
<1>10. QED
  BY <1>1, <1>3, <1>5, <1>7, <1>8, <1>9

LEMMA BatchJoined ==
  ASSUME NEW c, NEW pending, NEW owed, NEW npus, LoopOK(c, pending, owed, npus),
         NEW i \in DOMAIN Insts, NEW n \in NpusOf(Insts[i]),
         npus[n].mode # "busy", owed[n] = << >>,
         NEW k \in DOMAIN c.sched[i].inflight, c.sched[i].inflight[k].id = npus[n].ended,
         c.sched[i].inflight[k].id < Due(c, pending, i),
         NEW g, OfBatch(g, npus[n].ended)
  PROVE  LoopOK([c EXCEPT !.sched[i].inflight[k].fired = Append(@, n)], pending, owed,
                GiveWorkload(npus, n, g))
<1> DEFINE d == [c EXCEPT !.sched[i].inflight[k].fired = Append(@, n)]
<1> DEFINE s == c.sched[i]
<1> DEFINE t == d.sched[i]
<1> DEFINE due == Due(c, pending, i)
<1> DEFINE new == GiveWorkload(npus, n, g)
<1>1. /\ CoreShape(c) /\ SchedShape(s, i) /\ BatchesOK(owed, npus, s, due, i)
      /\ NoneMissing(npus, s, i)
  BY DEF LoopOK
<1>2. k \in 1..Len(s.inflight) /\ DOMAIN s.inflight = 1..Len(s.inflight) /\ Len(s.inflight) \in Nat
  BY <1>1, ListLen DEF SchedShape
<1>3. /\ CoreShape(d) /\ \A j \in DOMAIN Insts \ {i} : d.sched[j] = c.sched[j]
      /\ t = [s EXCEPT !.inflight[k].fired = Append(@, n)]
  BY <1>1 DEF CoreShape
<1>4. /\ DOMAIN new = DOMAIN npus /\ NpuOK(new[n], << >>) /\ Len(new[n].log) = npus[n].ended + 1
      /\ new[n].ended = npus[n].ended
      /\ \A m \in DOMAIN npus \ {n} : /\ NpuOK(new[m], owed[m])
                                      /\ Len(new[m].log) = Len(npus[m].log)
                                      /\ new[m].log = npus[m].log
                                      /\ new[m].ended = npus[m].ended
  BY GivenGraph
<1>5. /\ n \in DOMAIN npus /\ InstOf(n) = i /\ npus[n].ended = Len(npus[n].log)
      /\ npus[n].ended \in Nat /\ Len(owed[n]) = 0 /\ Got(owed, npus, n) = npus[n].ended
  BY IdleNpu
<1>6. s.inflight[k].id = npus[n].ended /\ npus[n].ended < due /\ due \in Nat
  BY DEF LoopOK, PendingOK
<1> HIDE DEF d, s, t, due, new
<1>7. /\ Got(owed, new, n) = npus[n].ended + 1
      /\ \A m \in DOMAIN npus \ {n} : Got(owed, new, m) = Got(owed, npus, m)
  <2>1. \A m \in DOMAIN npus \ {n} : Got(owed, new, m) = Got(owed, npus, m)
    BY <1>4 DEF Got
  <2>2. Got(owed, new, n) = (npus[n].ended + 1) + 0
    BY <1>4, <1>5 DEF Got
  <2>3. QED
    BY <1>5, <2>1, <2>2
<1>8. /\ DOMAIN t = {"waiting", "running", "inflight", "nextId"} /\ t.nextId = s.nextId
      /\ t.inflight = [s.inflight EXCEPT ![k].fired = Append(@, n)]
  BY <1>1, <1>3 DEF SchedShape
<1> DEFINE fl == s.inflight
<1> DEFINE gl == t.inflight
<1> DEFINE len == Len(fl)
<1>9. /\ gl = [l \in 1..len |-> gl[l]]
      /\ \A l \in 1..len \ {k} : gl[l] = fl[l]
      /\ gl[k] = [fl[k] EXCEPT !.fired = Append(@, n)]
  BY <1>2, <1>8
<1>10. List(gl) /\ Len(gl) = len
  <2> HIDE DEF gl, fl, len
  <2>1. QED
    BY <1>2, <1>9, ListFrom DEF fl, len
<1>11. SchedShape(t, i)
  BY <1>1, <1>8, <1>10 DEF SchedShape
<1>12. \A a, b \in 1..len :
         /\ BatchShape(fl[a], i) /\ BatchOK(owed, npus, fl[a], due) /\ fl[a].id < s.nextId
         /\ fl[a].id = fl[b].id => a = b
         /\ fl[a].id >= due /\ fl[b].id >= due => Opener(fl[a]) = Opener(fl[b])
  BY <1>1 DEF BatchesOK
<1>13. \A m \in NpusOf(Insts[i]) : m \in DOMAIN npus
  BY PlacedNpus DEF LoopOK, NpusOK
<1>14. ASSUME NEW l \in 1..len
       PROVE  /\ BatchShape(gl[l], i) /\ BatchOK(owed, new, gl[l], due)
              /\ gl[l].id = fl[l].id
              /\ Opener(gl[l]) = Opener(fl[l])
  <2> HIDE DEF gl, fl, len
  <2>1. BatchShape(fl[l], i) /\ BatchOK(owed, npus, fl[l], due)
    BY <1>12
  <2>2. /\ fl[l].fired \in Seq(NpusOf(Insts[i])) /\ fl[l].fired # << >>
        /\ Opener(fl[l]) \in NpusOf(Insts[i]) /\ ToSet(fl[l].fired) \subseteq NpusOf(Insts[i])
    BY <2>1, HeadTailProperties, ToSetType DEF BatchShape, Opener
  <2>3. /\ gl[l].id = fl[l].id /\ gl[l].name = fl[l].name /\ gl[l].ended = fl[l].ended
        /\ BatchShape(gl[l], i) /\ Opener(gl[l]) = Opener(fl[l])
        /\ ToSet(gl[l].fired) \subseteq ToSet(fl[l].fired) \cup {n}
        /\ l # k => gl[l] = fl[l]
    <3>1. CASE l # k
      BY <1>9, <2>1, <3>1
    <3>2. CASE l = k
      <4>1. /\ DOMAIN gl[k] = {"id", "reqs", "fired", "ended", "name"}
            /\ gl[k].id = fl[k].id /\ gl[k].name = fl[k].name /\ gl[k].ended = fl[k].ended
            /\ gl[k].fired = Append(fl[k].fired, n)
        BY <1>9, <2>1, <3>2 DEF BatchShape
      <4>2. /\ gl[k].fired \in Seq(NpusOf(Insts[i])) /\ gl[k].fired # << >>
        BY <2>2, <3>2, <4>1, AppendProperties
      <4>3. Head(gl[k].fired) = Head(fl[k].fired)
        BY <2>2, <3>2, <4>1, HeadTailAppend
      <4>4. ToSet(gl[k].fired) \subseteq ToSet(fl[k].fired) \cup {n}
        BY <2>2, <3>2, <4>1, AppendedSet
      <4>5. BatchShape(gl[k], i)
        BY <2>1, <3>2, <4>1, <4>2 DEF BatchShape
      <4>6. QED
        BY <3>2, <4>1, <4>3, <4>4, <4>5 DEF Opener
    <3>3. QED
      BY <3>1, <3>2
  <2>4. fl[l].id \in Nat /\ fl[l].ended \subseteq NpusOf(Insts[i])
    BY <2>1 DEF BatchShape
  <2>5. \A m \in gl[l].ended : gl[l].id < new[m].ended
    BY <1>4, <1>13, <2>1, <2>3, <2>4 DEF BatchOK
  <2>6. gl[l].name # NoName => gl[l].name.round = gl[l].id /\ gl[l].id < due
    BY <2>1, <2>3 DEF BatchOK
  <2>7. ASSUME NEW m \in ToSet(gl[l].fired)
        PROVE  gl[l].id < Got(owed, new, m) \/ (gl[l].id >= due /\ Opener(gl[l]) = m)
    <3>1. CASE l = k /\ m = n
      BY <1>5, <1>6, <1>7, <2>3, <3>1 DEF fl
    <3>2. CASE m \in ToSet(fl[l].fired)
      <4>1. fl[l].id < Got(owed, npus, m) \/ (fl[l].id >= due /\ Opener(fl[l]) = m)
        BY <2>1, <3>2 DEF BatchOK
      <4>2. m \in DOMAIN npus
        BY <1>13, <2>2, <3>2
      <4>3. CASE m = n
        BY <1>5, <1>7, <2>3, <2>4, <4>1, <4>3
      <4>4. CASE m # n
        BY <1>7, <2>3, <4>1, <4>2, <4>4
      <4>5. QED
        BY <4>3, <4>4
    <3>3. QED
      BY <2>3, <3>1, <3>2
  <2>8. gl[l].id >= due => Got(owed, new, Opener(gl[l])) = due
    <3>1. SUFFICES ASSUME fl[l].id >= due PROVE Got(owed, new, Opener(fl[l])) = due
      BY <2>3
    <3>2. Got(owed, npus, Opener(fl[l])) = due /\ Opener(fl[l]) \in DOMAIN npus
      BY <1>13, <2>1, <2>2, <3>1 DEF BatchOK
    <3>3. Opener(fl[l]) # n
      BY <1>5, <1>6, <3>2
    <3>4. QED
      BY <1>7, <3>2, <3>3
  <2>9. BatchOK(owed, new, gl[l], due)
    BY <2>5, <2>6, <2>7, <2>8 DEF BatchOK
  <2>10. QED
    BY <2>3, <2>9
<1>15. BatchesOK(owed, new, t, due, i)
  <2> HIDE DEF gl, fl, len
  <2>1. ASSUME NEW a \in 1..len, NEW b \in 1..len
        PROVE  /\ BatchShape(gl[a], i) /\ BatchOK(owed, new, gl[a], due) /\ gl[a].id < s.nextId
               /\ gl[a].id = gl[b].id => a = b
               /\ gl[a].id >= due /\ gl[b].id >= due => Opener(gl[a]) = Opener(gl[b])
    BY <1>12, <1>14
  <2>2. len = Len(t.inflight) /\ gl = t.inflight
    BY <1>10 DEF gl
  <2>3. QED
    BY <1>8, <2>1, <2>2 DEF BatchesOK
<1>16. NoneMissing(new, t, i)
  <2>1. {Insts[i].start, LastOf(Insts[i])} \subseteq NpusOf(Insts[i])
    BY PlacedNpus DEF LoopOK
  <2>2. \A m \in NpusOf(Insts[i]) : new[m].ended = npus[m].ended
    BY <1>4, <1>13
  <2> HIDE DEF gl, fl, len
  <2>3. QED
    BY <1>1, <1>8, <1>10, <1>14, <2>1, <2>2 DEF NoneMissing, fl, gl, len
<1>17. \A j \in DOMAIN Insts : Due(d, pending, j) = Due(c, pending, j)
  BY <1>3, <1>8 DEF Due, s, t
<1>18. NpusOK(d, pending, owed, new)
  <2>1. ASSUME NEW m \in DOMAIN npus
        PROVE  NpuOK(new[m], owed[m]) /\ Got(owed, new, m) <= Due(c, pending, InstOf(m))
    <3>1. CASE m = n
      BY <1>4, <1>5, <1>6, <1>7, <3>1, IdleNpu DEF due
    <3>2. CASE m # n
      BY <1>4, <1>7, <3>2 DEF LoopOK, NpusOK
    <3>3. QED
      BY <3>1, <3>2
  <2>2. \A m \in DOMAIN npus : InstOf(m) \in DOMAIN Insts
    BY PlacedNpus DEF LoopOK, NpusOK
  <2>3. QED
    BY <1>4, <1>17, <2>1, <2>2 DEF LoopOK, NpusOK
<1>19. StagesOK(new)
  <2>1. \A m \in DOMAIN npus : Len(new[m].log) \in Nat /\ Len(npus[m].log) <= Len(new[m].log)
                               /\ new[m].ended = npus[m].ended
    <3>1. \A m \in DOMAIN npus : Len(npus[m].log) \in Nat
      BY ListLen DEF LoopOK, NpusOK, NpuOK
    <3>2. QED
      BY <1>4, <1>5, <3>1
  <2>2. QED
    BY <2>1, MoreRun
<1>20. ASSUME NEW j \in DOMAIN Insts
       PROVE  /\ SchedShape(d.sched[j], j) /\ BatchesOK(owed, new, d.sched[j], Due(d, pending, j), j)
              /\ NoneMissing(new, d.sched[j], j) /\ PendingOK(d, pending, j)
  <2>1. PendingOK(d, pending, j)
    BY <1>17 DEF LoopOK, PendingOK, GroupOf
  <2>2. CASE j = i
    BY <1>11, <1>15, <1>16, <1>17, <2>1, <2>2 DEF t, due
  <2>3. CASE j # i
    <3>1. d.sched[j] = c.sched[j]
      BY <1>3, <2>3
    <3>2. \A m \in NpusOf(Insts[j]) : m \in DOMAIN npus \ {n}
      BY <1>5, <2>3, PlacedNpus DEF LoopOK, NpusOK
    <3>3. BatchesOK(owed, new, c.sched[j], Due(c, pending, j), j) /\ NoneMissing(new, c.sched[j], j)
      BY <1>4, <1>7, <3>2, SameGot DEF LoopOK
    <3>4. QED
      BY <1>17, <2>1, <3>1, <3>3 DEF LoopOK
  <2>4. QED
    BY <2>2, <2>3
<1>21. LoopOK(d, pending, owed, new)
  BY <1>3, <1>18, <1>19, <1>20 DEF LoopOK
<1>22. QED
  BY <1>21 DEF d, new

-----------------------------------------------------------------------------
(* Opening a batch. *)

(* An NPU that is owed nothing and can join nothing has got every batch,   *)
(* or has opened all that wait at the barrier.                             *)
LEMMA MayOpen ==
  ASSUME NEW c, NEW pending, NEW owed, NEW npus, LoopOK(c, pending, owed, npus),
         NEW i \in DOMAIN Insts, NEW n \in NpusOf(Insts[i]),
         npus[n].mode # "busy", owed[n] = << >>,
         \A k \in DOMAIN c.sched[i].inflight :
           c.sched[i].inflight[k].id = npus[n].ended => n \in ToSet(c.sched[i].inflight[k].fired)
  PROVE  /\ Got(owed, npus, n) = Due(c, pending, i)
         /\ \A k \in DOMAIN c.sched[i].inflight :
              c.sched[i].inflight[k].id >= Due(c, pending, i) => Opener(c.sched[i].inflight[k]) = n
<1> DEFINE s == c.sched[i]
<1> DEFINE fl == s.inflight
<1> DEFINE due == Due(c, pending, i)
<1> DEFINE x == npus[n].ended
<1>1. /\ SchedShape(s, i) /\ BatchesOK(owed, npus, s, due, i) /\ NoneMissing(npus, s, i)
      /\ PendingOK(c, pending, i)
  BY DEF LoopOK
<1>2. /\ x = Len(npus[n].log) /\ x \in Nat /\ Got(owed, npus, n) = x /\ x <= due
  BY IdleNpu
<1>3. DOMAIN fl = 1..Len(fl) /\ Len(fl) \in Nat /\ s.nextId \in Nat
  BY <1>1, ListLen DEF SchedShape
<1>4. due \in Nat /\ due <= s.nextId
  <2>1. List(pending[i]) /\ Len(pending[i]) \in Nat /\ due = s.nextId - Len(pending[i])
    BY <1>1, ListLen DEF PendingOK, Due
  <2>2. QED
    BY <1>1, <1>3, <2>1 DEF PendingOK
<1>5. \A k, l \in 1..Len(fl) :
        /\ fl[k].id \in Nat /\ fl[k].id < s.nextId /\ BatchOK(owed, npus, fl[k], due)
        /\ fl[k].id >= due /\ fl[l].id >= due => Opener(fl[k]) = Opener(fl[l])
  BY <1>1 DEF BatchesOK, BatchShape
<1> HIDE DEF s, fl, due, x
<1>6. CASE x = s.nextId
  BY <1>2, <1>3, <1>4, <1>5, <1>6 DEF fl, s, due
<1>7. CASE x # s.nextId
  <2>1. x \in 0..(s.nextId - 1)
    BY <1>2, <1>3, <1>4, <1>7
  <2>2. ~(x < npus[LastOf(Insts[i])].ended)
    <3>1. /\ LastOf(Insts[i]) \in NpusOf(Insts[i]) /\ LastOf(Insts[i]) \in DOMAIN npus
          /\ StageOf(Insts[i], n) <= StageOf(Insts[i], LastOf(Insts[i]))
      BY PlacedNpus, Stages DEF LoopOK, NpusOK
    <3>2. npus[LastOf(Insts[i])].ended <= Len(npus[n].log)
      BY <3>1 DEF LoopOK, StagesOK
    <3>3. npus[LastOf(Insts[i])].ended \in Int
      <4> DEFINE y == npus[LastOf(Insts[i])]
      <4>1. /\ List(y.log)
            /\ y.ended = IF y.mode = "busy" THEN Len(y.log) - 1 ELSE Len(y.log)
        BY <3>1 DEF LoopOK, NpusOK, NpuOK
      <4> HIDE DEF y
      <4>2. y.ended \in Int
        BY <4>1, ListLen
      <4>3. QED
        BY <4>2 DEF y
    <3>4. QED
      BY <1>2, <3>2, <3>3
  <2>3. PICK k \in 1..Len(fl) : fl[k].id = x
    BY <1>1, <2>1, <2>2 DEF NoneMissing, fl, x
  <2>4. n \in ToSet(fl[k].fired)
    BY <1>3, <2>3 DEF fl, s, x
  <2>5. fl[k].id >= due /\ Opener(fl[k]) = n
    BY <1>2, <1>5, <2>3, <2>4 DEF BatchOK
  <2>6. x = due
    BY <1>2, <1>4, <2>3, <2>5
  <2>7. QED
    BY <1>2, <1>3, <1>5, <2>5, <2>6 DEF fl, s, due
<1>8. QED
  BY <1>6, <1>7

(* d is c after NPU n has opened the batch b. *)
OpensBatch(c, i, n, b, d) ==
  /\ BatchShape(b, i) /\ b.id = c.sched[i].nextId /\ b.fired = <<n>> /\ b.ended = {} /\ b.name = NoName
  /\ CoreShape(d) /\ \A j \in DOMAIN Insts \ {i} : d.sched[j] = c.sched[j]
  /\ DOMAIN d.sched[i] = {"waiting", "running", "inflight", "nextId"}
  /\ d.sched[i].inflight = Append(c.sched[i].inflight, b)
  /\ d.sched[i].nextId = c.sched[i].nextId + 1

(* n has got every batch, or has opened all that wait at the barrier.      *)
OpensNext(c, pending, owed, npus, i, n) ==
  /\ Got(owed, npus, n) = Due(c, pending, i)
  /\ \A k \in DOMAIN c.sched[i].inflight :
       c.sched[i].inflight[k].id >= Due(c, pending, i) => Opener(c.sched[i].inflight[k]) = n

LEMMA BatchOpened ==
  ASSUME NEW c, NEW pending, NEW owed, NEW npus, LoopOK(c, pending, owed, npus),
         NEW i \in DOMAIN Insts, NEW n \in NpusOf(Insts[i]),
         OpensNext(c, pending, owed, npus, i, n), NEW b, NEW d, OpensBatch(c, i, n, b, d)
  PROVE  LoopOK(d, [pending EXCEPT ![i] = Append(@, c.sched[i].nextId)], owed, npus)
<1> USE DEF OpensBatch, OpensNext
<1> DEFINE s == c.sched[i]
<1> DEFINE t == d.sched[i]
<1> DEFINE fl == s.inflight
<1> DEFINE gl == t.inflight
<1> DEFINE len == Len(fl)
<1> DEFINE more == [pending EXCEPT ![i] = Append(@, s.nextId)]
<1> DEFINE due == Due(c, pending, i)
<1>1. /\ CoreShape(c) /\ SchedShape(s, i) /\ BatchesOK(owed, npus, s, due, i)
      /\ NoneMissing(npus, s, i) /\ PendingOK(c, pending, i) /\ DOMAIN pending = DOMAIN Insts
  BY DEF LoopOK
<1>2. /\ len \in Nat /\ DOMAIN fl = 1..len /\ s.nextId \in Nat /\ List(fl)
      /\ List(pending[i]) /\ Len(pending[i]) \in Nat /\ due = s.nextId - Len(pending[i]) /\ due \in Nat
  BY <1>1, ListLen DEF SchedShape, PendingOK, Due
<1>3. /\ DOMAIN more = DOMAIN Insts /\ \A j \in DOMAIN Insts \ {i} : more[j] = pending[j]
      /\ List(more[i]) /\ Len(more[i]) = Len(pending[i]) + 1
      /\ \A k \in 1..Len(pending[i]) : more[i][k] = pending[i][k]
      /\ more[i][Len(pending[i]) + 1] = s.nextId
  <2>1. /\ DOMAIN more = DOMAIN Insts /\ \A j \in DOMAIN Insts \ {i} : more[j] = pending[j]
        /\ more[i] = Append(pending[i], s.nextId)
    BY <1>1
  <2> HIDE DEF more, s
  <2>2. QED
    BY <1>2, <2>1, ListAppend
<1>4. /\ List(gl) /\ Len(gl) = len + 1 /\ \A k \in 1..len : gl[k] = fl[k]
      /\ gl[len + 1] = b
  BY <1>2, ListAppend
<1>5. t.nextId = s.nextId + 1 /\ SchedShape(t, i)
  BY <1>2, <1>4 DEF SchedShape
<1>6. \A j \in DOMAIN Insts : Due(d, more, j) = Due(c, pending, j)
  <2>1. Due(d, more, i) = Due(c, pending, i)
    BY <1>2, <1>3, <1>5 DEF Due
  <2>2. QED
    BY <1>3, <2>1 DEF Due
<1>7. \A k, l \in 1..len :
        /\ BatchShape(fl[k], i) /\ fl[k].id \in Nat /\ fl[k].id < s.nextId /\ BatchOK(owed, npus, fl[k], due)
        /\ fl[k].id = fl[l].id => k = l
        /\ fl[k].id >= due => Opener(fl[k]) = n
  BY <1>1, <1>2 DEF BatchesOK, BatchShape
<1>8. Opener(b) = n /\ ToSet(b.fired) = {n} /\ b.id >= due
  <2>1. Head(<<n>>) = n /\ ToSet(<<n>>) = {n}
    BY DEF ToSet
  <2>2. QED
    BY <1>2, <2>1 DEF Opener
<1>9. BatchOK(owed, npus, b, due)
  BY <1>8 DEF BatchOK
<1> HIDE DEF s, t, fl, gl, len, more, due
<1>10. ASSUME NEW k \in 1..(len + 1), NEW l \in 1..(len + 1)
       PROVE  /\ BatchShape(gl[k], i) /\ BatchOK(owed, npus, gl[k], due) /\ gl[k].id < t.nextId
              /\ gl[k].id = gl[l].id => k = l
              /\ gl[k].id >= due /\ gl[l].id >= due => Opener(gl[k]) = Opener(gl[l])
  <2>1. b.id = s.nextId
    BY DEF s
  <2>2. /\ (k \in 1..len /\ gl[k] = fl[k]) \/ (k = len + 1 /\ gl[k] = b)
        /\ (l \in 1..len /\ gl[l] = fl[l]) \/ (l = len + 1 /\ gl[l] = b)
    BY <1>2, <1>4
  <2>3. CASE k \in 1..len
    BY <1>2, <1>5, <1>7, <1>8, <2>1, <2>2, <2>3
  <2>4. CASE k = len + 1
    BY <1>2, <1>4, <1>5, <1>7, <1>8, <1>9, <2>1, <2>2, <2>4
  <2>5. QED
    BY <2>2, <2>3, <2>4
<1>11. BatchesOK(owed, npus, t, due, i)
  <2>1. len + 1 = Len(t.inflight) /\ gl = t.inflight
    BY <1>4 DEF gl
  <2>2. QED
    BY <1>10, <2>1 DEF BatchesOK
<1>12. NoneMissing(npus, t, i)
  <2>1. SUFFICES ASSUME NEW x \in 0..(t.nextId - 1)
                 PROVE  \/ \E k \in 1..Len(gl) : gl[k].id = x
                        \/ x < npus[Insts[i].start].ended /\ x < npus[LastOf(Insts[i])].ended
    BY DEF NoneMissing, gl
  <2>2. CASE x = s.nextId
    <3>1. len + 1 \in 1..Len(gl) /\ gl[len + 1].id = x
      BY <1>2, <1>4, <2>2 DEF s
    <3>2. QED
      BY <3>1
  <2>3. CASE x # s.nextId
    <3>1. x \in 0..(s.nextId - 1)
      BY <1>2, <1>5, <2>3
    <3>2. CASE \E k \in 1..len : fl[k].id = x
      <4>1. \A k \in 1..len : k \in 1..Len(gl)
        BY <1>2, <1>4
      <4>2. QED
        BY <1>4, <3>2, <4>1
    <3>3. CASE ~\E k \in 1..len : fl[k].id = x
      BY <1>1, <3>1, <3>3 DEF NoneMissing, fl, len
    <3>4. QED
      BY <3>2, <3>3
  <2>4. QED
    BY <2>2, <2>3
<1>13. PendingOK(d, more, i)
  <2>1. ASSUME NEW k \in 1..Len(more[i]) PROVE more[i][k] = due + k - 1
    <3>1. CASE k = Len(pending[i]) + 1
      BY <1>2, <1>3, <3>1
    <3>2. CASE k # Len(pending[i]) + 1
      <4>1. k \in 1..Len(pending[i])
        BY <1>2, <1>3, <3>2
      <4>2. pending[i][k] = due + k - 1
        BY <1>1, <4>1 DEF PendingOK, due
      <4>3. QED
        BY <1>3, <4>1, <4>2
    <3>3. QED
      BY <3>1, <3>2
  <2>2. \A j \in GroupOf(i) : Due(d, more, j) = Due(d, more, i)
    BY <1>1, <1>6 DEF PendingOK, GroupOf
  <2>3. Due(d, more, i) = due
    BY <1>6 DEF due
  <2>4. QED
    BY <1>2, <1>3, <2>1, <2>2, <2>3 DEF PendingOK
<1>14. ASSUME NEW j \in DOMAIN Insts
       PROVE  /\ SchedShape(d.sched[j], j) /\ BatchesOK(owed, npus, d.sched[j], Due(d, more, j), j)
              /\ NoneMissing(npus, d.sched[j], j) /\ PendingOK(d, more, j)
  <2>1. CASE j = i
    BY <1>5, <1>6, <1>11, <1>12, <1>13, <2>1 DEF t, due
  <2>2. CASE j # i
    <3>1. d.sched[j] = c.sched[j] /\ more[j] = pending[j]
      BY <1>3, <2>2
    <3>2. PendingOK(d, more, j)
      BY <1>6, <3>1 DEF LoopOK, PendingOK, GroupOf
    <3>3. QED
      BY <1>6, <3>1, <3>2 DEF LoopOK
  <2>3. QED
    BY <2>1, <2>2
<1>15. NpusOK(d, more, owed, npus)
  BY <1>6, PlacedNpus DEF LoopOK, NpusOK
<1>16. LoopOK(d, more, owed, npus)
  BY <1>3, <1>14, <1>15 DEF LoopOK
<1>17. QED
  BY <1>16 DEF more, s

-----------------------------------------------------------------------------
(* A round of the barrier. *)

LEMMA GroupMembers ==
  ASSUME scenario \in Scenarios, NEW i \in DOMAIN Insts
  PROVE  /\ i \in GroupOf(i) /\ GroupOf(i) \subseteq DOMAIN Insts
         /\ \A j \in GroupOf(i) : GroupOf(j) = GroupOf(i)
         /\ \A j \in DOMAIN Insts \ GroupOf(i) : GroupOf(j) \cap GroupOf(i) = {}
         /\ ~InGroup(i) => GroupOf(i) = {i}
         /\ Min(GroupOf(i)) \in GroupOf(i)
<1>1. i \in GroupOf(i) /\ GroupOf(i) \subseteq DOMAIN Insts
  BY DEF GroupOf
<1>2. \A j \in GroupOf(i) : GroupOf(j) = GroupOf(i)
  BY DEF GroupOf
<1>3. \A j \in DOMAIN Insts \ GroupOf(i) : GroupOf(j) \cap GroupOf(i) = {}
  BY DEF GroupOf
<1>4. ~InGroup(i) => GroupOf(i) = {i}
  BY DEF GroupOf, InGroup
<1>5. Min(GroupOf(i)) \in GroupOf(i)
  <2>1. DOMAIN Insts \subseteq Nat
    BY PlacedNpus, ListLen
  <2>2. GroupOf(i) \in SUBSET Nat /\ GroupOf(i) # {}
    BY <1>1, <2>1
  <2>3. \E m \in GroupOf(i) : \A j \in GroupOf(i) : m <= j
    BY <2>2, LeastElement
  <2>4. QED
    BY <2>3 DEF Min
<1>6. QED
  BY <1>1, <1>2, <1>3, <1>4, <1>5

(* The batches of a round: the same number in every member, each opened by *)
(* an NPU of its instance that has got all the batches before it.          *)
RoundBatch(c, pending, m) == BatchOf(c.sched[m], Head(pending[m]))

LEMMA RoundBatches ==
  ASSUME NEW c, NEW pending, NEW owed, NEW npus, LoopOK(c, pending, owed, npus),
         NEW i \in DOMAIN Insts, NEW m \in GroupOf(i), pending[m] # << >>
  PROVE  LET b == RoundBatch(c, pending, m)
         IN  /\ Head(pending[m]) = Due(c, pending, i) /\ Due(c, pending, m) = Due(c, pending, i)
             /\ Due(c, pending, i) \in Nat
             /\ b.id = Due(c, pending, i)
             /\ Opener(b) \in NpusOf(Insts[m])
             /\ Got(owed, npus, Opener(b)) = Due(c, pending, i)
             /\ \A k \in 1..Len(c.sched[m].inflight) :
                  LET a == c.sched[m].inflight[k]
                  IN  /\ a.id = Due(c, pending, i) => a = b
                      /\ a.id >= Due(c, pending, i) => Opener(a) = Opener(b)
<1> DEFINE s == c.sched[m]
<1> DEFINE due == Due(c, pending, m)
<1>1. m \in DOMAIN Insts
  BY DEF GroupOf
<1>2. /\ SchedShape(s, m) /\ BatchesOK(owed, npus, s, due, m) /\ NoneMissing(npus, s, m)
      /\ PendingOK(c, pending, m) /\ PendingOK(c, pending, i)
  BY <1>1 DEF LoopOK
<1>3. due = Due(c, pending, i) /\ due \in Nat
  BY <1>2 DEF PendingOK
<1>4. Head(pending[m]) = due /\ due < s.nextId
  <2>1. List(pending[m]) /\ Len(pending[m]) \in Nat /\ Len(pending[m]) >= 1 /\ Head(pending[m]) = pending[m][1]
    BY <1>2, ListTail, ListLen DEF PendingOK
  <2>2. pending[m][1] = due + 1 - 1
    BY <1>2, <2>1 DEF PendingOK
  <2>3. s.nextId \in Nat /\ due = s.nextId - Len(pending[m])
    BY <1>2 DEF SchedShape, Due
  <2>4. QED
    BY <1>3, <2>1, <2>2, <2>3
<1>5. \A k, l \in 1..Len(s.inflight) :
        LET a == s.inflight[k]
        IN  /\ BatchShape(a, m) /\ BatchOK(owed, npus, a, due)
            /\ a.id = s.inflight[l].id => k = l
            /\ a.id >= due /\ s.inflight[l].id >= due => Opener(a) = Opener(s.inflight[l])
  BY <1>2 DEF BatchesOK
<1>6. PICK k \in 1..Len(s.inflight) : s.inflight[k].id = due
  <2>1. due \in 0..(s.nextId - 1)
    BY <1>2, <1>3, <1>4 DEF SchedShape
  <2>2. ~(due < npus[Insts[m].start].ended)
    <3> DEFINE f == Insts[m].start
    <3>1. f \in DOMAIN npus /\ InstOf(f) = m
      BY <1>1, PlacedNpus DEF LoopOK, NpusOK
    <3>2. NpuOK(npus[f], owed[f]) /\ Got(owed, npus, f) <= due
      BY <3>1 DEF LoopOK, NpusOK
    <3> HIDE DEF f
    <3>3. Len(npus[f].log) \in Nat /\ Len(owed[f]) \in Nat /\ npus[f].ended <= Len(npus[f].log)
      BY <3>2, ListLen DEF NpuOK
    <3>4. npus[f].ended \in Int
      BY <3>2, <3>3 DEF NpuOK
    <3>5. ~(due < npus[f].ended)
      <4>1. Got(owed, npus, f) = Len(npus[f].log) + Len(owed[f])
        BY DEF Got
      <4>2. ASSUME NEW x \in Nat, NEW a \in Nat, NEW b \in Nat, NEW e \in Int, e <= a, a + b <= x
            PROVE  ~(x < e)
        BY <4>2
      <4>3. QED
        BY ONLY <1>3, <3>2, <3>3, <3>4, <4>1, <4>2
    <3>6. QED
      BY <3>5 DEF f
  <2>3. QED
    BY <1>2, <2>1, <2>2 DEF NoneMissing
<1> DEFINE b == RoundBatch(c, pending, m)
<1>7. b = s.inflight[k]
  <2>1. k \in DOMAIN s.inflight /\ DOMAIN s.inflight = 1..Len(s.inflight)
    BY <1>2, <1>6, ListLen DEF SchedShape
  <2>2. \A l \in DOMAIN s.inflight : s.inflight[l].id = Head(pending[m]) => l = k
    BY <1>4, <1>5, <1>6, <2>1
  <2>3. (CHOOSE l \in DOMAIN s.inflight : s.inflight[l].id = Head(pending[m])) = k
    BY <1>4, <1>6, <2>1, <2>2
  <2>4. QED
    BY <2>3 DEF RoundBatch, BatchOf
<1> HIDE DEF b
<1>8. Opener(b) \in NpusOf(Insts[m]) /\ Got(owed, npus, Opener(b)) = due
  <2>1. BatchShape(b, m) /\ BatchOK(owed, npus, b, due) /\ b.id = due
    BY <1>5, <1>6, <1>7
  <2>2. Opener(b) \in NpusOf(Insts[m])
    BY <2>1, HeadTailProperties DEF BatchShape, Opener
  <2>3. QED
    BY <1>3, <2>1, <2>2 DEF BatchOK
<1>9. ASSUME NEW l \in 1..Len(s.inflight)
      PROVE  /\ s.inflight[l].id = due => s.inflight[l] = b
             /\ s.inflight[l].id >= due => Opener(s.inflight[l]) = Opener(b)
  BY <1>3, <1>5, <1>6, <1>7
<1>10. QED
  BY <1>3, <1>4, <1>6, <1>7, <1>8, <1>9 DEF b

(* d is c after batch h of every member of the group of i has its name.    *)
NamesRound(c, i, h, d) ==
  /\ CoreShape(d)
  /\ \A m \in DOMAIN Insts :
       /\ SchedShape(d.sched[m], m) /\ d.sched[m].nextId = c.sched[m].nextId
       /\ Len(d.sched[m].inflight) = Len(c.sched[m].inflight)
       /\ \A k \in 1..Len(c.sched[m].inflight) :
            LET a == c.sched[m].inflight[k]  b == d.sched[m].inflight[k]
            IN  /\ DOMAIN b = DOMAIN a
                /\ b.id = a.id /\ b.fired = a.fired /\ b.ended = a.ended
                /\ b.name = a.name \/ (m \in GroupOf(i) /\ a.id = h /\ b.name.round = a.id)

(* The openers of the round's batches get their graphs: n at once.        *)
RoundOver(c, pending, owed, i, n, left, given, rest) ==
  /\ DOMAIN left = DOMAIN Insts /\ DOMAIN rest = DOMAIN owed
  /\ \A m \in DOMAIN Insts : left[m] = IF m \in GroupOf(i) THEN Tail(pending[m]) ELSE pending[m]
  /\ \A q \in DOMAIN owed : OfBatch(given[q], Due(c, pending, i))
  /\ \A q \in DOMAIN owed :
       rest[q] = IF q # n /\ \E m \in GroupOf(i) : Opener(RoundBatch(c, pending, m)) = q
                 THEN Append(owed[q], given[q]) ELSE owed[q]

LEMMA RoundEnds ==
  ASSUME NEW c, NEW pending, NEW owed, NEW npus, LoopOK(c, pending, owed, npus),
         NEW i \in DOMAIN Insts, NEW n \in NpusOf(Insts[i]),
         npus[n].mode # "busy", owed[n] = << >>,
         \A m \in GroupOf(i) : pending[m] # << >>,
         Opener(RoundBatch(c, pending, i)) = n,
         NEW d, NamesRound(c, i, Due(c, pending, i), d),
         NEW left, NEW given, NEW rest, RoundOver(c, pending, owed, i, n, left, given, rest),
         NEW g, OfBatch(g, Due(c, pending, i))
  PROVE  LoopOK(d, left, rest, GiveWorkload(npus, n, g))
<1> USE DEF NamesRound
<1> DEFINE G == GroupOf(i)
<1> DEFINE h == Due(c, pending, i)
<1> DEFINE new == GiveWorkload(npus, n, g)
<1> DEFINE Gets(q) == \E m \in G : Opener(RoundBatch(c, pending, m)) = q
<1>0. /\ DOMAIN owed = DOMAIN npus /\ DOMAIN left = DOMAIN Insts /\ DOMAIN rest = DOMAIN owed
      /\ \A m \in DOMAIN Insts : left[m] = IF m \in GroupOf(i) THEN Tail(pending[m]) ELSE pending[m]
      /\ \A q \in DOMAIN npus : OfBatch(given[q], Due(c, pending, i))
      /\ \A q \in DOMAIN npus :
           rest[q] = IF q # n /\ \E m \in GroupOf(i) : Opener(RoundBatch(c, pending, m)) = q
                     THEN Append(owed[q], given[q]) ELSE owed[q]
  BY DEF RoundOver, LoopOK, NpusOK
<1>1. /\ scenario \in Scenarios /\ i \in G /\ G \subseteq DOMAIN Insts
      /\ \A j \in G : GroupOf(j) = G
      /\ \A j \in DOMAIN Insts \ G : GroupOf(j) \cap G = {}
  BY GroupMembers DEF LoopOK
<1>2. /\ \A q \in DOMAIN npus : InstOf(q) \in DOMAIN Insts /\ q \in NpusOf(Insts[InstOf(q)])
      /\ \A j \in DOMAIN Insts : \A q \in NpusOf(Insts[j]) : q \in DOMAIN npus /\ InstOf(q) = j
  BY PlacedNpus DEF LoopOK, NpusOK
<1>3. ASSUME NEW m \in G
      PROVE  /\ Due(c, pending, m) = h /\ h \in Nat
             /\ Opener(RoundBatch(c, pending, m)) \in NpusOf(Insts[m])
             /\ Got(owed, npus, Opener(RoundBatch(c, pending, m))) = h
             /\ \A k \in 1..Len(c.sched[m].inflight) :
                  LET a == c.sched[m].inflight[k]
                  IN  a.id >= h => Opener(a) = Opener(RoundBatch(c, pending, m))
  BY RoundBatches
<1>4. Gets(n) /\ Got(owed, npus, n) = h /\ n \in DOMAIN npus
  BY <1>1, <1>2, <1>3
<1>5. npus[n].ended = h /\ npus[n].ended = Len(npus[n].log) /\ Len(owed[n]) = 0
  BY <1>4, IdleNpu
<1>6. /\ DOMAIN new = DOMAIN npus /\ NpuOK(new[n], << >>) /\ Len(new[n].log) = h + 1
      /\ new[n].ended = npus[n].ended
      /\ \A q \in DOMAIN npus \ {n} : /\ NpuOK(new[q], owed[q])
                                      /\ Len(new[q].log) = Len(npus[q].log)
                                      /\ new[q].log = npus[q].log
                                      /\ new[q].ended = npus[q].ended
  BY <1>5, GivenGraph
<1>7. /\ \A q \in DOMAIN npus : Gets(q) => Got(owed, npus, q) = h /\ InstOf(q) \in G
      /\ \A q \in DOMAIN npus : rest[q] = IF q # n /\ Gets(q) THEN Append(owed[q], given[q]) ELSE owed[q]
  BY <1>0, <1>1, <1>2, <1>3
<1> HIDE DEF new, Gets, h
<1>8. ASSUME NEW q \in DOMAIN npus
      PROVE  /\ NpuOK(new[q], rest[q])
             /\ Got(rest, new, q) = IF Gets(q) THEN h + 1 ELSE Got(owed, npus, q)
  <2>1. CASE q = n
    <3>1. rest[n] = owed[n]
      BY <1>4, <1>7
    <3>2. QED
      BY <1>4, <1>5, <1>6, <2>1, <3>1, <1>3, <1>1 DEF Got
  <2>2. CASE q # n /\ ~Gets(q)
    BY <1>6, <1>7, <2>2 DEF Got
  <2>3. CASE q # n /\ Gets(q)
    <3>1. rest[q] = Append(owed[q], given[q]) /\ NpuOK(new[q], owed[q]) /\ Len(new[q].log) = Len(npus[q].log)
      BY <1>6, <1>7, <2>3
    <3>2. /\ List(rest[q]) /\ Len(rest[q]) = Len(owed[q]) + 1 /\ Len(owed[q]) \in Nat
          /\ \A k \in 1..Len(owed[q]) : rest[q][k] = owed[q][k]
          /\ rest[q][Len(owed[q]) + 1] = given[q]
      BY <3>1, ListAppend, ListLen DEF NpuOK
    <3>3. Len(new[q].log) \in Nat /\ Len(new[q].log) + Len(owed[q]) = h
      BY <1>7, <2>3, <3>1, ListLen DEF NpuOK, Got
    <3>4. ASSUME NEW k \in 1..Len(rest[q]) PROVE OfBatch(rest[q][k], Len(new[q].log) + k - 1)
      <4>1. CASE k = Len(owed[q]) + 1
        <5>1. Len(new[q].log) + k - 1 = h
          <6>1. ASSUME NEW a \in Nat, NEW b \in Nat PROVE a + (b + 1) - 1 = a + b
            OBVIOUS
          <6>2. Len(new[q].log) + (Len(owed[q]) + 1) - 1 = Len(new[q].log) + Len(owed[q])
            BY ONLY <3>2, <3>3, <6>1
          <6>3. QED
            BY <3>3, <4>1, <6>2
        <5>2. OfBatch(given[q], h)
          BY <1>0 DEF h
        <5>3. QED
          BY <3>2, <4>1, <5>1, <5>2
      <4>2. CASE k # Len(owed[q]) + 1
        <5>1. k \in 1..Len(owed[q])
          BY <3>2, <4>2
        <5>2. QED
          BY <3>1, <3>2, <5>1 DEF NpuOK
      <4>3. QED
        BY <4>1, <4>2
    <3>5. NpuOK(new[q], rest[q])
      BY <3>1, <3>2, <3>4 DEF NpuOK
    <3>6. Got(rest, new, q) = h + 1
      <4>1. Got(rest, new, q) = Len(new[q].log) + (Len(owed[q]) + 1)
        BY <3>2 DEF Got
      <4>2. ASSUME NEW a \in Nat, NEW b \in Nat, NEW x, a + b = x PROVE a + (b + 1) = x + 1
        BY <4>2
      <4>3. QED
        BY ONLY <3>2, <3>3, <4>1, <4>2
    <3>7. QED
      BY <2>3, <3>5, <3>6
  <2>4. QED
    BY <2>1, <2>2, <2>3
<1>9. ASSUME NEW m \in DOMAIN Insts
      PROVE  /\ List(left[m]) /\ Due(d, left, m) = IF m \in G THEN h + 1 ELSE Due(c, pending, m)
             /\ Due(d, left, m) \in Nat
             /\ \A k \in 1..Len(left[m]) : left[m][k] = Due(d, left, m) + k - 1
  <2>1. /\ PendingOK(c, pending, m) /\ List(pending[m]) /\ Len(pending[m]) \in Nat
        /\ d.sched[m].nextId = c.sched[m].nextId /\ c.sched[m].nextId \in Nat
    BY ListLen DEF LoopOK, PendingOK, SchedShape
  <2>2. CASE m \in G
    <3>1. /\ List(left[m]) /\ Len(left[m]) = Len(pending[m]) - 1 /\ Len(pending[m]) >= 1
          /\ \A k \in 1..(Len(pending[m]) - 1) : left[m][k] = pending[m][k + 1]
      <4>1. left[m] = Tail(pending[m]) /\ pending[m] # << >> /\ List(pending[m])
        BY <1>0, <2>1, <2>2
      <4>2. QED
        BY ONLY <4>1, ListTail
    <3>2. /\ Due(c, pending, m) = h /\ h \in Nat /\ Due(d, left, m) = h + 1
      BY <1>3, <2>1, <2>2, <3>1 DEF Due
    <3>3. ASSUME NEW k \in 1..Len(left[m]) PROVE left[m][k] = (h + 1) + k - 1
      <4>1. k + 1 \in 1..Len(pending[m]) /\ k \in 1..(Len(pending[m]) - 1)
        BY <2>1, <3>1
      <4>2. pending[m][k + 1] = h + (k + 1) - 1
        BY <2>1, <3>2, <4>1 DEF PendingOK
      <4>3. QED
        BY <3>1, <3>2, <4>1, <4>2
    <3>4. QED
      BY <2>2, <3>1, <3>2, <3>3
  <2>3. CASE m \notin G
    <3>1. left[m] = pending[m] /\ Due(d, left, m) = Due(c, pending, m)
      BY <1>0, <2>1, <2>3 DEF Due
    <3>2. QED
      BY <2>1, <2>3, <3>1 DEF PendingOK
  <2>4. QED
    BY <2>2, <2>3
<1>10. ASSUME NEW m \in DOMAIN Insts PROVE PendingOK(d, left, m)
  <2>1. \A j \in GroupOf(m) : Due(d, left, j) = Due(d, left, m)
    <3>1. CASE m \in G
      BY <1>1, <1>9, <3>1
    <3>2. CASE m \notin G
      <4>1. \A j \in GroupOf(m) : j \in DOMAIN Insts /\ j \notin G /\ Due(c, pending, j) = Due(c, pending, m)
        BY <1>1, <3>2 DEF LoopOK, PendingOK, GroupOf
      <4>2. QED
        BY <1>9, <3>2, <4>1
    <3>3. QED
      BY <3>1, <3>2
  <2>2. QED
    BY <1>9, <2>1 DEF PendingOK
<1>11. NpusOK(d, left, rest, new)
  <2>1. ASSUME NEW q \in DOMAIN npus PROVE Got(rest, new, q) <= Due(d, left, InstOf(q))
    <3>1. Got(owed, npus, q) <= Due(c, pending, InstOf(q)) /\ InstOf(q) \in DOMAIN Insts
      BY <1>2 DEF LoopOK, NpusOK
    <3>2. CASE Gets(q)
      BY <1>1, <1>3, <1>7, <1>8, <1>9, <3>1, <3>2
    <3>3. CASE ~Gets(q) /\ InstOf(q) \in G
      <4>1. Got(owed, npus, q) \in Nat
        BY ListLen DEF LoopOK, NpusOK, NpuOK, Got
      <4>2. QED
        BY <1>3, <1>8, <1>9, <3>1, <3>3, <4>1
    <3>4. CASE ~Gets(q) /\ InstOf(q) \notin G
      BY <1>8, <1>9, <3>1, <3>4
    <3>5. QED
      BY <3>2, <3>3, <3>4
  <2>2. QED
    BY <1>0, <1>6, <1>8, <2>1 DEF LoopOK, NpusOK
<1>12. StagesOK(new)
  <2>1. \A q \in DOMAIN npus : Len(new[q].log) \in Nat /\ Len(npus[q].log) <= Len(new[q].log)
                               /\ new[q].ended = npus[q].ended
    <3>1. \A q \in DOMAIN npus : Len(npus[q].log) \in Nat
      BY ListLen DEF LoopOK, NpusOK, NpuOK
    <3>2. QED
      BY <1>4, <1>5, <1>6, <3>1
  <2>2. QED
    BY <2>1, MoreRun

<1>13. ASSUME NEW m \in DOMAIN Insts
       PROVE  BatchesOK(rest, new, d.sched[m], Due(d, left, m), m) /\ NoneMissing(new, d.sched[m], m)
  <2> DEFINE s == c.sched[m]
  <2> DEFINE t == d.sched[m]
  <2> DEFINE due == Due(c, pending, m)
  <2> DEFINE then == Due(d, left, m)
  <2> DEFINE len == Len(s.inflight)
  <2>1. /\ BatchesOK(owed, npus, s, due, m) /\ NoneMissing(npus, s, m) /\ due \in Nat
        /\ t.nextId = s.nextId /\ Len(t.inflight) = len
        /\ (m \in G => due = h /\ then = h + 1) /\ (m \notin G => then = due)
    BY <1>3, <1>9 DEF LoopOK, PendingOK
  <2>2. \A q \in NpusOf(Insts[m]) : /\ q \in DOMAIN npus /\ new[q].ended = npus[q].ended
                                    /\ m \notin G => ~Gets(q)
    BY <1>2, <1>4, <1>6, <1>7
  <2>3. ASSUME NEW k \in 1..len, NEW a, a = s.inflight[k], NEW b, b = t.inflight[k]
        PROVE  BatchShape(b, m) /\ BatchOK(rest, new, b, then) /\ b.id = a.id /\ Opener(b) = Opener(a)
    <3>1. /\ DOMAIN b = DOMAIN a /\ b.id = a.id /\ b.fired = a.fired /\ b.ended = a.ended
          /\ b.name = a.name \/ (m \in G /\ a.id = h /\ b.name.round = a.id)
      BY <2>3 DEF h
    <3>2. BatchShape(a, m) /\ BatchOK(owed, npus, a, due)
      BY <2>1, <2>3 DEF BatchesOK
    <3>3. /\ BatchShape(b, m) /\ Opener(b) = Opener(a) /\ a.id \in Nat
          /\ Opener(a) \in NpusOf(Insts[m]) /\ ToSet(a.fired) \subseteq NpusOf(Insts[m])
          /\ a.ended \subseteq NpusOf(Insts[m])
      BY <3>1, <3>2, HeadTailProperties, ToSetType DEF BatchShape, Opener
    <3>4. m \in G /\ a.id >= h => Gets(Opener(a))
      BY <1>3, <2>3 DEF Gets
    <3>5. \A q \in b.ended : b.id < new[q].ended
      BY <2>2, <3>1, <3>2, <3>3 DEF BatchOK
    <3>6. b.name # NoName => b.name.round = b.id /\ b.id < then
      BY <2>1, <3>1, <3>2, <3>3 DEF BatchOK
    <3>7. ASSUME NEW q \in ToSet(b.fired)
          PROVE  b.id < Got(rest, new, q) \/ (b.id >= then /\ Opener(b) = q)
      <4>1. a.id < Got(owed, npus, q) \/ (a.id >= due /\ Opener(a) = q)
        BY <3>1, <3>2 DEF BatchOK
      <4>2. q \in DOMAIN npus
        BY <2>2, <3>1, <3>3
      <4>3. CASE a.id < Got(owed, npus, q)
        BY <1>7, <1>8, <2>1, <3>1, <3>3, <4>2, <4>3, <1>3, <1>1
      <4>4. CASE a.id >= due /\ Opener(a) = q /\ m \in G
        BY <1>8, <2>1, <3>1, <3>3, <3>4, <4>2, <4>4
      <4>5. CASE a.id >= due /\ Opener(a) = q /\ m \notin G
        BY <2>1, <3>1, <3>3, <4>5
      <4>6. QED
        BY <4>1, <4>3, <4>4, <4>5
    <3>8. b.id >= then => Got(rest, new, Opener(b)) = then
      <4>1. CASE m \in G
        BY <1>3, <1>8, <2>1, <2>2, <3>1, <3>3, <3>4, <4>1
      <4>2. CASE m \notin G
        BY <1>8, <2>1, <2>2, <3>1, <3>2, <3>3, <4>2 DEF BatchOK
      <4>3. QED
        BY <4>1, <4>2
    <3>9. QED
      BY <3>1, <3>3, <3>5, <3>6, <3>7, <3>8 DEF BatchOK
  <2>4. \A a, b \in 1..len :
          LET x == s.inflight[a]  y == s.inflight[b]
          IN  /\ x.id < s.nextId /\ (x.id = y.id => a = b)
              /\ x.id >= due /\ y.id >= due => Opener(x) = Opener(y)
    BY <2>1 DEF BatchesOK
  <2>5. then >= due /\ due \in Nat /\ then \in Nat /\ \A a \in 1..len : s.inflight[a].id \in Nat
    BY <2>1, <1>3 DEF BatchesOK, BatchShape
  <2> HIDE DEF s, t, due, then, len
  <2>6. \A k \in 1..len : /\ BatchShape(t.inflight[k], m) /\ BatchOK(rest, new, t.inflight[k], then)
                          /\ t.inflight[k].id = s.inflight[k].id
                          /\ Opener(t.inflight[k]) = Opener(s.inflight[k])
    BY <2>3
  <2>7. ASSUME NEW a \in 1..len, NEW b \in 1..len
        PROVE  LET x == t.inflight[a]  y == t.inflight[b]
               IN  /\ BatchShape(x, m) /\ x.id < t.nextId /\ BatchOK(rest, new, x, then)
                   /\ x.id = y.id => a = b
                   /\ x.id >= then /\ y.id >= then => Opener(x) = Opener(y)
    <3> DEFINE x == t.inflight[a]
    <3> DEFINE y == t.inflight[b]
    <3> DEFINE v == s.inflight[a]
    <3> DEFINE w == s.inflight[b]
    <3>1. /\ BatchShape(x, m) /\ BatchOK(rest, new, x, then) /\ x.id = v.id /\ y.id = w.id
          /\ Opener(x) = Opener(v) /\ Opener(y) = Opener(w)
      BY <2>6
    <3>2. /\ v.id < s.nextId /\ (v.id = w.id => a = b)
          /\ v.id >= due /\ w.id >= due => Opener(v) = Opener(w)
      BY <2>4
    <3>3. v.id \in Nat /\ w.id \in Nat
      BY <2>5
    <3> HIDE DEF x, y, v, w
    <3>4. v.id >= then /\ w.id >= then => v.id >= due /\ w.id >= due
      BY <2>5, <3>3
    <3>5. /\ BatchShape(x, m) /\ x.id < t.nextId /\ BatchOK(rest, new, x, then)
          /\ x.id = y.id => a = b
          /\ x.id >= then /\ y.id >= then => Opener(x) = Opener(y)
      BY <2>1, <3>1, <3>2, <3>4
    <3>6. QED
      BY <3>5 DEF x, y
  <2>8. BatchesOK(rest, new, t, then, m)
    BY <2>1, <2>7 DEF BatchesOK
  <2>9. NoneMissing(new, t, m)
    <3>1. {Insts[m].start, LastOf(Insts[m])} \subseteq NpusOf(Insts[m])
      BY PlacedNpus DEF LoopOK
    <3>2. SUFFICES ASSUME NEW x \in 0..(t.nextId - 1)
                   PROVE  \/ \E k \in 1..Len(t.inflight) : t.inflight[k].id = x
                          \/ x < new[Insts[m].start].ended /\ x < new[LastOf(Insts[m])].ended
      BY DEF NoneMissing
    <3>3. \/ \E k \in 1..Len(s.inflight) : s.inflight[k].id = x
          \/ x < npus[Insts[m].start].ended /\ x < npus[LastOf(Insts[m])].ended
      BY <2>1, <3>2 DEF NoneMissing
    <3>4. len = Len(s.inflight)
      BY DEF len
    <3>5. CASE \E k \in 1..Len(s.inflight) : s.inflight[k].id = x
      BY <2>1, <2>6, <3>4, <3>5
    <3>6. QED
      BY <2>2, <3>1, <3>3, <3>5
  <2>10. QED
    BY <2>8, <2>9 DEF t, then
<1>14. LoopOK(d, left, rest, new)
  BY <1>0, <1>1, <1>10, <1>11, <1>12, <1>13 DEF LoopOK
<1>15. QED
  BY <1>14 DEF new

-----------------------------------------------------------------------------
(* The reports of ASTRA-Sim. *)

(* An NPU ends the oldest batch it has not ended. Whoever is in its stage  *)
(* has been given that one, and so has whoever is in a stage before.       *)
LEMMA Reported ==
  ASSUME LoopOK(core, dpPending, dpReady, npu), NEW n \in DOMAIN npu, npu[n].mode = "busy", CanEnd(n)
  PROVE  LoopOK(core, dpPending, dpReady,
                [Reopened(npu) EXCEPT ![n].mode = "open", ![n].ended = @ + 1])
<1> DEFINE open == Reopened(npu)
<1> DEFINE new == [open EXCEPT ![n].mode = "open", ![n].ended = @ + 1]
<1> DEFINE i == InstOf(n)
<1>1. /\ \A m \in DOMAIN npu : /\ NpuOK(npu[m], dpReady[m])
                               /\ DOMAIN npu[m] = {"mode", "until", "log", "ended"}
      /\ DOMAIN npu = 0..(TotalNpu(Insts) - 1) /\ DOMAIN dpReady = DOMAIN npu
      /\ scenario \in Scenarios
  BY DEF LoopOK, NpusOK, NpuOK
<1>2. \A m \in DOMAIN npu :
        /\ List(npu[m].log) /\ Len(npu[m].log) \in Nat /\ npu[m].ended \in Int
        /\ npu[m].ended <= Len(npu[m].log)
        /\ npu[m].mode = "busy" => Len(npu[m].log) = npu[m].ended + 1
  <2>1. \A m \in DOMAIN npu : List(npu[m].log) /\ Len(npu[m].log) \in Nat
    BY <1>1, ListLen DEF NpuOK
  <2>2. QED
    BY <1>1, <2>1 DEF NpuOK
<1>3. /\ DOMAIN open = DOMAIN npu
      /\ \A m \in DOMAIN npu : /\ DOMAIN open[m] = {"mode", "until", "log", "ended"}
                               /\ open[m].log = npu[m].log /\ open[m].ended = npu[m].ended
                               /\ open[m].mode = "busy" <=> npu[m].mode = "busy"
  <2>1. \A m \in DOMAIN npu : DOMAIN npu[m] = {"mode", "until", "log", "ended"}
    BY <1>1
  <2>2. QED
    BY <2>1, ReopenedModes
<1> HIDE DEF open
<1>4. /\ DOMAIN new = DOMAIN npu
      /\ \A m \in DOMAIN npu \ {n} : new[m] = open[m]
      /\ DOMAIN new[n] = {"mode", "until", "log", "ended"}
      /\ new[n].mode = "open" /\ new[n].log = npu[n].log /\ new[n].ended = npu[n].ended + 1
  BY <1>3
<1> HIDE DEF new
<1>5. \A m \in DOMAIN npu : /\ new[m].log = npu[m].log
                            /\ new[m].ended = IF m = n THEN npu[m].ended + 1 ELSE npu[m].ended
                            /\ Got(dpReady, new, m) = Got(dpReady, npu, m)
                            /\ npu[m].ended <= new[m].ended
  <2>1. \A m \in DOMAIN npu : /\ new[m].log = npu[m].log
                              /\ new[m].ended = IF m = n THEN npu[m].ended + 1 ELSE npu[m].ended
    BY <1>3, <1>4
  <2>2. \A m \in DOMAIN npu : Got(dpReady, new, m) = Got(dpReady, npu, m)
    BY <2>1 DEF Got
  <2>3. \A m \in DOMAIN npu : npu[m].ended <= new[m].ended
    BY <1>2, <2>1
  <2>4. QED
    BY <2>1, <2>2, <2>3
<1>6. NpusOK(core, dpPending, dpReady, new)
  <2>1. ASSUME NEW m \in DOMAIN npu PROVE NpuOK(new[m], dpReady[m])
    <3>1. CASE m = n
      BY <1>1, <1>2, <1>4, <3>1 DEF NpuOK
    <3>2. CASE m # n
      BY <1>1, <1>3, <1>4, <3>2 DEF NpuOK
    <3>3. QED
      BY <3>1, <3>2
  <2>2. QED
    BY <1>1, <1>4, <1>5, <2>1 DEF LoopOK, NpusOK
<1>7. i \in DOMAIN Insts /\ n \in NpusOf(Insts[i]) /\ i \in GroupOf(i)
  BY <1>1, PlacedNpus, GroupMembers
<1>8. /\ Last(npu[n].log) = npu[n].log[Len(npu[n].log)] /\ Len(npu[n].log) \in 1..Len(npu[n].log)
      /\ Len(npu[n].log) = npu[n].ended + 1 /\ npu[n].ended \in Nat
  <2>1. Len(npu[n].log) = npu[n].ended + 1
    BY <1>2
  <2>2. Has(n, Last(npu[n].log))
    BY <1>7 DEF CanEnd
  <2>3. PICK k : k \in DOMAIN npu[n].log
    BY <2>2 DEF Has
  <2>4. k \in 1..Len(npu[n].log)
    BY <1>2, <2>3, ListLen
  <2>5. QED
    BY <1>2, <2>1, <2>4 DEF Last
<1> DEFINE graph == Last(npu[n].log)
<1>9. graph.round = npu[n].ended
  <2>1. OfBatch(graph, npu[n].ended)
    BY <1>1, <1>8 DEF NpuOK
  <2>2. QED
    BY <2>1 DEF OfBatch
<1>10. ASSUME NEW m \in DOMAIN npu, NEW k \in 1..Len(npu[m].log),
              Workload(npu[m].log[k]) = Workload(graph)
       PROVE  k = npu[n].ended + 1
  <2>1. npu[m].log[k].round = graph.round
    BY <1>10 DEF Workload
  <2>2. npu[m].log[k].round = k - 1 /\ k \in Int
    BY <1>1 DEF NpuOK, OfBatch
  <2>3. QED
    BY <1>8, <1>9, <2>1, <2>2
<1> HIDE DEF graph
<1>11. ASSUME NEW m \in NpusOf(Insts[i]), StageOf(Insts[i], m) = StageOf(Insts[i], n)
       PROVE  npu[n].ended + 1 <= Len(npu[m].log)
  <2>1. m \in DOMAIN npu
    BY <1>1, <1>7, PlacedNpus
  <2>2. Has(m, graph)
    BY <1>7, <1>11 DEF CanEnd, graph
  <2>3. PICK k \in DOMAIN npu[m].log : Workload(npu[m].log[k]) = Workload(graph)
    BY <2>2 DEF Has
  <2>4. k \in 1..Len(npu[m].log)
    BY <1>2, <2>1, <2>3, ListLen
  <2>5. QED
    BY <1>2, <1>10, <2>1, <2>3, <2>4
<1>12. ASSUME NEW m \in NpusOf(Insts[i]), StageOf(Insts[i], m) < StageOf(Insts[i], n)
       PROVE  npu[n].ended + 1 <= Len(npu[m].log)
  <2> DEFINE p == n - Insts[i].tp
  <2>1. /\ StageOf(Insts[i], m) \in Nat /\ StageOf(Insts[i], n) \in Nat
        /\ StageOf(Insts[i], n) > 0 =>
             /\ p \in NpusOf(Insts[i]) /\ StageOf(Insts[i], p) = StageOf(Insts[i], n) - 1
    BY <1>1, <1>7, Stages
  <2>2. /\ StageOf(Insts[i], n) > 0 /\ p \in NpusOf(Insts[i])
        /\ StageOf(Insts[i], m) <= StageOf(Insts[i], p)
    BY <1>12, <2>1
  <2>3. HasEnded(p, graph)
    BY <2>2 DEF CanEnd, graph
  <2> HIDE DEF p
  <2>4. m \in DOMAIN npu /\ p \in DOMAIN npu
    BY <1>1, <1>7, <2>2, PlacedNpus
  <2>5. npu[p].ended <= Len(npu[m].log)
    BY <1>7, <2>2 DEF LoopOK, StagesOK
  <2>6. PICK k \in 1..npu[p].ended : Workload(npu[p].log[k]) = Workload(graph)
    BY <2>3 DEF HasEnded
  <2>7. k \in 1..Len(npu[p].log) /\ k \in Int /\ k <= npu[p].ended
    BY <1>2, <2>4, <2>6
  <2>8. k = npu[n].ended + 1
    BY <1>10, <2>4, <2>6, <2>7
  <2>9. QED
    BY <1>2, <2>4, <2>5, <2>7, <2>8
<1>13. StagesOK(new)
  <2>1. SUFFICES ASSUME NEW j \in DOMAIN Insts, NEW m \in NpusOf(Insts[j]), NEW q \in NpusOf(Insts[j]),
                        StageOf(Insts[j], m) <= StageOf(Insts[j], q)
                 PROVE  new[q].ended <= Len(new[m].log)
    BY DEF StagesOK
  <2>2. m \in DOMAIN npu /\ q \in DOMAIN npu /\ InstOf(q) = j
    BY <1>1, PlacedNpus
  <2>3. CASE q = n
    <3>1. StageOf(Insts[i], m) \in Nat /\ StageOf(Insts[i], n) \in Nat /\ j = i
      BY <1>1, <1>7, <2>2, <2>3, Stages
    <3>2. npu[n].ended + 1 <= Len(npu[m].log)
      BY <1>11, <1>12, <2>1, <2>3, <3>1
    <3>3. QED
      BY <1>5, <2>2, <2>3, <3>2
  <2>4. CASE q # n
    <3>1. npu[q].ended <= Len(npu[m].log)
      BY <2>1 DEF LoopOK, StagesOK
    <3>2. QED
      BY <1>5, <2>2, <2>4, <3>1
  <2>5. QED
    BY <2>3, <2>4
<1>14. ASSUME NEW j \in DOMAIN Insts
       PROVE  /\ BatchesOK(dpReady, new, core.sched[j], Due(core, dpPending, j), j)
              /\ NoneMissing(new, core.sched[j], j)
  <2> DEFINE s == core.sched[j]
  <2> DEFINE due == Due(core, dpPending, j)
  <2>1. BatchesOK(dpReady, npu, s, due, j) /\ NoneMissing(npu, s, j) /\ s.nextId \in Nat
    BY DEF LoopOK, SchedShape
  <2>2. \A m \in NpusOf(Insts[j]) : m \in DOMAIN npu
    BY <1>1, PlacedNpus
  <2> HIDE DEF s, due
  <2>3. ASSUME NEW k \in 1..Len(s.inflight), NEW b, b = s.inflight[k]
        PROVE  BatchOK(dpReady, new, b, due)
    <3>1. BatchOK(dpReady, npu, b, due) /\ BatchShape(b, j)
      BY <2>1, <2>3 DEF BatchesOK
    <3>2. /\ Opener(b) \in NpusOf(Insts[j]) /\ ToSet(b.fired) \subseteq NpusOf(Insts[j])
          /\ b.ended \subseteq NpusOf(Insts[j]) /\ b.id \in Nat
      BY <3>1, HeadTailProperties, ToSetType DEF BatchShape, Opener
    <3>3. \A m \in b.ended : b.id < new[m].ended
      BY <1>2, <1>5, <2>2, <3>1, <3>2 DEF BatchOK
    <3>4. \A m \in ToSet(b.fired) : Got(dpReady, new, m) = Got(dpReady, npu, m)
      BY <1>5, <2>2, <3>2
    <3>5. Got(dpReady, new, Opener(b)) = Got(dpReady, npu, Opener(b))
      BY <1>5, <2>2, <3>2
    <3>6. QED
      BY <3>1, <3>3, <3>4, <3>5 DEF BatchOK
  <2>4. BatchesOK(dpReady, new, s, due, j)
    BY <2>1, <2>3 DEF BatchesOK
  <2>5. NoneMissing(new, s, j)
    <3>1. {Insts[j].start, LastOf(Insts[j])} \subseteq NpusOf(Insts[j])
      BY <1>1, PlacedNpus
    <3>2. \A m \in {Insts[j].start, LastOf(Insts[j])} :
            \A x \in 0..(s.nextId - 1) : x < npu[m].ended => x < new[m].ended
      <4>1. \A m \in {Insts[j].start, LastOf(Insts[j])} : m \in DOMAIN npu
        BY <2>2, <3>1
      <4>2. ASSUME NEW m \in DOMAIN npu, NEW x \in 0..(s.nextId - 1), x < npu[m].ended PROVE x < new[m].ended
        <5>1. new[m].ended \in Int /\ npu[m].ended <= new[m].ended /\ npu[m].ended \in Int
          BY <1>2, <1>5
        <5>2. QED
          BY <2>1, <4>2, <5>1
      <4>3. QED
        BY <4>1, <4>2
    <3>3. QED
      BY <2>1, <3>2 DEF NoneMissing
  <2>6. QED
    BY <2>4, <2>5 DEF s, due
<1>15. LoopOK(core, dpPending, dpReady, new)
  BY <1>6, <1>13, <1>14 DEF LoopOK
<1>16. QED
  BY <1>15 DEF new, open

-----------------------------------------------------------------------------
(* The answers, for the core c that the first steps of the turn lead to.   *)

LEMMA HandOverOK ==
  ASSUME NEW c, LoopOK(c, dpPending, dpReady, npu), NEW n \in DOMAIN npu, npu[n].mode # "busy",
         HandOver(n, c)
  PROVE  LoopOK(core', dpPending', dpReady', npu') /\ dpPending' = dpPending
<1>1. /\ dpReady[n] # << >> /\ core' = c /\ npu' = GiveWorkload(npu, n, Head(dpReady[n]))
      /\ dpReady' = [dpReady EXCEPT ![n] = Tail(@)] /\ dpPending' = dpPending
  BY DEF HandOver
<1>2. LoopOK(c, dpPending, [dpReady EXCEPT ![n] = Tail(@)], GiveWorkload(npu, n, Head(dpReady[n])))
  BY <1>1, HandedOver
<1>3. QED
  BY <1>1, <1>2

LEMMA JoinBatchOK ==
  ASSUME NEW c, LoopOK(c, dpPending, dpReady, npu), PlainOK(dpPending),
         NEW n \in DOMAIN npu, npu[n].mode # "busy", JoinBatch(n, c)
  PROVE  LoopOK(core', dpPending', dpReady', npu') /\ dpPending' = dpPending
<1> DEFINE i == InstOf(n)
<1> DEFINE k == CHOOSE k \in Joinable(c, n) : TRUE
<1> DEFINE batch == c.sched[i].inflight[k]
<1> DEFINE name == IF batch.name # NoName THEN batch.name ELSE [dir |-> i, round |-> batch.id]
<1> DEFINE due == Due(c, dpPending, i)
<1>1. /\ ~Owed(n) /\ Joinable(c, n) # {} /\ dpPending' = dpPending /\ dpReady' = dpReady
      /\ \/ /\ HasWorkload(i, batch)
            /\ core' = [c EXCEPT !.sched[i].inflight[k].fired = Append(@, n)]
            /\ npu' = GiveWorkload(npu, n, Graph(name, batch))
         \/ core' = c /\ npu' = PassChanged(npu)
  BY DEF JoinBatch
<1>2. i \in DOMAIN Insts /\ n \in NpusOf(Insts[i]) /\ dpReady[n] = << >>
  BY <1>1, PlacedNpus DEF LoopOK, NpusOK, Owed
<1>3. k \in DOMAIN c.sched[i].inflight /\ batch.id = npu[n].ended
  <2>1. k \in Joinable(c, n)
    BY <1>1
  <2>2. QED
    BY <2>1 DEF Joinable
<1>4. /\ SchedShape(c.sched[i], i) /\ BatchesOK(dpReady, npu, c.sched[i], due, i)
  BY <1>2 DEF LoopOK
<1> HIDE DEF k, i
<1>5. BatchShape(batch, i) /\ batch.id < c.sched[i].nextId /\ BatchOK(dpReady, npu, batch, due)
  <2>1. k \in 1..Len(c.sched[i].inflight)
    BY <1>3, <1>4, ListLen DEF SchedShape
  <2>2. QED
    BY <1>4, <2>1 DEF BatchesOK
<1>6. ASSUME HasWorkload(i, batch) PROVE batch.id < due /\ OfBatch(Graph(name, batch), npu[n].ended)
  <2>1. batch.name # NoName => batch.name.round = batch.id /\ batch.id < due
    BY <1>5 DEF BatchOK
  <2>2. ~InGroup(i) => due = c.sched[i].nextId
    <3>1. ~InGroup(i) => dpPending[i] = << >>
      BY <1>2 DEF PlainOK
    <3>2. c.sched[i].nextId \in Nat /\ Len(<< >>) = 0
      BY <1>4 DEF SchedShape
    <3>3. QED
      BY <3>1, <3>2 DEF Due
  <2>3. batch.id < due
    BY <1>5, <1>6, <2>1, <2>2 DEF HasWorkload
  <2>4. name.round = batch.id
    BY <2>1
  <2> HIDE DEF name, batch
  <2>5. OfBatch(Graph(name, batch), batch.id)
    BY <2>4 DEF OfBatch, Graph
  <2>6. QED
    BY <1>3, <2>3, <2>5
<1>7. CASE /\ HasWorkload(i, batch)
           /\ core' = [c EXCEPT !.sched[i].inflight[k].fired = Append(@, n)]
           /\ npu' = GiveWorkload(npu, n, Graph(name, batch))
  <2>1. batch.id < due /\ OfBatch(Graph(name, batch), npu[n].ended)
    BY <1>6, <1>7
  <2> DEFINE g == Graph(name, batch)
  <2> HIDE DEF g
  <2>2. OfBatch(g, npu[n].ended)
    BY <2>1 DEF g
  <2>3. LoopOK([c EXCEPT !.sched[i].inflight[k].fired = Append(@, n)], dpPending, dpReady,
               GiveWorkload(npu, n, g))
    BY <1>2, <1>3, <2>1, <2>2, BatchJoined
  <2>4. QED
    BY <1>1, <1>7, <2>3 DEF g
<1>8. CASE core' = c /\ npu' = PassChanged(npu)
  <2>1. LoopOK(c, dpPending, dpReady, PassChanged(npu))
    BY ModesOnly
  <2>2. QED
    BY <1>1, <1>8, <2>1
<1>9. QED
  BY <1>1, <1>7, <1>8

LEMMA HoldsOK ==
  ASSUME NEW c, LoopOK(c, dpPending, dpReady, npu), NEW n \in DOMAIN npu, npu[n].mode # "busy",
         TellDone(n, c) \/ Pass(n, c)
  PROVE  LoopOK(core', dpPending', dpReady', npu') /\ dpPending' = dpPending
<1>1. CASE TellDone(n, c)
  <2>1. core' = c /\ npu' = [npu EXCEPT ![n].mode = "asleep"] /\ dpPending' = dpPending /\ dpReady' = dpReady
    BY <1>1 DEF TellDone
  <2>2. LoopOK(c, dpPending, dpReady, [npu EXCEPT ![n].mode = "asleep"])
    BY ModesOnly
  <2>3. QED
    BY <2>1, <2>2
<1>2. CASE Pass(n, c)
  <2>1. core' = c /\ npu' = PassFor(npu, c, n) /\ dpPending' = dpPending /\ dpReady' = dpReady
    BY <1>2 DEF Pass
  <2>2. LoopOK(c, dpPending, dpReady, PassFor(npu, c, n))
    BY ModesOnly
  <2>3. QED
    BY <2>1, <2>2
<1>3. QED
  BY <1>1, <1>2

(* d is c after NPU n has opened a batch, for requests or as a dummy.      *)
Starts(c, i, n, batch, d) ==
  /\ \E reqs : batch = NewBatch(c.sched[i], n, reqs)
  /\ \/ d = [c EXCEPT !.sched[i] = Opened(@, batch)]
     \/ d = [c EXCEPT !.sched[i] = Registered(@, batch)]

(* The barrier after batch id of instance i has come to it. *)
AtBarrier(i, id) == [dpPending EXCEPT ![i] = Append(@, id)]

(* A batch that n opens is pending at the barrier until its round; n has   *)
(* opened the oldest of its instance that is.                              *)
LEMMA Opening ==
  ASSUME NEW c, LoopOK(c, dpPending, dpReady, npu),
         NEW i \in DOMAIN Insts, NEW n \in NpusOf(Insts[i]), npu[n].mode # "busy",
         dpReady[n] = << >>, Joinable(c, n) = {}, NEW batch, NEW d, Starts(c, i, n, batch, d)
  PROVE  LET more == AtBarrier(i, batch.id)
         IN  /\ LoopOK(d, more, dpReady, npu) /\ more[i] # << >>
             /\ Opener(RoundBatch(d, more, i)) = n
             /\ dpPending[i] = << >> => Due(d, more, i) = batch.id /\ Tail(more[i]) = << >>
<1> DEFINE s == c.sched[i]
<1> DEFINE t == d.sched[i]
<1> DEFINE more == AtBarrier(i, batch.id)
<1>0. more = [dpPending EXCEPT ![i] = Append(@, batch.id)]
  BY DEF AtBarrier
<1>1. /\ CoreShape(c) /\ SchedShape(s, i) /\ InstOf(n) = i /\ PendingOK(c, dpPending, i)
      /\ DOMAIN dpPending = DOMAIN Insts
  BY PlacedNpus DEF LoopOK
<1>2. /\ DOMAIN batch = {"id", "reqs", "fired", "ended", "name"}
      /\ batch.id = s.nextId /\ batch.fired = <<n>> /\ batch.ended = {} /\ batch.name = NoName
  BY DEF NewBatch, Starts
<1>3. BatchShape(batch, i)
  <2>1. <<n>> \in Seq(NpusOf(Insts[i])) /\ <<n>> # << >>
    OBVIOUS
  <2>2. QED
    BY <1>1, <1>2, <2>1 DEF BatchShape, SchedShape
<1>4. /\ CoreShape(d) /\ \A j \in DOMAIN Insts \ {i} : d.sched[j] = c.sched[j]
      /\ t = Opened(s, batch) \/ t = Registered(s, batch)
  <2>1. \/ d = [c EXCEPT !.sched[i] = Opened(@, batch)]
        \/ d = [c EXCEPT !.sched[i] = Registered(@, batch)]
    BY DEF Starts
  <2>2. QED
    BY <1>1, <2>1 DEF CoreShape
<1>5. /\ DOMAIN t = {"waiting", "running", "inflight", "nextId"}
      /\ t.inflight = Append(s.inflight, batch) /\ t.nextId = s.nextId + 1
  <2>1. \A b : LET u == Registered(s, b)
               IN  /\ DOMAIN u = {"waiting", "running", "inflight", "nextId"}
                   /\ u.inflight = Append(s.inflight, b) /\ u.nextId = s.nextId + 1
    BY <1>1 DEF Registered, SchedShape
  <2>2. LET u == Opened(s, batch)
        IN  /\ DOMAIN u = {"waiting", "running", "inflight", "nextId"}
            /\ u.inflight = Append(s.inflight, batch) /\ u.nextId = s.nextId + 1
    <3> DEFINE r == Registered(s, batch)
    <3>1. /\ DOMAIN r = {"waiting", "running", "inflight", "nextId"}
          /\ r.inflight = Append(s.inflight, batch) /\ r.nextId = s.nextId + 1
      BY <2>1
    <3> HIDE DEF r
    <3>2. \E x, y : Opened(s, batch) = [r EXCEPT !.running = x, !.waiting = y]
      BY DEF Opened, r
    <3> HIDE DEF s
    <3>3. QED
      BY <3>1, <3>2
  <2> HIDE DEF s, t
  <2>3. QED
    BY <1>4, <2>1, <2>2
<1>6. /\ Got(dpReady, npu, n) = Due(c, dpPending, i)
      /\ \A k \in DOMAIN s.inflight : s.inflight[k].id >= Due(c, dpPending, i) => Opener(s.inflight[k]) = n
  <2>1. \A k \in DOMAIN s.inflight : s.inflight[k].id = npu[n].ended => n \in ToSet(s.inflight[k].fired)
    BY <1>1 DEF Joinable, Fired
  <2>2. QED
    BY <2>1, MayOpen
<1>7. LoopOK(d, more, dpReady, npu)
  <2>1. LoopOK(d, [dpPending EXCEPT ![i] = Append(@, c.sched[i].nextId)], dpReady, npu)
    <3>1. OpensNext(c, dpPending, dpReady, npu, i, n)
      BY <1>6 DEF OpensNext
    <3>2. OpensBatch(c, i, n, batch, d)
      BY <1>2, <1>3, <1>4, <1>5 DEF OpensBatch
    <3>3. QED
      BY <3>1, <3>2, BatchOpened
  <2>2. batch.id = c.sched[i].nextId
    BY <1>2
  <2>3. QED
    BY <1>0, <2>1, <2>2
<1>8. more[i] = Append(dpPending[i], batch.id) /\ List(dpPending[i]) /\ List(s.inflight)
  BY <1>0, <1>1 DEF PendingOK, SchedShape
<1> HIDE DEF more
<1>9. /\ List(more[i]) /\ Len(more[i]) = Len(dpPending[i]) + 1 /\ Len(dpPending[i]) \in Nat
      /\ more[i] # << >>
  <2>1. List(more[i]) /\ Len(more[i]) = Len(dpPending[i]) + 1 /\ Len(dpPending[i]) \in Nat
    BY <1>8, ListAppend, ListLen
  <2>2. more[i] # << >>
    BY <2>1, ListLen
  <2>3. QED
    BY <2>1, <2>2
<1>10. s.nextId \in Nat /\ Due(d, more, i) = s.nextId - Len(dpPending[i])
  <2>1. s.nextId \in Nat /\ d.sched[i].nextId = s.nextId + 1
    BY <1>1, <1>5 DEF SchedShape
  <2> HIDE DEF s
  <2>2. QED
    BY <1>9, <2>1 DEF Due
<1>11. Opener(RoundBatch(d, more, i)) = n
  <2> DEFINE len == Len(s.inflight)
  <2>1. /\ len \in Nat /\ Len(t.inflight) = len + 1 /\ t.inflight[len + 1] = batch
    BY <1>5, <1>8, ListAppend, ListLen
  <2>2. \A k \in 1..Len(t.inflight) :
          t.inflight[k].id >= Due(d, more, i) => Opener(t.inflight[k]) = Opener(RoundBatch(d, more, i))
    <3>1. i \in GroupOf(i)
      BY DEF GroupOf
    <3>2. QED
      BY <1>7, <1>9, <3>1, RoundBatches
  <2>3. Opener(batch) = n
    BY <1>2 DEF Opener
  <2>4. batch.id >= Due(d, more, i)
    BY <1>2, <1>9, <1>10
  <2> HIDE DEF s, t, len
  <2>5. len + 1 \in 1..Len(t.inflight)
    BY <2>1
  <2>6. QED
    BY <2>1, <2>2, <2>3, <2>4, <2>5
<1>12. ASSUME dpPending[i] = << >> PROVE Due(d, more, i) = batch.id /\ Tail(more[i]) = << >>
  <2>1. Len(dpPending[i]) = 0 /\ more[i] = << batch.id >>
    BY <1>8, <1>12
  <2>2. Due(d, more, i) = batch.id
    BY <1>2, <1>10, <2>1
  <2>3. Tail(<< batch.id >>) = << >>
    OBVIOUS
  <2>4. QED
    BY <2>1, <2>2, <2>3
<1>13. QED
  BY <1>7, <1>9, <1>11, <1>12 DEF more

(* Outside the groups a batch is a round of its own. *)
LEMMA RoundOfOne ==
  ASSUME NEW d, NEW i \in DOMAIN Insts, ~InGroup(i), NEW id,
         NEW more, more = [dpPending EXCEPT ![i] = Append(@, id)],
         LoopOK(d, more, dpReady, npu), DOMAIN dpPending = DOMAIN Insts,
         more[i] # << >>, Tail(more[i]) = << >>, dpPending[i] = << >>,
         NEW n \in NpusOf(Insts[i]), npu[n].mode # "busy", dpReady[n] = << >>,
         Opener(RoundBatch(d, more, i)) = n, NEW g, OfBatch(g, Due(d, more, i))
  PROVE  LoopOK(d, dpPending, dpReady, GiveWorkload(npu, n, g))
<1>1. GroupOf(i) = {i} /\ \A j \in DOMAIN Insts \ {i} : more[j] = dpPending[j]
  BY GroupMembers DEF LoopOK
<1>2. CoreShape(d) /\ \A m \in DOMAIN Insts : SchedShape(d.sched[m], m)
  BY DEF LoopOK
<1>3. \A m \in DOMAIN Insts : dpPending[m] = IF m \in GroupOf(i) THEN Tail(more[m]) ELSE more[m]
  BY <1>1
<1> DEFINE given == [q \in DOMAIN dpReady |-> g]
<1>4. \A q \in DOMAIN dpReady : OfBatch(given[q], Due(d, more, i))
  OBVIOUS
<1> HIDE DEF given
<1>5. \A q \in DOMAIN dpReady :
        dpReady[q] = IF q # n /\ \E m \in GroupOf(i) : Opener(RoundBatch(d, more, m)) = q
                     THEN Append(dpReady[q], given[q]) ELSE dpReady[q]
  BY <1>1
<1>6. RoundOver(d, more, dpReady, i, n, dpPending, given, dpReady)
  BY <1>3, <1>4, <1>5 DEF RoundOver
<1>7. NamesRound(d, i, Due(d, more, i), d)
  BY <1>2 DEF NamesRound
<1>8. \A m \in GroupOf(i) : more[m] # << >>
  BY <1>1
<1>9. QED
  BY <1>6, <1>7, <1>8, RoundEnds

LEMMA NamedBatches ==
  ASSUME NEW d, NEW more, CoreShape(d), NEW i \in DOMAIN Insts,
         \A m \in DOMAIN Insts : SchedShape(d.sched[m], m),
         \A m \in DOMAIN Insts : \A k \in 1..Len(d.sched[m].inflight) :
           DOMAIN d.sched[m].inflight[k] = {"id", "reqs", "fired", "ended", "name"},
         NEW h, RoundName(more, i).round = h, \A m \in GroupOf(i) : Head(more[m]) = h
  PROVE  NamesRound(d, i, h, Named(d, more, i))
<1> DEFINE e == Named(d, more, i)
<1> DEFINE round == RoundName(more, i)
<1> DEFINE Inflight(m) ==
      [k \in DOMAIN d.sched[m].inflight |->
         IF d.sched[m].inflight[k].id = Head(more[m])
         THEN [d.sched[m].inflight[k] EXCEPT !.name = round] ELSE d.sched[m].inflight[k]]
<1>1. /\ CoreShape(e)
      /\ \A m \in DOMAIN Insts :
           e.sched[m] = IF m \notin GroupOf(i) THEN d.sched[m] ELSE [d.sched[m] EXCEPT !.inflight = Inflight(m)]
  <2>1. e.sched = [m \in DOMAIN Insts |->
                     IF m \notin GroupOf(i) THEN d.sched[m] ELSE [d.sched[m] EXCEPT !.inflight = Inflight(m)]]
    BY DEF CoreShape, Named, NamedIn
  <2>2. DOMAIN e = DOMAIN d
    BY DEF Named
  <2> HIDE DEF e, Inflight
  <2>3. QED
    BY <2>1, <2>2 DEF CoreShape
<1> HIDE DEF e, round
<1>2. SUFFICES ASSUME NEW m \in DOMAIN Insts
               PROVE  /\ SchedShape(e.sched[m], m) /\ e.sched[m].nextId = d.sched[m].nextId
                      /\ Len(e.sched[m].inflight) = Len(d.sched[m].inflight)
                      /\ \A k \in 1..Len(d.sched[m].inflight) :
                           LET a == d.sched[m].inflight[k]  b == e.sched[m].inflight[k]
                           IN  /\ DOMAIN b = DOMAIN a
                               /\ b.id = a.id /\ b.fired = a.fired /\ b.ended = a.ended
                               /\ b.name = a.name \/ (m \in GroupOf(i) /\ a.id = h /\ b.name.round = a.id)
  BY <1>1 DEF e, NamesRound
<1>3. CASE m \notin GroupOf(i)
  <2>1. e.sched[m] = d.sched[m]
    BY <1>1, <1>3
  <2>2. QED
    BY <2>1
<1>4. CASE m \in GroupOf(i)
  <2> DEFINE fl == d.sched[m].inflight
  <2> DEFINE gl == Inflight(m)
  <2> DEFINE len == Len(fl)
  <2>1. /\ DOMAIN d.sched[m] = {"waiting", "running", "inflight", "nextId"}
        /\ d.sched[m].nextId \in Nat /\ List(fl) /\ Head(more[m]) = h
    BY <1>4 DEF SchedShape
  <2>2. len \in Nat /\ DOMAIN fl = 1..len
    BY <2>1, ListLen
  <2>3. e.sched[m] = [d.sched[m] EXCEPT !.inflight = gl]
    BY <1>1, <1>4
  <2>4. /\ gl = [k \in 1..len |-> gl[k]]
        /\ \A k \in 1..len : gl[k] = IF fl[k].id = h THEN [fl[k] EXCEPT !.name = round] ELSE fl[k]
    BY <2>1, <2>2
  <2>5. \A k \in 1..len : DOMAIN fl[k] = {"id", "reqs", "fired", "ended", "name"}
    OBVIOUS
  <2>6. round.round = h
    BY DEF round
  <2> HIDE DEF gl, fl, len
  <2>7. List(gl) /\ Len(gl) = len
    BY <2>2, <2>4, ListFrom
  <2>8. /\ DOMAIN e.sched[m] = {"waiting", "running", "inflight", "nextId"}
        /\ e.sched[m].inflight = gl /\ e.sched[m].nextId = d.sched[m].nextId
    BY <2>1, <2>3
  <2>9. ASSUME NEW k \in 1..len
        PROVE  /\ DOMAIN gl[k] = DOMAIN fl[k]
               /\ gl[k].id = fl[k].id /\ gl[k].fired = fl[k].fired /\ gl[k].ended = fl[k].ended
               /\ gl[k].name = fl[k].name \/ (fl[k].id = h /\ gl[k].name.round = fl[k].id)
    <3>1. CASE fl[k].id = h
      <4>1. gl[k] = [fl[k] EXCEPT !.name = round] /\ DOMAIN fl[k] = {"id", "reqs", "fired", "ended", "name"}
        BY <2>4, <2>5, <3>1
      <4>2. QED
        BY <2>6, <3>1, <4>1
    <3>2. CASE fl[k].id # h
      BY <2>4, <3>2
    <3>3. QED
      BY <3>1, <3>2
  <2>10. SchedShape(e.sched[m], m)
    BY <2>1, <2>7, <2>8 DEF SchedShape
  <2>11. QED
    BY <1>4, <2>7, <2>8, <2>9, <2>10 DEF fl, len
<1>5. QED
  BY <1>3, <1>4

(* A batch comes to the barrier: its round is complete, or it waits.       *)
LEMMA JoinRoundOK ==
  ASSUME NEW d, NEW n \in DOMAIN npu, NEW id,
         NEW more, more = [dpPending EXCEPT ![InstOf(n)] = Append(@, id)],
         LoopOK(d, more, dpReady, npu), PlainOK(dpPending), DOMAIN dpPending = DOMAIN Insts,
         npu[n].mode # "busy", dpReady[n] = << >>, InGroup(InstOf(n)),
         more[InstOf(n)] # << >>, Opener(RoundBatch(d, more, InstOf(n))) = n,
         JoinRound(d, n, id)
  PROVE  LoopOK(core', dpPending', dpReady', npu') /\ PlainOK(dpPending')
<1> DEFINE i == InstOf(n)
<1> DEFINE graph(m) == Graph(RoundName(more, i), BatchOf(d.sched[m], Head(more[m])))
<1> DEFINE h == Due(d, more, i)
<1>1. /\ i \in DOMAIN Insts /\ n \in NpusOf(Insts[i]) /\ scenario \in Scenarios
      /\ DOMAIN npu = 0..(TotalNpu(Insts) - 1) /\ DOMAIN dpReady = DOMAIN npu
      /\ DOMAIN more = DOMAIN Insts
  BY PlacedNpus DEF LoopOK, NpusOK
<1>2. /\ i \in GroupOf(i) /\ GroupOf(i) \subseteq DOMAIN Insts /\ Min(GroupOf(i)) \in GroupOf(i)
  BY <1>1, GroupMembers
<1>3. /\ PlainOK(more)
      /\ \A j \in GroupOf(i) : InGroup(j)
  <2>1. \A j \in GroupOf(i) : InGroup(j)
    BY DEF GroupOf, InGroup
  <2>2. PlainOK(more)
    BY <1>1 DEF PlainOK
  <2>3. QED
    BY <2>1, <2>2
<1> HIDE DEF i
<1>4. CASE ~RoundComplete(more, i)
  <2>1. core' = d /\ dpPending' = more /\ npu' = PassChanged(npu) /\ dpReady' = dpReady
    BY <1>4 DEF JoinRound, i
  <2>2. LoopOK(d, more, dpReady, PassChanged(npu))
    BY ModesOnly
  <2>3. QED
    BY <1>3, <2>1, <2>2
<1>5. CASE RoundComplete(more, i)
  <2> DEFINE e == Named(d, more, i)
  <2> DEFINE left == [m \in DOMAIN Insts |-> IF m \in GroupOf(i) THEN Tail(more[m]) ELSE more[m]]
  <2> DEFINE rest == [q \in Npus |->
                        IF q # n /\ \E m \in GroupOf(i) : Opener(RoundBatch(d, more, m)) = q
                        THEN Append(dpReady[q], graph(InstOf(q))) ELSE dpReady[q]]
  <2> DEFINE given == [q \in DOMAIN dpReady |-> IF InstOf(q) \in GroupOf(i) THEN graph(InstOf(q)) ELSE graph(i)]
  <2>1. \A m \in GroupOf(i) : more[m] # << >>
    BY <1>5 DEF RoundComplete
  <2>2. /\ core' = e /\ dpPending' = left /\ dpReady' = rest /\ npu' = GiveWorkload(npu, n, graph(i))
    <3>1. Opener(RoundBatch(d, more, i)) = n
      BY DEF i
    <3>2. QED
      BY <1>5, <3>1 DEF JoinRound, i, Opener, RoundBatch
  <2>3. ASSUME NEW m \in GroupOf(i)
        PROVE  /\ Head(more[m]) = h /\ BatchOf(d.sched[m], Head(more[m])).id = h
               /\ Opener(RoundBatch(d, more, m)) \in NpusOf(Insts[m])
    <3>1. /\ Head(more[m]) = h /\ RoundBatch(d, more, m).id = h
          /\ Opener(RoundBatch(d, more, m)) \in NpusOf(Insts[m])
      <4>1. LoopOK(d, more, dpReady, npu) /\ i \in DOMAIN Insts /\ m \in GroupOf(i) /\ more[m] # << >>
        BY <1>1, <2>1
      <4>2. QED
        BY ONLY <4>1, RoundBatches
    <3>2. QED
      BY <3>1 DEF RoundBatch
  <2> HIDE DEF h
  <2>4. RoundName(more, i).round = h
    BY <1>2, <2>3 DEF RoundName
  <2>5. \A m \in GroupOf(i) : OfBatch(graph(m), h)
    BY <2>3, <2>4 DEF OfBatch, Graph
  <2> HIDE DEF graph, e
  <2>6. \A q \in DOMAIN dpReady : OfBatch(given[q], h)
    BY <1>2, <2>5
  <2>7. \A q \in DOMAIN dpReady :
          rest[q] = IF q # n /\ \E m \in GroupOf(i) : Opener(RoundBatch(d, more, m)) = q
                    THEN Append(dpReady[q], given[q]) ELSE dpReady[q]
    <3>1. \A q \in DOMAIN dpReady :
            (\E m \in GroupOf(i) : Opener(RoundBatch(d, more, m)) = q) => InstOf(q) \in GroupOf(i)
      <4>1. \A m \in GroupOf(i) : \A q \in NpusOf(Insts[m]) : InstOf(q) = m
        BY <1>1, <1>2, PlacedNpus
      <4>2. QED
        BY <2>3, <4>1
    <3>2. QED
      BY <1>1, <3>1 DEF Npus
  <2>8. /\ CoreShape(d)
        /\ \A m \in DOMAIN Insts : SchedShape(d.sched[m], m)
        /\ \A m \in DOMAIN Insts : \A k \in 1..Len(d.sched[m].inflight) :
             DOMAIN d.sched[m].inflight[k] = {"id", "reqs", "fired", "ended", "name"}
    BY DEF LoopOK, BatchesOK, BatchShape
  <2>9. NamesRound(d, i, h, e)
    <3>1. \A m \in GroupOf(i) : Head(more[m]) = h
      BY <2>3
    <3>2. i \in DOMAIN Insts
      BY <1>1
    <3>3. QED
      BY ONLY <2>4, <2>8, <3>1, <3>2, NamedBatches DEF e
  <2>10. /\ DOMAIN left = DOMAIN Insts /\ DOMAIN rest = DOMAIN dpReady
         /\ \A m \in DOMAIN Insts : left[m] = IF m \in GroupOf(i) THEN Tail(more[m]) ELSE more[m]
    BY <1>1 DEF Npus
  <2> DEFINE g == graph(i)
  <2>11. OfBatch(g, h) /\ Opener(RoundBatch(d, more, i)) = n
    BY <1>2, <2>5 DEF i
  <2> HIDE DEF g, left, rest, given
  <2>12. RoundOver(d, more, dpReady, i, n, left, given, rest)
    BY <2>6, <2>7, <2>10 DEF RoundOver, h
  <2>13. LoopOK(e, left, rest, GiveWorkload(npu, n, g))
    <3>1. /\ LoopOK(d, more, dpReady, npu) /\ i \in DOMAIN Insts /\ n \in NpusOf(Insts[i])
          /\ npu[n].mode # "busy" /\ dpReady[n] = << >>
      BY <1>1
    <3>2. QED
      BY ONLY <2>1, <2>9, <2>11, <2>12, <3>1, RoundEnds DEF h
  <2>14. PlainOK(left)
    BY <1>3, <2>10 DEF PlainOK
  <2>15. QED
    BY <2>2, <2>13, <2>14 DEF g
<1>6. QED
  BY <1>4, <1>5

LEMMA OpenBatchOK ==
  ASSUME NEW c, LoopOK(c, dpPending, dpReady, npu), PlainOK(dpPending),
         NEW n \in DOMAIN npu, npu[n].mode # "busy", OpenBatch(n, c)
  PROVE  LoopOK(core', dpPending', dpReady', npu') /\ PlainOK(dpPending')
<1> DEFINE i == InstOf(n)
<1> DEFINE batch == NewBatch(c.sched[i], n, Schedulable(c.sched[i]))
<1> DEFINE d == [c EXCEPT !.sched[i] = Opened(@, batch)]
<1> DEFINE more == AtBarrier(i, batch.id)
<1>1. /\ ~Owed(n) /\ Joinable(c, n) = {}
      /\ \/ /\ ~InGroup(i) /\ core' = d
            /\ npu' = GiveWorkload(npu, n, Graph([dir |-> i, round |-> batch.id], batch))
            /\ dpPending' = dpPending /\ dpReady' = dpReady
         \/ InGroup(i) /\ JoinRound(d, n, batch.id)
  BY DEF OpenBatch
<1>2. /\ i \in DOMAIN Insts /\ n \in NpusOf(Insts[i]) /\ dpReady[n] = << >>
      /\ DOMAIN dpPending = DOMAIN Insts
  BY <1>1, PlacedNpus DEF LoopOK, NpusOK, Owed
<1>3. /\ LoopOK(d, more, dpReady, npu) /\ more[i] # << >> /\ Opener(RoundBatch(d, more, i)) = n
      /\ dpPending[i] = << >> => Due(d, more, i) = batch.id /\ Tail(more[i]) = << >>
  <2>1. Starts(c, i, n, batch, d)
    BY DEF Starts
  <2> HIDE DEF d, batch, i
  <2>2. /\ LoopOK(c, dpPending, dpReady, npu) /\ i \in DOMAIN Insts /\ n \in NpusOf(Insts[i])
        /\ npu[n].mode # "busy" /\ dpReady[n] = << >> /\ Joinable(c, n) = {}
    BY <1>1, <1>2
  <2>3. QED
    BY ONLY <2>1, <2>2, Opening
<1>4. CASE /\ ~InGroup(i) /\ core' = d
           /\ npu' = GiveWorkload(npu, n, Graph([dir |-> i, round |-> batch.id], batch))
           /\ dpPending' = dpPending /\ dpReady' = dpReady
  <2> DEFINE g == Graph([dir |-> i, round |-> batch.id], batch)
  <2>1. OfBatch(g, batch.id)
    BY DEF OfBatch, Graph
  <2>2. dpPending[i] = << >>
    BY <1>2, <1>4 DEF PlainOK
  <2>3. core' = d /\ npu' = GiveWorkload(npu, n, g) /\ dpPending' = dpPending /\ dpReady' = dpReady
    BY <1>4
  <2> DEFINE id == batch.id
  <2>4. more = [dpPending EXCEPT ![i] = Append(@, id)] /\ OfBatch(g, Due(d, more, i)) /\ ~InGroup(i)
    BY <1>3, <1>4, <2>1, <2>2 DEF AtBarrier
  <2> HIDE DEF g, d, more, batch, id, i
  <2>5. LoopOK(d, dpPending, dpReady, GiveWorkload(npu, n, g))
    BY <1>2, <1>3, <2>2, <2>4, RoundOfOne
  <2>6. QED
    BY <2>3, <2>5
<1>5. CASE InGroup(i) /\ JoinRound(d, n, batch.id)
  <2> DEFINE id == batch.id
  <2>1. more = [dpPending EXCEPT ![InstOf(n)] = Append(@, id)] /\ JoinRound(d, n, id)
    BY <1>5 DEF AtBarrier
  <2>2. /\ InGroup(InstOf(n)) /\ more[InstOf(n)] # << >> /\ Opener(RoundBatch(d, more, InstOf(n))) = n
        /\ LoopOK(d, more, dpReady, npu)
    BY <1>3, <1>5
  <2> HIDE DEF d, more, batch, id, i
  <2>3. QED
    BY <1>2, <2>1, <2>2, JoinRoundOK
<1>6. QED
  BY <1>1, <1>4, <1>5

LEMMA OpenDummyOK ==
  ASSUME NEW c, LoopOK(c, dpPending, dpReady, npu), PlainOK(dpPending),
         NEW n \in DOMAIN npu, npu[n].mode # "busy", OpenDummy(n, c)
  PROVE  LoopOK(core', dpPending', dpReady', npu') /\ PlainOK(dpPending')
<1> DEFINE i == InstOf(n)
<1> DEFINE batch == NewBatch(c.sched[i], n, << >>)
<1> DEFINE d == [c EXCEPT !.sched[i] = Registered(@, batch)]
<1> DEFINE more == AtBarrier(i, batch.id)
<1>1. /\ ~Owed(n) /\ Joinable(c, n) = {} /\ InGroup(i) /\ JoinRound(d, n, batch.id)
  BY DEF OpenDummy, NeedsDummy
<1>2. /\ i \in DOMAIN Insts /\ n \in NpusOf(Insts[i]) /\ dpReady[n] = << >>
      /\ DOMAIN dpPending = DOMAIN Insts
  BY <1>1, PlacedNpus DEF LoopOK, NpusOK, Owed
<1>3. /\ LoopOK(d, more, dpReady, npu) /\ more[i] # << >> /\ Opener(RoundBatch(d, more, i)) = n
  <2>1. Starts(c, i, n, batch, d)
    BY DEF Starts
  <2> HIDE DEF d, batch, i
  <2>2. /\ LoopOK(c, dpPending, dpReady, npu) /\ i \in DOMAIN Insts /\ n \in NpusOf(Insts[i])
        /\ npu[n].mode # "busy" /\ dpReady[n] = << >> /\ Joinable(c, n) = {}
    BY <1>1, <1>2
  <2>3. QED
    BY ONLY <2>1, <2>2, Opening
<1> DEFINE id == batch.id
<1>4. more = [dpPending EXCEPT ![InstOf(n)] = Append(@, id)] /\ JoinRound(d, n, id)
  BY <1>1 DEF AtBarrier
<1>5. /\ InGroup(InstOf(n)) /\ more[InstOf(n)] # << >> /\ Opener(RoundBatch(d, more, InstOf(n))) = n
      /\ LoopOK(d, more, dpReady, npu)
  BY <1>1, <1>3
<1> HIDE DEF d, more, batch, id, i
<1>6. QED
  BY <1>2, <1>4, <1>5, JoinRoundOK

-----------------------------------------------------------------------------
(* The invariant. *)

(* A step that keeps the scenario keeps what the invariant says of it. *)
LEMMA Carried ==
  ASSUME scenario' = scenario, LoopOK(core', dpPending', dpReady', npu'), PlainOK(dpPending'),
         turn' \subseteq Npus', \A n \in turn' : npu'[n].mode # "busy"
  PROVE  LoopInv'
<1>1. LoopOK(core, dpPending, dpReady, npu)' <=> LoopOK(core', dpPending', dpReady', npu')
  <2>1. CoreShape(core)' <=> CoreShape(core')
    BY DEF CoreShape, Insts
  <2>2. NpusOK(core, dpPending, dpReady, npu)' <=> NpusOK(core', dpPending', dpReady', npu')
    BY DEF NpusOK, NpuOK, Due, Got, OfBatch, InstOf, Insts, List
  <2>3. StagesOK(npu)' <=> StagesOK(npu')
    BY DEF StagesOK, Insts
  <2>4. ASSUME NEW i
        PROVE  /\ SchedShape(core.sched[i], i)' <=> SchedShape(core'.sched[i], i)
               /\ NoneMissing(npu, core.sched[i], i)' <=> NoneMissing(npu', core'.sched[i], i)
               /\ PendingOK(core, dpPending, i)' <=> PendingOK(core', dpPending', i)
    BY DEF SchedShape, NoneMissing, PendingOK, Due, GroupOf, Insts, List
  <2>5. ASSUME NEW i
        PROVE  BatchesOK(dpReady, npu, core.sched[i], Due(core, dpPending, i), i)'
               <=> BatchesOK(dpReady', npu', core'.sched[i], Due(core', dpPending', i), i)
    BY DEF BatchesOK, BatchShape, BatchOK, Due, Got, Opener, Insts
  <2>6. QED
    BY <2>1, <2>2, <2>3, <2>4, <2>5 DEF LoopOK, Insts
<1>2. PlainOK(dpPending)' <=> PlainOK(dpPending')
  BY DEF PlainOK, InGroup, Insts
<1>3. QED
  BY <1>1, <1>2 DEF LoopInv

LEMMA AnswerOK == ASSUME LoopInv, Answer PROVE LoopInv'
<1>1. PICK n \in turn :
        \E routed \in {RouteArrived(core)} : \E completed \in {AddDone(routed, n)} :
          \E notified \in {Notify(completed, InstOf(n))} :
            \E c \in {[Transfer(notified, InstOf(n)) EXCEPT !.finished = << >>]} :
              /\ HandOver(n, c) \/ JoinBatch(n, c) \/ OpenBatch(n, c) \/ OpenDummy(n, c)
                 \/ TellDone(n, c) \/ Pass(n, c)
              /\ turn' = {} /\ UNCHANGED <<scenario, clock>>
  BY DEF Answer
<1> DEFINE routed == RouteArrived(core)
<1> DEFINE completed == AddDone(routed, n)
<1> DEFINE notified == Notify(completed, InstOf(n))
<1> DEFINE moved == Transfer(notified, InstOf(n))
<1> DEFINE c == [moved EXCEPT !.finished = << >>]
<1>2. /\ HandOver(n, c) \/ JoinBatch(n, c) \/ OpenBatch(n, c) \/ OpenDummy(n, c)
         \/ TellDone(n, c) \/ Pass(n, c)
      /\ turn' = {} /\ scenario' = scenario
  BY <1>1
<1>3. /\ n \in DOMAIN npu /\ npu[n].mode # "busy"
      /\ LoopOK(core, dpPending, dpReady, npu) /\ PlainOK(dpPending)
  BY DEF LoopInv, Npus
<1>4. LoopOK(routed, dpPending, dpReady, npu)
  BY <1>3, QueuesOnly
<1> HIDE DEF routed
<1>5. LoopOK(completed, dpPending, dpReady, npu)
  BY <1>3, <1>4, DoneAdded
<1> HIDE DEF completed
<1>6. LoopOK(notified, dpPending, dpReady, npu)
  BY <1>5, QueuesOnly
<1> HIDE DEF notified
<1>7. LoopOK(moved, dpPending, dpReady, npu)
  BY <1>6, QueuesOnly
<1> HIDE DEF moved
<1>8. LoopOK(c, dpPending, dpReady, npu)
  BY <1>7, QueuesOnly
<1> HIDE DEF c
<1>9. LoopOK(core', dpPending', dpReady', npu') /\ PlainOK(dpPending')
  <2>1. CASE HandOver(n, c)
    BY <1>3, <1>8, <2>1, HandOverOK
  <2>2. CASE JoinBatch(n, c)
    BY <1>3, <1>8, <2>2, JoinBatchOK
  <2>3. CASE OpenBatch(n, c)
    BY <1>3, <1>8, <2>3, OpenBatchOK
  <2>4. CASE OpenDummy(n, c)
    BY <1>3, <1>8, <2>4, OpenDummyOK
  <2>5. CASE TellDone(n, c) \/ Pass(n, c)
    BY <1>3, <1>8, <2>5, HoldsOK
  <2>6. QED
    BY <1>2, <2>1, <2>2, <2>3, <2>4, <2>5
<1>10. QED
  BY <1>2, <1>9, Carried

LEMMA ReportOK == ASSUME LoopInv, NEW n \in Npus, Report(n) PROVE LoopInv'
<1>1. /\ LoopOK(core, dpPending, dpReady, npu) /\ PlainOK(dpPending)
      /\ npu[n].mode = "busy" /\ CanEnd(n) /\ n \in DOMAIN npu
      /\ turn' = {n} /\ npu' = [Reopened(npu) EXCEPT ![n].mode = "open", ![n].ended = @ + 1]
      /\ UNCHANGED <<scenario, clock, core, dpPending, dpReady, done>>
  BY DEF LoopInv, Report, Npus
<1>2. LoopOK(core', dpPending', dpReady', npu')
  <2>1. LoopOK(core, dpPending, dpReady,
               [Reopened(npu) EXCEPT ![n].mode = "open", ![n].ended = @ + 1])
    BY <1>1, Reported
  <2>2. QED
    BY <1>1, <2>1
<1>3. n \in Npus' /\ npu'[n].mode # "busy"
  <2>1. /\ DOMAIN Reopened(npu) = DOMAIN npu
        /\ \A m \in DOMAIN npu : DOMAIN Reopened(npu)[m] = {"mode", "until", "log", "ended"}
    <3>1. \A m \in DOMAIN npu : DOMAIN npu[m] = {"mode", "until", "log", "ended"}
      BY <1>1 DEF LoopOK, NpusOK, NpuOK
    <3>2. QED
      BY <3>1, ReopenedModes
  <2>2. QED
    BY <1>1, <2>1 DEF Npus
<1>4. QED
  BY <1>1, <1>2, <1>3, Carried

LEMMA TickOK == ASSUME LoopInv, Tick PROVE LoopInv'
<1>1. /\ LoopOK(core, dpPending, dpReady, npu) /\ PlainOK(dpPending) /\ turn = {}
      /\ UNCHANGED <<scenario, core, dpPending, dpReady, done, turn>>
      /\ DOMAIN npu' = DOMAIN npu
      /\ \A n \in DOMAIN npu : npu'[n] \in {npu[n], [npu[n] EXCEPT !.mode = "open"]}
      /\ \A n \in DOMAIN npu : npu[n].mode # "held" => npu'[n] = npu[n]
  <2>1. /\ LoopOK(core, dpPending, dpReady, npu) /\ PlainOK(dpPending) /\ turn = {}
        /\ UNCHANGED <<scenario, core, dpPending, dpReady, done, turn>>
        /\ DOMAIN npu' = DOMAIN npu
    BY DEF LoopInv, Tick, Npus
  <2>2. \A n \in DOMAIN npu :
          npu'[n] = IF npu[n].mode = "held" /\ npu[n].until > clock /\ npu[n].until <= clock'
                    THEN [npu[n] EXCEPT !.mode = "open"] ELSE npu[n]
    BY DEF Tick, Npus
  <2>3. QED
    BY <2>1, <2>2
<1>2. \A n \in DOMAIN npu : DOMAIN npu[n] = {"mode", "until", "log", "ended"}
  BY <1>1 DEF LoopOK, NpusOK, NpuOK
<1>3. \A n \in DOMAIN npu :
        /\ DOMAIN npu'[n] = {"mode", "until", "log", "ended"}
        /\ npu'[n].log = npu[n].log /\ npu'[n].ended = npu[n].ended
        /\ npu'[n].mode = "busy" <=> npu[n].mode = "busy"
  BY <1>1, <1>2
<1> DEFINE new == npu'
<1> HIDE DEF new
<1>4. LoopOK(core, dpPending, dpReady, new)
  <2>1. /\ DOMAIN new = DOMAIN npu
        /\ \A n \in DOMAIN npu :
             /\ DOMAIN new[n] = {"mode", "until", "log", "ended"}
             /\ new[n].log = npu[n].log /\ new[n].ended = npu[n].ended
             /\ new[n].mode = "busy" <=> npu[n].mode = "busy"
    BY <1>1, <1>3 DEF new
  <2>2. QED
    BY <1>1, <2>1, SameLogs
<1>5. QED
  BY <1>1, <1>4, Carried DEF new

LEMMA LoopInitOK == ASSUME LoopInit PROVE LoopInv
<1>1. /\ scenario \in Scenarios /\ turn = {} /\ CoreShape(core)
      /\ DOMAIN npu = 0..(TotalNpu(Insts) - 1) /\ DOMAIN dpReady = DOMAIN npu
      /\ dpPending = [i \in DOMAIN Insts |-> << >>]
      /\ \A n \in DOMAIN npu : npu[n] = [mode |-> "open", until |-> 0, log |-> << >>, ended |-> 0]
      /\ \A n \in DOMAIN npu : dpReady[n] = << >>
  BY DEF LoopInit, CoreShape, Npus
<1>2. \A i \in DOMAIN Insts :
        core.sched[i] = [waiting |-> << >>, running |-> << >>, inflight |-> << >>, nextId |-> 0]
  BY DEF LoopInit, NewScheduler
<1>3. List(<< >>) /\ Len(<< >>) = 0
  BY DEF List, ToSet
<1>4. \A i \in DOMAIN Insts : Due(core, dpPending, i) = 0
  BY <1>1, <1>2, <1>3 DEF Due
<1>5. \A n \in DOMAIN npu : NpuOK(npu[n], dpReady[n]) /\ Got(dpReady, npu, n) = 0
  BY <1>1, <1>3 DEF NpuOK, Got
<1>6. NpusOK(core, dpPending, dpReady, npu)
  BY <1>1, <1>4, <1>5, PlacedNpus DEF NpusOK
<1>7. StagesOK(npu)
  <2>1. \A i \in DOMAIN Insts : \A n \in NpusOf(Insts[i]) : n \in DOMAIN npu
    BY <1>1, PlacedNpus
  <2>2. \A n \in DOMAIN npu : npu[n].ended = 0 /\ Len(npu[n].log) = 0
    BY <1>1, <1>3
  <2>3. QED
    BY <2>1, <2>2 DEF StagesOK
<1>8. ASSUME NEW i \in DOMAIN Insts
      PROVE  /\ SchedShape(core.sched[i], i)
             /\ BatchesOK(dpReady, npu, core.sched[i], Due(core, dpPending, i), i)
             /\ NoneMissing(npu, core.sched[i], i) /\ PendingOK(core, dpPending, i)
  <2>1. SchedShape(core.sched[i], i)
    BY <1>2, <1>3 DEF SchedShape
  <2>2. Len(core.sched[i].inflight) = 0 /\ core.sched[i].nextId = 0 /\ Len(dpPending[i]) = 0 /\ List(dpPending[i])
    BY <1>1, <1>2, <1>3
  <2>3. PendingOK(core, dpPending, i)
    BY <1>4, <2>2 DEF PendingOK, GroupOf
  <2>4. BatchesOK(dpReady, npu, core.sched[i], Due(core, dpPending, i), i)
    BY <2>2 DEF BatchesOK
  <2>5. NoneMissing(npu, core.sched[i], i)
    BY <2>2 DEF NoneMissing
  <2>6. QED
    BY <2>1, <2>3, <2>4, <2>5
<1>9. LoopOK(core, dpPending, dpReady, npu)
  BY <1>1, <1>6, <1>7, <1>8 DEF LoopOK
<1>10. QED
  BY <1>1, <1>9 DEF LoopInv, PlainOK

(* The bookkeeping behind the order of the batches holds at every turn.    *)
THEOREM FrontendInductive == LoopSpec => []LoopInv
<1>1. LoopInit => LoopInv
  BY LoopInitOK
<1>2. LoopInv /\ [LoopNext]_loop => LoopInv'
  <2>1. ASSUME LoopInv, LoopNext PROVE LoopInv'
    <3>1. CASE Tick
      BY <2>1, <3>1, TickOK
    <3>2. CASE Answer
      BY <2>1, <3>2, AnswerOK
    <3>3. ASSUME NEW n \in Npus, Report(n) PROVE LoopInv'
      BY <2>1, <3>3, ReportOK
    <3>4. ASSUME NEW n \in Npus, Ask(n) PROVE LoopInv'
      <4>1. /\ UNCHANGED <<scenario, clock, core, dpPending, dpReady, done, npu>>
            /\ turn' = {n} /\ npu[n].mode = "open"
        BY <3>4 DEF Ask
      <4>2. LoopOK(core', dpPending', dpReady', npu') /\ PlainOK(dpPending')
        BY <2>1, <4>1 DEF LoopInv
      <4>3. n \in Npus'
        BY <4>1 DEF Npus
      <4>4. QED
        BY <4>1, <4>2, <4>3, Carried
    <3>5. QED
      BY <2>1, <3>1, <3>2, <3>3, <3>4 DEF LoopNext
  <2>2. ASSUME LoopInv, UNCHANGED loop PROVE LoopInv'
    <3>1. /\ UNCHANGED <<scenario, core, dpPending, dpReady, npu, turn>>
      BY <2>2 DEF loop
    <3>2. /\ LoopOK(core', dpPending', dpReady', npu') /\ PlainOK(dpPending')
          /\ turn' \subseteq Npus' /\ \A n \in turn' : npu'[n].mode # "busy"
      BY <2>2, <3>1 DEF LoopInv, Npus
    <3>3. QED
      BY <3>1, <3>2, Carried
  <2>3. QED
    BY <2>1, <2>2
<1>3. QED
  BY <1>1, <1>2, PTL DEF LoopSpec

(* Every NPU runs the batches 0, 1, 2, ... of its instance, none twice and *)
(* none left out, whoever opened them and however its graphs came to it;   *)
(* and NPUs that meet in a workload are at the same batch.                 *)
THEOREM BatchesRunInOrder == LoopSpec => []RunInOrder
<1>1. LoopInv => RunInOrder
  <2>1. SUFFICES ASSUME LoopInv, NEW n \in Npus, NEW k \in DOMAIN npu[n].log
                 PROVE  /\ npu[n].log[k].batch = k - 1
                        /\ \A m \in Npus : \A l \in DOMAIN npu[m].log :
                             Workload(npu[n].log[k]) = Workload(npu[m].log[l]) => k = l
    BY DEF RunInOrder
  <2>2. \A m \in Npus : NpuOK(npu[m], dpReady[m])
    BY <2>1 DEF LoopInv, LoopOK, NpusOK, Npus
  <2>3. \A m \in Npus : \A l \in DOMAIN npu[m].log : l \in Int /\ OfBatch(npu[m].log[l], l - 1)
    <3>1. ASSUME NEW m \in Npus, NEW l \in DOMAIN npu[m].log
          PROVE  l \in Int /\ OfBatch(npu[m].log[l], l - 1)
      <4>1. List(npu[m].log) /\ \A j \in 1..Len(npu[m].log) : OfBatch(npu[m].log[j], j - 1)
        BY <2>2 DEF NpuOK
      <4>2. l \in 1..Len(npu[m].log) /\ l \in Int
        BY <4>1, ListLen
      <4>3. QED
        BY <4>1, <4>2
    <3>2. QED
      BY <3>1
  <2>4. ASSUME NEW m \in Npus, NEW l \in DOMAIN npu[m].log,
               Workload(npu[n].log[k]) = Workload(npu[m].log[l])
        PROVE  k = l
    <3>1. npu[n].log[k].round = npu[m].log[l].round
      BY <2>4 DEF Workload
    <3>2. k \in Int /\ l \in Int /\ k - 1 = l - 1
      BY <2>3, <3>1 DEF OfBatch
    <3>3. QED
      BY <3>2
  <2>5. QED
    BY <2>3, <2>4 DEF OfBatch
<1>2. QED
  BY <1>1, FrontendInductive, PTL
=============================================================================
