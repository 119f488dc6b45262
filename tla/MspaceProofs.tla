---------------------------- MODULE MspaceProofs ----------------------------
(* What holds of an mspace for every size, every granularity and every area *)
(* (libraries/dlmalloc-2.8.6/malloc.c): the sizes of chunks, that the       *)
(* mspace of a Heap never takes memory but its own, that its chunks, bins   *)
(* and tags stay sound, and that it gives the blocks the Heap expects.      *)
EXTENDS HeapMspace, TreeProofs

(* Rounding up (align_offset and the masks of malloc.c) gives a multiple    *)
(* that is at least the number and less than one step above it.             *)
LEMMA AlignUpBounds ==
    ASSUME NEW x \in Nat, NEW a \in Nat \ {0}
    PROVE  /\ AlignUp(x, a) \in Nat
           /\ AlignUp(x, a) >= x
           /\ AlignUp(x, a) < x + a
<1> DEFINE q == (x + a - 1) \div a
           r == (x + a - 1) % a
<1>1. q \in Nat /\ r \in 0 .. a - 1 /\ x + a - 1 = a * q + r
  OBVIOUS
<1>2. a * q = q * a /\ q * a \in Nat
  BY <1>1
<1> HIDE DEF q, r
<1>3. AlignUp(x, a) = q * a
  BY DEF AlignUp, q
<1>4. q * a = x + a - 1 - r
  <2> DEFINE p == q * a
  <2>1. p \in Nat /\ x + a - 1 = p + r
    BY <1>1, <1>2
  <2> HIDE DEF p
  <2>2. p = x + a - 1 - r
    BY <2>1, <1>1
  <2> QED
    BY <2>2 DEF p
<1> QED
  BY <1>1, <1>2, <1>3, <1>4

(* The size of a chunk for a request (request2size, malloc.c:2241): a       *)
(* multiple of the alignment that is a chunk, holds the request and its     *)
(* head, and is never 16 bytes more than that but for the least chunk.      *)
THEOREM RequestsArePadded ==
    ASSUME NEW req \in Nat
    PROVE  /\ request2size(req) % MALLOC_ALIGNMENT = 0
           /\ request2size(req) >= MIN_CHUNK_SIZE
           /\ request2size(req) >= req + CHUNK_OVERHEAD
           /\ \/ request2size(req) = MIN_CHUNK_SIZE
              \/ request2size(req) < req + CHUNK_OVERHEAD + MALLOC_ALIGNMENT
  BY DEF request2size, pad_request, AlignUp, MIN_REQUEST, MIN_CHUNK_SIZE,
         CHUNK_OVERHEAD, SIZE_T_SIZE, MALLOC_ALIGNMENT

(* A step of the granularity is more than the rounding of a limit leaves.   *)
LEMMA NoRoomToGrow ==
    ASSUME NEW m, NEW capacity \in Nat \ {0}, NEW size \in Nat \ {0},
           m.footprint = capacity,
           m.footprint_limit = granularity_align(capacity)
    PROVE  OverLimit(m, granularity_align(size))
<1>1. Granularity \in Nat \ {0}
  BY MspaceAssumption
<1>2. granularity_align(capacity) \in Nat
      /\ granularity_align(capacity) >= capacity
      /\ granularity_align(capacity) < capacity + Granularity
  BY <1>1, AlignUpBounds DEF granularity_align
<1>3. granularity_align(size) \in Nat /\ granularity_align(size) >= Granularity
  <2> DEFINE q == (size + Granularity - 1) \div Granularity
  <2>1. q \in Nat /\ q >= 1
    BY <1>1
  <2> HIDE DEF q
  <2>2. q * Granularity >= Granularity /\ q * Granularity \in Nat
    BY <1>1, <2>1
  <2> QED
    BY <2>2 DEF granularity_align, AlignUp, q
<1> QED
  BY <1>1, <1>2, <1>3 DEF OverLimit

(* An mspace whose footprint is its area and whose limit is what the engine *)
(* sets (Heap.cpp:62) gets nothing from the system, whatever the system     *)
(* would give: sys_alloc (malloc.c:4043) changes nothing and gives nothing. *)
THEOREM NothingIsMapped ==
    ASSUME NEW m, NEW capacity \in Nat \ {0}, NEW nb \in Nat, NEW sys,
           m.footprint = capacity,
           m.footprint_limit = granularity_align(capacity)
    PROVE  sys_alloc(m, nb, sys) = Result(m, NULL)
<1>1. OverLimit(m, granularity_align(nb + SYS_ALLOC_PADDING))
  <2>1. nb + SYS_ALLOC_PADDING \in Nat \ {0}
    BY DEF SYS_ALLOC_PADDING, TOP_FOOT_SIZE, pad_request, AlignUp, SEGMENT_SIZE,
           CHUNK_OVERHEAD, SIZE_T_SIZE, MALLOC_ALIGNMENT, MIN_CHUNK_SIZE
  <2> QED
    BY <2>1, NoRoomToGrow
<1>2. OverLimit(m, mmap_alloc_size(nb))
  <2>1. nb + 6 * SIZE_T_SIZE + MALLOC_ALIGNMENT - 1 \in Nat \ {0}
    BY DEF SIZE_T_SIZE, MALLOC_ALIGNMENT
  <2> QED
    BY <2>1, NoRoomToGrow DEF mmap_alloc_size
<1> QED
  BY <1>1, <1>2 DEF sys_alloc

(* The rest is made top by writing two heads and the fields of top.         *)
LEMMA InitTopKeeps ==
    ASSUME NEW m, NEW p, NEW s, NEW f, f \in DOMAIN m,
           f \notin {"head", "foot", "top", "topsize", "trim_check"}
    PROVE  /\ init_top(m, p, s)[f] = m[f]
           /\ DOMAIN init_top(m, p, s) = DOMAIN m
<1> DEFINE end == SetHead(m, p + s, TOP_FOOT_SIZE, FALSE, FALSE)
           top == SetHead(end, p, s, TRUE, FALSE)
<1>0. f # "head" /\ f # "foot"
  OBVIOUS
<1>1. end[f] = m[f] /\ DOMAIN end = DOMAIN m
  BY <1>0 DEF SetHead
<1> HIDE DEF end
<1>2. top[f] = end[f] /\ DOMAIN top = DOMAIN end
  BY <1>0, <1>1 DEF SetHead
<1> HIDE DEF top
<1>3. init_top(m, p, s) = [top EXCEPT !.top = p, !.topsize = s,
                                      !.trim_check = TrimThreshold]
  BY DEF init_top, top, end
<1> QED
  BY <1>1, <1>2, <1>3

(* The mspace of a new heap, and of one that was cleared, is such an mspace *)
(* (Heap.cpp:62 and 89).                                                    *)
THEOREM HeapIsLimited ==
    ASSUME MaxSize # MAX_SIZE_T
    PROVE  /\ NewMspace.footprint = MaxSize
           /\ NewMspace.footprint_limit = granularity_align(MaxSize)
<1> DEFINE new == create_mspace_with_base(Base, MaxSize)
<1>1. PICK m : /\ m.footprint = MaxSize
               /\ {"footprint", "footprint_limit"} \subseteq DOMAIN m
               /\ new = init_top(m, Base + pad_request(STATE_SIZE),
                                 MaxSize - pad_request(STATE_SIZE) - TOP_FOOT_SIZE)
  BY DEF create_mspace_with_base, init_user_mstate
<1>2. /\ new.footprint = MaxSize
      /\ {"footprint", "footprint_limit"} \subseteq DOMAIN new
  BY <1>1, InitTopKeeps
<1> HIDE DEF new
<1>3. NewMspace = [new EXCEPT !.footprint_limit = granularity_align(MaxSize)]
  BY DEF NewMspace, mspace_set_footprint_limit, new
<1> QED
  BY <1>2, <1>3

-----------------------------------------------------------------------------
\* What says which memory an mspace has, and how much it may have.
Area == {"segs", "footprint", "footprint_limit", "least_addr"}

\* The state n of an mspace has the area m had.
SameArea(m, n) == DOMAIN n = DOMAIN m /\ \A f \in Area : n[f] = m[f]

HasArea(m) == Area \subseteq DOMAIN m

(* Two such steps are one.                                                  *)
LEMMA AreaThrough ==
    ASSUME NEW m, NEW n, NEW l, HasArea(m), SameArea(m, n), HasArea(n) => SameArea(n, l)
    PROVE  SameArea(m, l) /\ HasArea(n) /\ HasArea(l)
BY DEF SameArea, HasArea

(* Doing nothing keeps the area.                                            *)
LEMMA AreaStays ==
    ASSUME NEW m, HasArea(m)
    PROVE  SameArea(m, m)
BY DEF SameArea

(* The writers of heads and feet are after no field but those two.          *)
LEMMA HeadsKeep ==
    ASSUME NEW m, HasArea(m), NEW p, NEW s, NEW prevUsed, NEW inUse
    PROVE  SameArea(m, SetHead(m, p, s, prevUsed, inUse))
BY DEF SetHead, SameArea, HasArea, Area

(* So does marking the chunk before as used or free,                        *)
LEMMA PinuseKeeps ==
    ASSUME NEW m, HasArea(m), NEW p
    PROVE  SameArea(m, set_pinuse(m, p)) /\ SameArea(m, clear_pinuse(m, p))
<1>1. SameArea(m, [m EXCEPT !.head[p].pinuse = TRUE])
  BY DEF SameArea, HasArea, Area
<1>2. SameArea(m, SetHead(m, p, 0, TRUE, FALSE))
  BY HeadsKeep
<1>3. SameArea(m, clear_pinuse(m, p))
  BY DEF clear_pinuse, SameArea, HasArea, Area
<1> QED
  BY <1>1, <1>2, <1>3 DEF set_pinuse

(* writing a foot,                                                          *)
LEMMA FootKeeps ==
    ASSUME NEW m, HasArea(m), NEW p, NEW s
    PROVE  SameArea(m, set_foot(m, p, s))
BY DEF set_foot, SameArea, HasArea, Area

(* marking a chunk as used,                                                 *)
LEMMA InuseKeeps ==
    ASSUME NEW m, HasArea(m), NEW p, NEW s
    PROVE  /\ SameArea(m, set_inuse(m, p, s))
           /\ SameArea(m, set_inuse_and_pinuse(m, p, s))
           /\ SameArea(m, set_size_and_pinuse_of_inuse_chunk(m, p, s))
<1> DEFINE n(prevUsed) == SetHead(m, p, s, prevUsed, TRUE)
<1>1. \A prevUsed : SameArea(m, n(prevUsed))
  BY HeadsKeep
<1> HIDE DEF n
<1>2. \A prevUsed : SameArea(m, set_pinuse(n(prevUsed), p + s))
  <2> TAKE prevUsed
  <2>1. HasArea(n(prevUsed)) => SameArea(n(prevUsed), set_pinuse(n(prevUsed), p + s))
    BY PinuseKeeps
  <2> QED
    BY <1>1, <2>1, AreaThrough
<1> QED
  BY <1>1, <1>2 DEF set_inuse, set_inuse_and_pinuse, set_size_and_pinuse_of_inuse_chunk, n

(* and marking one as free.                                                 *)
LEMMA FreeChunkKeeps ==
    ASSUME NEW m, HasArea(m), NEW p, NEW s, NEW k
    PROVE  /\ SameArea(m, set_size_and_pinuse_of_free_chunk(m, p, s))
           /\ SameArea(m, set_free_with_pinuse(m, p, s, k))
<1>1. ASSUME NEW l, HasArea(l) PROVE SameArea(l, set_size_and_pinuse_of_free_chunk(l, p, s))
  <2> DEFINE n == SetHead(l, p, s, TRUE, FALSE)
  <2>1. SameArea(l, n)
    BY <1>1, HeadsKeep
  <2> HIDE DEF n
  <2>2. HasArea(n) => SameArea(n, set_foot(n, p, s))
    BY FootKeeps
  <2>3. SameArea(l, set_foot(n, p, s))
    BY <1>1, <2>1, <2>2, AreaThrough
  <2> QED
    BY <2>3 DEF set_size_and_pinuse_of_free_chunk, n
<1>2. SameArea(m, clear_pinuse(m, k))
  BY PinuseKeeps
<1> DEFINE c == clear_pinuse(m, k)
<1> HIDE DEF c
<1>3. SameArea(m, set_size_and_pinuse_of_free_chunk(c, p, s))
  BY <1>1, <1>2, AreaThrough DEF c
<1> QED
  BY <1>1, <1>3 DEF set_free_with_pinuse, c

(* The bins have fields of their own.                                       *)
LEMMA BinsKeep ==
    ASSUME NEW m, HasArea(m), NEW p, NEW s
    PROVE  SameArea(m, insert_chunk(m, p, s)) /\ SameArea(m, unlink_chunk(m, p, s))
<1>1. SameArea(m, insert_small_chunk(m, p, s)) /\ SameArea(m, unlink_small_chunk(m, p, s))
  BY DEF insert_small_chunk, unlink_small_chunk, SameArea, HasArea, Area
<1>2. SameArea(m, insert_large_chunk(m, p, s))
  <2>1. ASSUME NEW t, NEW i PROVE SameArea(m, JoinRing(m, p, t, i))
    BY DEF JoinRing, SameArea, HasArea, Area
  <2>2. ASSUME NEW i, NEW place PROVE SameArea(m, Attach(m, p, s, i, place))
    BY <2>1 DEF Attach, SameArea, HasArea, Area
  <2> DEFINE i == compute_tree_index(s)
  <2>3. SameArea(m, [m EXCEPT !.treemap = @ \cup {i}, !.treebin[i] = p,
                             !.node = Put(@, p, NewNode(p, p, IN_BIN, i))])
    BY DEF SameArea, HasArea, Area
  <2> QED
    BY <2>2, <2>3 DEF insert_large_chunk
<1>3. SameArea(m, unlink_large_chunk(m, p))
  <2>1. ASSUME NEW nodes, NEW r PROVE SameArea(m, Replace(m, nodes, p, r))
    BY DEF Replace, SameArea, HasArea, Area
  <2>2. ASSUME NEW link PROVE SameArea(m, WithLeaf(m, p, link))
    BY <2>1 DEF WithLeaf
  <2> QED
    BY <2>1, <2>2 DEF unlink_large_chunk
<1> QED
  BY <1>1, <1>2, <1>3 DEF insert_chunk, unlink_chunk

(* Another designated victim leaves the area as it is.                      *)
LEMMA ReplaceDvKeeps ==
    ASSUME NEW m, HasArea(m), NEW p, NEW s
    PROVE  SameArea(m, replace_dv(m, p, s))
<1> DEFINE n == IF m.dvsize # 0 THEN insert_small_chunk(m, m.dv, m.dvsize) ELSE m
<1>1. SameArea(m, n)
  BY DEF insert_small_chunk, SameArea, HasArea, Area
<1> HIDE DEF n
<1>2. HasArea(n) => SameArea(n, [n EXCEPT !.dv = p, !.dvsize = s])
  BY DEF SameArea, HasArea, Area
<1>3. SameArea(m, [n EXCEPT !.dv = p, !.dvsize = s])
  BY <1>1, <1>2, AreaThrough
<1> QED
  BY <1>3 DEF replace_dv, n

(* Taking a chunk from top keeps the area, if what is done otherwise does.  *)
LEMMA SplitTopKeeps ==
    ASSUME NEW m, HasArea(m), NEW nb, NEW otherwise, SameArea(m, otherwise.m)
    PROVE  SameArea(m, SplitTop(m, nb, otherwise).m)
<1> DEFINE rest == SetHead(m, m.top + nb, m.topsize - nb, TRUE, FALSE)
           n == set_size_and_pinuse_of_inuse_chunk(rest, m.top, nb)
           l == [n EXCEPT !.top = @ + nb, !.topsize = @ - nb]
<1>1. SameArea(m, rest)
  BY HeadsKeep
<1> HIDE DEF rest
<1>2. HasArea(rest) => SameArea(rest, n)
  BY InuseKeeps
<1>3. SameArea(m, n)
  BY <1>1, <1>2, AreaThrough
<1> HIDE DEF n
<1>4. HasArea(n) => SameArea(n, l)
  BY DEF SameArea, HasArea, Area
<1>5. SameArea(m, l)
  BY <1>3, <1>4, AreaThrough
<1> HIDE DEF l
<1>6. SplitTop(m, nb, otherwise) = IF TopHolds(m, nb) THEN Result(l, m.top) ELSE otherwise
  BY DEF SplitTop, l, n, rest
<1> QED
  BY <1>5, <1>6 DEF Result

(* Merging and carving write heads, feet, bins, dv and top.                 *)
LEMMA MergeForwardKeeps ==
    ASSUME NEW m, HasArea(m), NEW q, NEW k, NEW isDv
    PROVE  SameArea(m, MergeForward(m, q, k, isDv).m)
<1>1. ASSUME NEW s
      PROVE  SameArea(m, insert_chunk(set_free_with_pinuse(m, q, s, k), q, s))
  <2> DEFINE n == set_free_with_pinuse(m, q, s, k)
  <2>1. SameArea(m, n)
    BY FreeChunkKeeps
  <2> HIDE DEF n
  <2>2. HasArea(n) => SameArea(n, insert_chunk(n, q, s))
    BY BinsKeep
  <2>3. SameArea(m, insert_chunk(n, q, s))
    BY <2>1, <2>2, AreaThrough
  <2> QED
    BY <2>3 DEF n
<1>2. SameArea(m, [SetHead(m, q, k - q + m.topsize, TRUE, FALSE) EXCEPT
                     !.top = q, !.topsize = @ + k - q,
                     !.dv = IF isDv THEN NULL ELSE @, !.dvsize = IF isDv THEN 0 ELSE @])
  <2> DEFINE n == SetHead(m, q, k - q + m.topsize, TRUE, FALSE)
  <2>1. SameArea(m, n)
    BY HeadsKeep
  <2> HIDE DEF n
  <2>2. HasArea(n) => SameArea(n, [n EXCEPT !.top = q, !.topsize = @ + k - q,
                                     !.dv = IF isDv THEN NULL ELSE @,
                                     !.dvsize = IF isDv THEN 0 ELSE @])
    BY DEF SameArea, HasArea, Area
  <2>3. SameArea(m, [n EXCEPT !.top = q, !.topsize = @ + k - q,
                       !.dv = IF isDv THEN NULL ELSE @, !.dvsize = IF isDv THEN 0 ELSE @])
    BY <2>1, <2>2, AreaThrough
  <2> QED
    BY <2>3 DEF n
<1>3. ASSUME NEW l, SameArea(m, l), NEW s, NEW t
      PROVE  /\ SameArea(m, [set_size_and_pinuse_of_free_chunk(l, q, s) EXCEPT
                                !.dv = q, !.dvsize = t])
             /\ SameArea(m, insert_chunk(set_size_and_pinuse_of_free_chunk(l, q, s), q, t))
  <2> DEFINE n == set_size_and_pinuse_of_free_chunk(l, q, s)
  <2>1. HasArea(l) => SameArea(l, n)
    BY FreeChunkKeeps
  <2>2. SameArea(m, n)
    BY <1>3, <2>1, AreaThrough
  <2> HIDE DEF n
  <2>3. HasArea(n) => SameArea(n, [n EXCEPT !.dv = q, !.dvsize = t])
    BY DEF SameArea, HasArea, Area
  <2>4. HasArea(n) => SameArea(n, insert_chunk(n, q, t))
    BY BinsKeep
  <2>5. SameArea(m, [n EXCEPT !.dv = q, !.dvsize = t])
    BY <2>2, <2>3, AreaThrough
  <2>6. SameArea(m, insert_chunk(n, q, t))
    BY <2>2, <2>4, AreaThrough
  <2> QED
    BY <2>5, <2>6 DEF n
<1>4. SameArea(m, m) /\ \A s : SameArea(m, unlink_chunk(m, k, s))
  BY AreaStays, BinsKeep
<1> DEFINE s1 == k - q + m.dvsize
           s2 == k - q + ChunkSize(m, k)
           l1 == set_size_and_pinuse_of_free_chunk(m, q, s1)
           l2 == set_size_and_pinuse_of_free_chunk(unlink_chunk(m, k, ChunkSize(m, k)), q, s2)
           a  == insert_chunk(set_free_with_pinuse(m, q, k - q, k), q, k - q)
           b  == [SetHead(m, q, k - q + m.topsize, TRUE, FALSE) EXCEPT
                     !.top = q, !.topsize = @ + k - q,
                     !.dv = IF isDv THEN NULL ELSE @, !.dvsize = IF isDv THEN 0 ELSE @]
           c  == [l1 EXCEPT !.dv = q, !.dvsize = s1]
           d  == [l2 EXCEPT !.dv = q, !.dvsize = s2]
           e  == insert_chunk(l2, q, s2)
<1>5. SameArea(m, a) /\ SameArea(m, b)
  BY <1>1, <1>2
<1>6. SameArea(m, c) /\ SameArea(m, d) /\ SameArea(m, e)
  BY <1>3, <1>4
<1>7. MergeForward(m, q, k, isDv).m = IF cinuse(m, k) THEN a
                                     ELSE IF k = m.top THEN b
                                     ELSE IF k = m.dv THEN c
                                     ELSE IF isDv THEN d ELSE e
  <2> HIDE DEF a, b, l1, l2, s1, s2
  <2>1. MergeForward(m, q, k, isDv)
        = IF cinuse(m, k) THEN [m |-> a, into |-> "bin", size |-> k - q]
          ELSE IF k = m.top THEN [m |-> b, into |-> "top", size |-> k - q + m.topsize]
          ELSE IF k = m.dv THEN [m |-> c, into |-> "dv", size |-> s1]
          ELSE IF isDv THEN [m |-> d, into |-> "dv", size |-> s2]
          ELSE [m |-> e, into |-> "bin", size |-> s2]
    BY DEF MergeForward, a, b, l1, l2, s1, s2
  <2> QED
    BY <2>1
<1> HIDE DEF a, b, c, d, e
<1> QED
  BY <1>5, <1>6, <1>7

(* Merging a chunk with a free one before it keeps the area.                *)
LEMMA ConsolidateKeeps ==
    ASSUME NEW m, HasArea(m), NEW p, NEW psize
    PROVE  SameArea(m, Consolidate(m, p, psize).m)
<1> DEFINE k == p + psize
           q == IF MergesBack(m, p) THEN p - m.foot[p] ELSE p
           l == IF q = p THEN m ELSE unlink_chunk(m, q, p - q)
           n == set_free_with_pinuse(m, q, k - q, k)
           d == [n EXCEPT !.dvsize = k - q]
<1> HIDE DEF q, k
<1>1. SameArea(m, l)
  BY AreaStays, BinsKeep
<1> HIDE DEF l
<1>2. SameArea(m, MergeForward(l, q, k, FALSE).m)
  <2>1. HasArea(l) => SameArea(l, MergeForward(l, q, k, FALSE).m)
    BY MergeForwardKeeps
  <2> QED
    BY <1>1, <2>1, AreaThrough
<1>3. SameArea(m, n)
  BY FreeChunkKeeps
<1> HIDE DEF n
<1>4. HasArea(n) => SameArea(n, d)
  BY DEF SameArea, HasArea, Area
<1>5. SameArea(m, d)
  BY <1>3, <1>4, AreaThrough
<1> HIDE DEF d
<1>6. SameArea(m, MergeForward(m, q, k, TRUE).m)
  BY MergeForwardKeeps
<1>7. Consolidate(m, p, psize) = IF q # m.dv THEN MergeForward(l, q, k, FALSE)
                                 ELSE IF cinuse(m, k) /\ pinuse(m, k)
                                 THEN [m |-> d, into |-> "dv", size |-> k - q]
                                 ELSE MergeForward(m, q, k, TRUE)
  BY DEF Consolidate, q, k, l, n, d
<1>8. Consolidate(m, p, psize).m = IF q # m.dv THEN MergeForward(l, q, k, FALSE).m
                                   ELSE IF cinuse(m, k) /\ pinuse(m, k) THEN d
                                   ELSE MergeForward(m, q, k, TRUE).m
  BY <1>7
<1> QED
  BY <1>2, <1>5, <1>6, <1>8

(* With one area, and that the owner's, a free gives nothing to the system, *)
(* however large top is: there is no end to cut off and no other segment    *)
(* to release (malloc.c:4223).                                              *)
LEMMA FreeKeeps ==
    ASSUME NEW m, HasArea(m), NEW seg, m.segs = <<seg>>, NEW mem
    PROVE  SameArea(m, mspace_free(m, mem, FALSE))
<1> USE DEF NULL
<1>1. ASSUME NEW l, SameArea(m, l)
      PROVE  SameArea(m, release_unused_segments(l, FALSE))
  <2>1. HasArea(l) /\ l.segs = <<seg>>
    BY <1>1 DEF SameArea, HasArea, Area
  <2>2. Tail(l.segs) = << >> /\ DOMAIN Tail(l.segs) = {}
    BY <2>1
  <2> DEFINE r == NextCheck(Len(l.segs) - 1)
  <2>3. FoldLeft(LAMBDA n, s : release_segment(n, s, FALSE), l, Tail(l.segs)) = l
    <3>1. SUBSET {} = {{}}
      OBVIOUS
    <3> QED
      BY <2>2, <3>1 DEF FoldLeft, MapThenFoldSet
  <2>4. release_unused_segments(l, FALSE) = [l EXCEPT !.release_checks = r]
    BY <2>3 DEF release_unused_segments
  <2> HIDE DEF r
  <2>5. SameArea(l, [l EXCEPT !.release_checks = r])
    BY <2>1 DEF SameArea, HasArea, Area
  <2> QED
    BY <1>1, <2>4, <2>5, AreaThrough
<1>2. ASSUME NEW l, SameArea(m, l)
      PROVE  SameArea(m, sys_trim(l, 0, FALSE))
  <2>1. shrink_top(l, 0 + TOP_FOOT_SIZE, FALSE) = l
    BY DEF shrink_top
  <2> DEFINE n == release_unused_segments(l, FALSE)
  <2>2. SameArea(m, n)
    BY <1>1, <1>2
  <2> HIDE DEF n
  <2>3. HasArea(n) => SameArea(n, [n EXCEPT !.trim_check = MAX_SIZE_T])
    BY DEF SameArea, HasArea, Area
  <2>4. SameArea(m, [n EXCEPT !.trim_check = MAX_SIZE_T])
    BY <2>2, <2>3, AreaThrough
  <2>5. sys_trim(l, 0, FALSE) = Trimmed(l, n)
    BY <2>1 DEF sys_trim, n
  <2> QED
    BY <2>2, <2>4, <2>5 DEF Trimmed
<1>3. ASSUME NEW done, SameArea(m, done.m)
      PROVE  SameArea(m, AfterFree(done, FALSE))
  <2> DEFINE l == done.m
             less == [l EXCEPT !.release_checks = @ - 1]
  <2>l. SameArea(m, l)
    BY <1>3
  <2>e. AfterFree(done, FALSE) = IF done.into = "top" /\ should_trim(l) THEN sys_trim(l, 0, FALSE)
                                 ELSE IF done.into = "bin" /\ ~is_small(done.size)
                                 THEN IF less.release_checks = 0
                                      THEN release_unused_segments(less, FALSE) ELSE less
                                 ELSE l
    BY DEF AfterFree
  <2> HIDE DEF l
  <2>1. HasArea(l) => SameArea(l, less)
    BY DEF SameArea, HasArea, Area
  <2>2. SameArea(m, less)
    BY <2>l, <2>1, AreaThrough
  <2> HIDE DEF less
  <2>3. SameArea(m, sys_trim(l, 0, FALSE)) /\ SameArea(m, release_unused_segments(less, FALSE))
    BY <2>l, <2>2, <1>1, <1>2
  <2> QED
    BY <2>l, <2>e, <2>2, <2>3
<1> DEFINE p == mem2chunk(mem)
<1>4. unmap_chunk(m, p, FALSE) = m
  BY DEF unmap_chunk, Unmapped
<1>5. SameArea(m, AfterFree(Consolidate(m, p, ChunkSize(m, p)), FALSE))
  BY <1>3, ConsolidateKeeps
<1>6. SameArea(m, m)
  BY AreaStays
<1> QED
  BY <1>4, <1>5, <1>6 DEF mspace_free

(* Cutting a request out of a chunk keeps the area.                         *)
LEMMA CarveKeeps ==
    ASSUME NEW m, HasArea(m), NEW p, NEW nb, NEW asDv
    PROVE  SameArea(m, Carve(m, p, nb, asDv).m)
<1> DEFINE rsize == ChunkSize(m, p) - nb
           rest  == set_size_and_pinuse_of_free_chunk(m, p + nb, rsize)
           split == set_size_and_pinuse_of_inuse_chunk(rest, p, nb)
           whole == set_inuse_and_pinuse(m, p, rsize + nb)
           dv    == replace_dv(split, p + nb, rsize)
           bin   == insert_chunk(split, p + nb, rsize)
<1>1. Carve(m, p, nb, asDv)
      = Result(IF rsize < MIN_CHUNK_SIZE THEN whole ELSE IF asDv THEN dv ELSE bin, p)
  BY DEF Carve
<1> HIDE DEF rsize
<1>2. SameArea(m, whole)
  BY InuseKeeps
<1>3. SameArea(m, rest)
  BY FreeChunkKeeps
<1> HIDE DEF rest
<1>4. HasArea(rest) => SameArea(rest, split)
  BY InuseKeeps
<1>5. SameArea(m, split)
  BY <1>3, <1>4, AreaThrough
<1> HIDE DEF split
<1>6. HasArea(split) => SameArea(split, dv) /\ SameArea(split, bin)
  BY ReplaceDvKeeps, BinsKeep
<1> HIDE DEF dv, bin, whole
<1>7. SameArea(m, dv)
  BY <1>5, <1>6, AreaThrough
<1>8. SameArea(m, bin)
  BY <1>5, <1>6, AreaThrough
<1> QED
  BY <1>1, <1>2, <1>7, <1>8 DEF Result

(* So does taking a chunk out of its bin, also when it is cut then.         *)
LEMMA TakeKeeps ==
    ASSUME NEW m, HasArea(m), NEW p, NEW q, NEW nb, NEW asDv
    PROVE  /\ SameArea(m, Take(m, p))
           /\ SameArea(m, Carve(Take(m, p), q, nb, asDv).m)
<1>1. SameArea(m, Take(m, p))
  BY BinsKeep DEF Take
<1> DEFINE t == Take(m, p)
<1> HIDE DEF t
<1>2. HasArea(t) => SameArea(t, Carve(t, q, nb, asDv).m)
  BY CarveKeeps
<1>3. SameArea(m, Carve(t, q, nb, asDv).m)
  BY <1>1, <1>2, AreaThrough DEF t
<1> QED
  BY <1>1, <1>3 DEF t

(* So does serving a request from the designated victim.                    *)
LEMMA UseDvKeeps ==
    ASSUME NEW m, HasArea(m), NEW nb
    PROVE  SameArea(m, UseDv(m, nb).m)
<1> DEFINE t == WithoutDv(m)
<1>1. SameArea(m, t)
  BY DEF WithoutDv, SameArea, HasArea, Area
<1> HIDE DEF t
<1>2. HasArea(t) => SameArea(t, Carve(t, m.dv, nb, TRUE).m)
  BY CarveKeeps
<1>3. SameArea(m, Carve(t, m.dv, nb, TRUE).m)
  BY <1>1, <1>2, AreaThrough
<1> QED
  BY <1>3 DEF UseDv, t

\* The mspace has the area of the heap, and may have no more.
Limited(m) ==
    /\ HasArea(m)
    /\ m.segs = <<[base |-> Base, size |-> MaxSize, extern |-> TRUE,
                   record |-> chunk2mem(Base)]>>
    /\ m.footprint = MaxSize
    /\ m.footprint_limit = granularity_align(MaxSize)
    /\ m.least_addr = Base

(* An operation that keeps the area keeps that.                             *)
LEMMA LimitedStays ==
    ASSUME NEW m, Limited(m), NEW n, SameArea(m, n)
    PROVE  Limited(n) /\ HasArea(m)
BY DEF Limited, SameArea, HasArea, Area

(* The sizes of the requests.                                               *)
LEMMA SizesAreNat ==
    ASSUME NEW bytes \in Nat
    PROVE  request2size(bytes) \in Nat /\ pad_request(bytes) \in Nat
BY DEF request2size, pad_request, AlignUp, MIN_REQUEST, MIN_CHUNK_SIZE,
       CHUNK_OVERHEAD, SIZE_T_SIZE, MALLOC_ALIGNMENT

(* mspace_malloc keeps the area of a limited mspace, whatever is answered.  *)
LEMMA MallocKeeps ==
    ASSUME NEW m, Limited(m), MaxSize \in Nat \ {0}, NEW bytes \in Nat, NEW sys
    PROVE  SameArea(m, mspace_malloc(m, bytes, sys).m)
<1>1. HasArea(m)
  BY DEF Limited
<1>2. SameArea(m, m)
  BY <1>1, AreaStays
<1>3. ASSUME NEW nb \in Nat PROVE SameArea(m, SplitTop(m, nb, sys_alloc(m, nb, sys)).m)
  <2>1. sys_alloc(m, nb, sys) = Result(m, NULL)
    BY NothingIsMapped DEF Limited
  <2> DEFINE o == sys_alloc(m, nb, sys)
  <2>2. SameArea(m, o.m)
    BY <1>2, <2>1 DEF Result
  <2> HIDE DEF o
  <2>3. SameArea(m, SplitTop(m, nb, o).m)
    BY <1>1, <2>2, SplitTopKeeps
  <2> QED
    BY <2>3 DEF o
<1>4. \A nb : SameArea(m, UseDv(m, nb).m)
  BY <1>1, UseDvKeeps
<1>5. ASSUME NEW p, NEW nb, NEW asDv PROVE SameArea(m, Carve(Take(m, p), p, nb, asDv).m)
  BY <1>1, TakeKeeps
<1>6. SameArea(m, malloc_small(m, bytes, sys).m)
  <2> DEFINE nb     == request2size(bytes)
             idx    == small_index(nb)
             exact  == {idx, idx + 1} \cap m.smallmap
             larger == {i \in m.smallmap : i > idx}
             p      == FirstOfSmallbin(m, Min(exact))
             q      == FirstOfSmallbin(m, Min(larger))
             whole  == set_inuse_and_pinuse(Take(m, p), p, ChunkSize(m, p))
             top    == SplitTop(m, nb, sys_alloc(m, nb, sys))
             dv     == UseDv(m, nb)
             large  == Carve(Take(m, q), q, nb, TRUE)
             tree   == Carve(Take(m, least_chunk(m)), least_chunk(m), nb, TRUE)
  <2>1. malloc_small(m, bytes, sys)
        = IF exact # {} THEN Result(whole, p)
          ELSE IF nb <= m.dvsize THEN dv
          ELSE IF larger # {} THEN large
          ELSE IF m.treemap # {} THEN tree
          ELSE top
    BY DEF malloc_small, tmalloc_small
  <2>2. nb \in Nat
    BY SizesAreNat
  <2> HIDE DEF nb, exact, larger, p, q
  <2>3. SameArea(m, whole)
    <3> DEFINE t == Take(m, p)
    <3>1. SameArea(m, t)
      BY <1>1, TakeKeeps
    <3> HIDE DEF t
    <3>2. HasArea(t) => SameArea(t, set_inuse_and_pinuse(t, p, ChunkSize(m, p)))
      BY InuseKeeps
    <3>3. SameArea(m, set_inuse_and_pinuse(t, p, ChunkSize(m, p)))
      BY <1>1, <3>1, <3>2, AreaThrough
    <3> QED
      BY <3>3 DEF t
  <2>4. SameArea(m, dv.m) /\ SameArea(m, large.m) /\ SameArea(m, tree.m) /\ SameArea(m, top.m)
    BY <1>3, <1>4, <1>5, <2>2
  <2> HIDE DEF whole, top, dv, large, tree
  <2> QED
    BY <2>1, <2>3, <2>4 DEF Result
<1>7. CASE bytes <= MAX_SMALL_REQUEST
  BY <1>6, <1>7 DEF mspace_malloc
<1>8. CASE ~(bytes <= MAX_SMALL_REQUEST) /\ bytes >= MAX_REQUEST
  <2>1. mspace_malloc(m, bytes, sys) = Result(m, NULL)
    BY <1>8 DEF mspace_malloc
  <2> QED
    BY <1>2, <2>1 DEF Result
<1>9. CASE ~(bytes <= MAX_SMALL_REQUEST) /\ ~(bytes >= MAX_REQUEST)
  <2> DEFINE nb == pad_request(bytes)
             v  == IF m.treemap = {} THEN NULL ELSE best_fit(m, nb)
             top == SplitTop(m, nb, sys_alloc(m, nb, sys))
             dv == UseDv(m, nb)
             large == Carve(Take(m, v), v, nb, FALSE)
  <2>1. nb \in Nat
    BY SizesAreNat
  <2>2. mspace_malloc(m, bytes, sys) = IF BetterThanDv(m, v, nb) THEN large
                                       ELSE IF nb <= m.dvsize THEN dv ELSE top
    BY <1>9 DEF mspace_malloc, tmalloc_large, DvOrTop
  <2> HIDE DEF nb, v
  <2>3. SameArea(m, large.m) /\ SameArea(m, dv.m) /\ SameArea(m, top.m)
    BY <1>3, <1>4, <1>5, <2>1
  <2> HIDE DEF top, dv, large
  <2> QED
    BY <2>2, <2>3
<1> QED
  BY <1>7, <1>8, <1>9

-----------------------------------------------------------------------------
(* The alignment is made a power of two, which is a number of bytes.        *)
LEMMA PowersAreNat ==
    ASSUME NEW align \in Nat, align <= 2 ^ 29
    PROVE  PowerOfTwo(align) \in Nat
<1>1. /\ 2 ^ 5 \in Nat /\ 2 ^ 6 \in Nat /\ 2 ^ 7 \in Nat /\ 2 ^ 8 \in Nat /\ 2 ^ 9 \in Nat
      /\ 2 ^ 10 \in Nat /\ 2 ^ 11 \in Nat /\ 2 ^ 12 \in Nat /\ 2 ^ 13 \in Nat /\ 2 ^ 14 \in Nat
      /\ 2 ^ 15 \in Nat /\ 2 ^ 16 \in Nat /\ 2 ^ 17 \in Nat /\ 2 ^ 18 \in Nat /\ 2 ^ 19 \in Nat
      /\ 2 ^ 20 \in Nat /\ 2 ^ 21 \in Nat /\ 2 ^ 22 \in Nat /\ 2 ^ 23 \in Nat /\ 2 ^ 24 \in Nat
      /\ 2 ^ 25 \in Nat /\ 2 ^ 26 \in Nat /\ 2 ^ 27 \in Nat /\ 2 ^ 28 \in Nat /\ 2 ^ 29 \in Nat
  OBVIOUS
<1>2. \A k \in 5..29 : k \in {5, 6, 7, 8, 9, 10, 11, 12, 13, 14, 15, 16, 17, 18, 19, 20,
                               21, 22, 23, 24, 25, 26, 27, 28, 29}
  OBVIOUS
<1>3. \A k \in 5..29 : 2 ^ k \in Nat
  BY <1>1, <1>2
<1> DEFINE Enough(k) == 2 ^ k >= align
           S == {k \in 5..29 : Enough(k)}
<1>4. S \in SUBSET Nat /\ 29 \in S
  BY <1>1
<1>5. IsWellFoundedOn(OpToRel(<, Nat), Nat)
  BY NatLessThanWellFounded
<1>6. PICK k \in S : \A j \in S : ~ (<<j, k>> \in OpToRel(<, Nat))
  <2>1. S \subseteq Nat /\ S # {}
    BY <1>4
  <2> HIDE DEF S
  <2> QED
    BY <1>5, <2>1, WFMin
<1>7. k \in 5..29 /\ Enough(k) /\ (k # 5 => k - 1 \in 5..29)
  <2>1. k \in 5..29 /\ Enough(k)
    OBVIOUS
  <2> HIDE DEF Enough, S
  <2> QED
    BY <2>1
<1>8. k = 5 \/ ~Enough(k - 1)
  <2>1. \A j \in S : ~(j < k)
    BY <1>4, <1>6 DEF OpToRel
  <2> QED
    BY <1>7, <2>1
<1> HIDE DEF Enough
<1>9. (CHOOSE j \in 5..29 : Enough(j) /\ (j = 5 \/ ~Enough(j - 1))) \in 5..29
  BY <1>7, <1>8
<1> QED
  BY <1>3, <1>9 DEF PowerOfTwo, Enough

(* What is given up at an end of a chunk is merged and binned.              *)
LEMMA DisposeKeeps ==
    ASSUME NEW m, HasArea(m), NEW n, SameArea(m, n), NEW p, NEW s, NEW q, NEW t
    PROVE  SameArea(m, dispose_chunk(set_inuse(n, p, s), q, t))
<1> DEFINE l == set_inuse(n, p, s)
<1>1. HasArea(n) => SameArea(n, l)
  BY InuseKeeps
<1>2. SameArea(m, l)
  BY <1>1, AreaThrough
<1> HIDE DEF l
<1>3. HasArea(l) => SameArea(l, dispose_chunk(l, q, t))
  BY ConsolidateKeeps DEF dispose_chunk
<1>4. SameArea(m, dispose_chunk(l, q, t))
  BY <1>2, <1>3, AreaThrough
<1> QED
  BY <1>4 DEF l

(* Cutting an aligned block out of what was got keeps the area.             *)
LEMMA AlignedKeeps ==
    ASSUME NEW m, HasArea(m), NEW got, SameArea(m, got.m), NEW nb, NEW alignment
    PROVE  SameArea(m, Aligned(got, nb, alignment).m)
<1>1. ASSUME NEW l, SameArea(m, l), NEW p, NEW newp
      PROVE  SameArea(m, MoveStart(l, p, newp))
  <2> DEFINE lead == newp - p
             size == ChunkSize(l, p) - lead
             f == [Forget(l, p, p + 1) EXCEPT !.foot = Put(@, newp, l.foot[p] + lead)]
             moved == SetHead(f, newp, size, FALSE, FALSE)
             cut == dispose_chunk(set_inuse(set_inuse(l, newp, size), p, lead), p, lead)
  <2>1. MoveStart(l, p, newp) = IF newp = p THEN l ELSE IF is_mmapped(l, p) THEN moved ELSE cut
    BY DEF MoveStart
  <2> HIDE DEF lead, size
  <2>2. HasArea(l)
    BY <1>1 DEF SameArea, HasArea
  <2>3. SameArea(l, f)
    <3> DEFINE e == Forget(l, p, p + 1)
    <3>1. SameArea(l, e)
      BY <2>2 DEF Forget, SameArea, HasArea, Area
    <3> HIDE DEF e
    <3>2. HasArea(e) => SameArea(e, [e EXCEPT !.foot = Put(@, newp, l.foot[p] + lead)])
      BY DEF SameArea, HasArea, Area
    <3>3. SameArea(l, [e EXCEPT !.foot = Put(@, newp, l.foot[p] + lead)])
      BY <2>2, <3>1, <3>2, AreaThrough
    <3> QED
      BY <3>3 DEF e
  <2> HIDE DEF f
  <2>4. HasArea(f) => SameArea(f, moved)
    BY HeadsKeep
  <2>5. SameArea(l, moved)
    BY <2>2, <2>3, <2>4, AreaThrough
  <2>6. SameArea(l, set_inuse(l, newp, size))
    BY <2>2, InuseKeeps
  <2>7. SameArea(l, cut)
    BY <2>2, <2>6, DisposeKeeps
  <2> HIDE DEF moved, cut
  <2>8. SameArea(m, moved) /\ SameArea(m, cut)
    BY <1>1, <2>5, <2>7, AreaThrough
  <2> QED
    BY <1>1, <2>1, <2>8
<1>2. ASSUME NEW l, SameArea(m, l), NEW p
      PROVE  SameArea(m, WithoutSpare(l, p, nb).m)
  <2>1. HasArea(l)
    BY <1>2 DEF SameArea, HasArea
  <2> DEFINE rest == ChunkSize(l, p) - nb
             i == set_inuse(l, p, nb)
  <2>2. SameArea(m, i)
    <3>1. HasArea(l) => SameArea(l, i)
      BY InuseKeeps
    <3> HIDE DEF i
    <3> QED
      BY <1>2, <3>1, AreaThrough
  <2>3. GiveUpEnd(l, p, nb) = dispose_chunk(set_inuse(i, p + nb, rest), p + nb, rest)
    BY DEF GiveUpEnd
  <2> HIDE DEF i, rest
  <2>4. SameArea(m, GiveUpEnd(l, p, nb))
    BY <2>2, <2>3, DisposeKeeps
  <2> QED
    BY <1>2, <2>4 DEF WithoutSpare, Result
<1> DEFINE p == mem2chunk(got.mem)
           newp == AlignedStart(p, alignment)
<1>3. SameArea(m, WithoutSpare(MoveStart(got.m, p, newp), newp, nb).m)
  BY <1>1, <1>2
<1> QED
  BY <1>3 DEF Aligned

(* mspace_memalign keeps the area, whatever the system would map.           *)
LEMMA MemalignKeeps ==
    ASSUME NEW m, Limited(m), MaxSize \in Nat \ {0}, NEW align \in Nat, align <= 2 ^ 29,
           NEW bytes \in Nat, NEW sys
    PROVE  SameArea(m, mspace_memalign(m, align, bytes, sys).m)
<1>1. HasArea(m)
  BY DEF Limited
<1> DEFINE a == PowerOfTwo(align)
           req == PaddedRequest(a, bytes)
           got == mspace_malloc(m, req, sys)
           big == internal_memalign(m, align, bytes, sys)
<1>2. a \in Nat
  BY PowersAreNat
<1> HIDE DEF a
<1>3. req \in Nat
  <2>1. request2size(bytes) \in Nat
    BY SizesAreNat
  <2> QED
    BY <1>2, <2>1 DEF PaddedRequest, MIN_CHUNK_SIZE, CHUNK_OVERHEAD, SIZE_T_SIZE
<1> HIDE DEF req
<1>4. SameArea(m, got.m)
  BY <1>3, MallocKeeps
<1> HIDE DEF got
<1>5. SameArea(m, Aligned(got, request2size(bytes), a).m)
  BY <1>1, <1>4, AlignedKeeps
<1>6. big = IF bytes >= MAX_REQUEST - a THEN Result(m, NULL)
            ELSE Aligned(got, request2size(bytes), a)
  BY DEF internal_memalign, got, req, a
<1>7. SameArea(m, big.m)
  BY <1>1, <1>5, <1>6, AreaStays DEF Result
<1> HIDE DEF big
<1>8. SameArea(m, mspace_malloc(m, bytes, sys).m)
  BY MallocKeeps
<1> QED
  BY <1>7, <1>8 DEF mspace_memalign, big

(* A new mspace has the area of the heap.                                   *)
LEMMA NewIsLimited ==
    ASSUME MaxSize # MAX_SIZE_T
    PROVE  Limited(NewMspace)
<1> DEFINE new == create_mspace_with_base(Base, MaxSize)
<1>1. PICK m : /\ m.footprint = MaxSize /\ m.least_addr = Base
               /\ m.segs = <<[base |-> Base, size |-> MaxSize, extern |-> TRUE,
                              record |-> chunk2mem(Base)]>>
               /\ Area \subseteq DOMAIN m
               /\ new = init_top(m, Base + pad_request(STATE_SIZE),
                                 MaxSize - pad_request(STATE_SIZE) - TOP_FOOT_SIZE)
  BY DEF create_mspace_with_base, init_user_mstate, Area
<1>2. \A f \in Area : new[f] = m[f] /\ DOMAIN new = DOMAIN m
  BY <1>1, InitTopKeeps DEF Area
<1>3. /\ new.footprint = MaxSize /\ new.least_addr = Base /\ new.segs = m.segs
      /\ Area \subseteq DOMAIN new
  BY <1>1, <1>2 DEF Area
<1> HIDE DEF new
<1>4. NewMspace = [new EXCEPT !.footprint_limit = granularity_align(MaxSize)]
  BY DEF NewMspace, mspace_set_footprint_limit, new
<1> QED
  BY <1>1, <1>3, <1>4 DEF Limited, HasArea, Area

(* The tag of a block is a foot.                                            *)
LEMMA TagKeeps ==
    ASSUME NEW m, HasArea(m), NEW mem, NEW r
    PROVE  SameArea(m, Tagged(m, mem, r))
BY DEF Tagged, SameArea, HasArea, Area

(* A heap never has any memory but its area: whatever is allocated, freed   *)
(* and cleared, and whatever the system would map, its mspace stays the one *)
(* segment the engine gave it, of the footprint it had at first and the     *)
(* limit Heap.cpp:62 and 89 set. So Free's test of the address              *)
(* (Heap.cpp:127) is the test of where a block came from.                   *)
THEOREM AreaIsFixed ==
    ASSUME MaxSize # MAX_SIZE_T
    PROVE  Spec => []Limited(ms)
<1>1. Init => Limited(ms)
  BY NewIsLimited DEF Init
<1>2. Limited(ms) /\ [Next]_vars => Limited(ms)'
  <2> SUFFICES ASSUME Limited(ms), [Next]_vars PROVE Limited(ms')
    BY DEF Limited, HasArea
  <2>0. MaxSize \in Nat \ {0}
    BY HeapMspaceAssumption DEF FitsMspace, pad_request, AlignUp, STATE_SIZE, TOP_FOOT_SIZE,
       SEGMENT_SIZE, CHUNK_OVERHEAD, SIZE_T_SIZE, MALLOC_ALIGNMENT, MIN_CHUNK_SIZE
  <2>a. HasArea(ms)
    BY DEF Limited
  <2>1. ASSUME NEW r \in Requests, NEW sys \in Answers, Allocate(r, sys) PROVE Limited(ms')
    <3> DEFINE got == Memalign(ms, r, sys)
    <3>1. SameArea(ms, got.m)
      <4>1. r.align \in Nat /\ r.align <= 2 ^ 29 /\ Bytes(r) \in Nat
        BY HeapMspaceAssumption DEF Bytes, SIZE_T_SIZE
      <4> QED
        BY <4>1, <2>0, MemalignKeeps DEF Memalign
    <3>2. ms' = got.m \/ ms' = Tagged(got.m, got.mem, r)
      BY <2>1 DEF Allocate
    <3> HIDE DEF got
    <3> DEFINE l == got.m
               t == Tagged(l, got.mem, r)
    <3>3. SameArea(ms, l) /\ (HasArea(l) => SameArea(l, t))
      BY <3>1, TagKeeps
    <3>4. SameArea(ms, t)
      <4> HIDE DEF l, t
      <4> QED
        BY <3>3, <2>a, AreaThrough
    <3> QED
      BY <3>1, <3>2, <3>4, LimitedStays
  <2>2. ASSUME NEW mem \in DOMAIN held, Free(mem) PROVE Limited(ms')
    <3>1. ms' = mspace_free(ms, mem, FALSE)
      BY <2>2 DEF Free
    <3> DEFINE seg == [base |-> Base, size |-> MaxSize, extern |-> TRUE,
                       record |-> chunk2mem(Base)]
    <3>2. ms.segs = <<seg>>
      BY DEF Limited
    <3> HIDE DEF seg
    <3>3. SameArea(ms, mspace_free(ms, mem, FALSE))
      BY <2>a, <3>2, FreeKeeps
    <3> QED
      BY <3>1, <3>3, LimitedStays
  <2>3. CASE Clear
    BY <2>3, NewIsLimited DEF Clear
  <2>4. CASE UNCHANGED vars
    <3>1. ms' = ms
      BY <2>4 DEF vars
    <3> QED
      BY <3>1
  <2> QED
    BY <2>1, <2>2, <2>3, <2>4 DEF Next
<1> QED
  BY <1>1, <1>2, PTL DEF Spec

(* In every state a heap reaches, a request that its free chunks and top    *)
(* cannot serve changes nothing and gets nothing: the block is asked of the *)
(* runtime's allocator instead (Heap.cpp:117).                              *)
THEOREM SystemIsNeverAsked ==
    ASSUME MaxSize # MAX_SIZE_T
    PROVE  Spec => [](\A nb \in Nat, sys \in Answers : sys_alloc(ms, nb, sys) = Result(ms, NULL))
<1>1. Limited(ms) => \A nb \in Nat, sys \in Answers : sys_alloc(ms, nb, sys) = Result(ms, NULL)
  <2>1. MaxSize \in Nat \ {0}
    BY HeapMspaceAssumption DEF FitsMspace, pad_request, AlignUp, STATE_SIZE, TOP_FOOT_SIZE,
       SEGMENT_SIZE, CHUNK_OVERHEAD, SIZE_T_SIZE, MALLOC_ALIGNMENT, MIN_CHUNK_SIZE
  <2> QED
    BY <2>1, NothingIsMapped DEF Limited
<1> QED
  BY <1>1, AreaIsFixed, PTL

-----------------------------------------------------------------------------
(* The area of a heap as it is cut into chunks. h gives the heads, by their *)
(* addresses; the state of the mspace is at Base, and End has the head of   *)
(* what is never given away.                                                *)
End == Base + MaxSize - TOP_FOOT_SIZE

HeadType == [size : Nat, pinuse : BOOLEAN, cinuse : BOOLEAN]

EndOf(h, p) == p + h[p].size

ChunkFits(h, top, p) ==
    /\ h[p].size % 16 = 0 /\ h[p].size >= 16 /\ (p # top => h[p].size >= 32)
    /\ EndOf(h, p) \in DOMAIN h
    /\ \A q \in DOMAIN h : q <= p \/ EndOf(h, p) <= q
    /\ h[EndOf(h, p)].pinuse = h[p].cinuse
    /\ ~h[p].cinuse => h[p].pinuse /\ (p # top => h[EndOf(h, p)].cinuse)

Layout(h, top) ==
    /\ \A p \in DOMAIN h : h[p] \in HeadType /\ p \in Base .. End /\ p % 16 = 0
    /\ {Base, End, top} \subseteq DOMAIN h
    /\ \A p \in DOMAIN h : p # End => ChunkFits(h, top, p)
    /\ h[Base].cinuse /\ h[Base].pinuse
    /\ ~h[top].cinuse /\ ~h[End].cinuse
    /\ top # End /\ EndOf(h, top) = End /\ h[End].size > 0

(* The ends of the area.                                                    *)
LEMMA AreaEnds ==
    /\ Base \in Nat /\ End \in Nat /\ MaxSize \in Nat
    /\ Base % 16 = 0 /\ End % 16 = 0
    /\ Base + 944 + 16 <= End /\ End + 80 = Base + MaxSize
<1>1. /\ Base \in Nat /\ Base % 16 = 0 /\ MaxSize \in Nat /\ MaxSize % 16 = 0
      /\ MaxSize > pad_request(STATE_SIZE) + TOP_FOOT_SIZE
  BY HeapMspaceAssumption DEF MALLOC_ALIGNMENT, FitsMspace
<1>2. pad_request(STATE_SIZE) = 944 /\ TOP_FOOT_SIZE = 80
  BY DEF pad_request, AlignUp, STATE_SIZE, TOP_FOOT_SIZE, SEGMENT_SIZE, CHUNK_OVERHEAD,
         SIZE_T_SIZE, MALLOC_ALIGNMENT, MIN_CHUNK_SIZE
<1> QED
  BY <1>1, <1>2, SMT DEF End

(* What a layout says of one chunk, spelled out.                            *)
LEMMA ChunkOf ==
    ASSUME NEW h, NEW top, Layout(h, top), NEW p \in DOMAIN h
    PROVE  /\ p \in Nat /\ p >= Base /\ p <= End /\ p % 16 = 0
           /\ h[p].size \in Nat /\ h[p].pinuse \in BOOLEAN /\ h[p].cinuse \in BOOLEAN
           /\ h[p] = [size |-> h[p].size, pinuse |-> h[p].pinuse, cinuse |-> h[p].cinuse]
           /\ p # End => /\ ChunkFits(h, top, p)
                         /\ EndOf(h, p) \in Nat /\ EndOf(h, p) > p
                         /\ EndOf(h, p) <= End
<1>1. h[p] \in HeadType
  BY DEF Layout
<1>2. p \in Base .. End /\ p % 16 = 0
  BY DEF Layout
<1>3. p # End => ChunkFits(h, top, p)
  BY DEF Layout
<1>4. ASSUME p # End
      PROVE  EndOf(h, p) \in Nat /\ EndOf(h, p) > p /\ EndOf(h, p) <= End
  <2>1. EndOf(h, p) \in DOMAIN h /\ h[p].size >= 16
    BY <1>3, <1>4 DEF ChunkFits
  <2>2. EndOf(h, p) \in Base .. End
    BY <2>1 DEF Layout
  <2> QED
    BY <1>1, <1>2, <2>1, <2>2, AreaEnds DEF HeadType, EndOf
<1> QED
  BY <1>1, <1>2, <1>3, <1>4, AreaEnds DEF HeadType

(* Of two chunks one ends before the other starts.                          *)
LEMMA ChunksApart ==
    ASSUME NEW h, NEW top, Layout(h, top), NEW p \in DOMAIN h, p # End, NEW q \in DOMAIN h
    PROVE  /\ q <= p \/ EndOf(h, p) <= q
           /\ q < EndOf(h, p) => q <= p
           /\ p < q => EndOf(h, p) <= q
<1>1. q <= p \/ EndOf(h, p) <= q
  BY ChunkOf DEF ChunkFits
<1>2. p \in Nat /\ q \in Nat /\ EndOf(h, p) \in Nat
  BY ChunkOf
<1> QED
  BY <1>1, <1>2

(* A chunk but the first has one before it.                                 *)
LEMMA ChunkBefore ==
    ASSUME NEW h, NEW top, Layout(h, top), NEW p \in DOMAIN h, p # Base
    PROVE  \E q \in DOMAIN h : q # End /\ q < p /\ EndOf(h, q) = p
<1> DEFINE T == {p - x : x \in {x \in DOMAIN h : x < p}}
<1>1. \A x \in DOMAIN h : x \in Nat /\ x <= End /\ x >= Base
  BY ChunkOf
<1>2. T \in SUBSET Nat
  BY <1>1
<1>3. p - Base \in T
  BY <1>1 DEF Layout
<1>4. PICK t \in T : \A y \in T : t <= y
  BY <1>2, <1>3, LeastNat
<1>5. PICK q \in DOMAIN h : q < p /\ t = p - q
  BY <1>4
<1>6. ASSUME NEW x \in DOMAIN h, x < p PROVE x <= q
  <2>1. p - x \in T
    BY <1>6
  <2>2. p - q <= p - x
    BY <1>4, <1>5, <2>1
  <2> QED
    BY <1>1, <2>2, SMT
<1> HIDE DEF T
<1>7. q # End
  BY <1>1, <1>5, AreaEnds
<1>8. EndOf(h, q) \in DOMAIN h /\ EndOf(h, q) > q /\ EndOf(h, q) \in Nat
  BY <1>7, ChunkOf DEF ChunkFits
<1>9. EndOf(h, q) <= p
  BY <1>5, <1>7, ChunksApart
<1>10. EndOf(h, q) = p
  BY <1>1, <1>6, <1>8, <1>9
<1> QED
  BY <1>5, <1>7, <1>10
-----------------------------------------------------------------------------
(* What is done to the heads. The chunks from a up to n become one ...      *)
Merged(h, g, a, n, c) ==
    /\ DOMAIN g = {x \in DOMAIN h : x <= a \/ n <= x}
    /\ \A x \in DOMAIN g : x # a /\ x # n => g[x] = h[x]
    /\ g[a] = [size |-> n - a, pinuse |-> h[a].pinuse, cinuse |-> c]
    /\ g[n] = [size |-> h[n].size, pinuse |-> c, cinuse |-> h[n].cinuse]

(* ... or the chunk at a is cut at x, and its front is in use.              *)
Divided(h, g, a, x) ==
    /\ DOMAIN g = DOMAIN h \cup {x}
    /\ \A y \in DOMAIN h : y # a => g[y] = h[y]
    /\ g[a] = [size |-> x - a, pinuse |-> h[a].pinuse, cinuse |-> TRUE]
    /\ g[x] = [size |-> EndOf(h, a) - x, pinuse |-> TRUE, cinuse |-> h[a].cinuse]

(* Joining keeps the layout, when a free chunk is behind one in use and in  *)
(* front of one, or takes in top.                                           *)
LEMMA JoinKeeps ==
    ASSUME NEW h, NEW top, Layout(h, top), NEW a \in DOMAIN h, NEW n \in DOMAIN h, a < n,
           NEW c \in BOOLEAN, NEW g, Merged(h, g, a, n, c),
           ~c => h[a].pinuse /\ (n # End => h[n].cinuse),
           c => n # End,
           a # Base \/ c
    PROVE  Layout(g, IF n = End THEN a ELSE top)
<1> DEFINE t == IF n = End THEN a ELSE top
<1>1. /\ a \in Nat /\ n \in Nat /\ a >= Base /\ n <= End /\ a % 16 = 0 /\ n % 16 = 0
      /\ a # End /\ h[a].size \in Nat /\ h[n].size \in Nat
      /\ h[a].pinuse \in BOOLEAN /\ h[n].cinuse \in BOOLEAN
  BY ChunkOf, AreaEnds
<1>2. top \in DOMAIN h /\ top # End /\ EndOf(h, top) = End /\ Base \in DOMAIN h /\ End \in DOMAIN h
      /\ ~h[top].cinuse /\ ~h[End].cinuse
  BY DEF Layout
<1>3. \A x \in DOMAIN h : x \in Nat /\ x >= Base /\ x <= End
  BY ChunkOf
<1>4. n # End => a # top /\ n <= top
  <2> SUFFICES ASSUME n # End PROVE a # top /\ n <= top
    OBVIOUS
  <2>1. n < End
    BY <1>1, AreaEnds
  <2>2. a # top
    BY <1>1, <1>2, <2>1, ChunksApart, AreaEnds
  <2>3. n <= top
    BY <1>1, <1>2, <2>1, ChunksApart, AreaEnds
  <2> QED
    BY <2>2, <2>3
<1>5. EndOf(h, a) <= n /\ EndOf(h, a) > a /\ EndOf(h, a) \in Nat /\ ChunkFits(h, top, a)
  BY <1>1, ChunkOf, ChunksApart
<1>6. n - a \in Nat /\ (n - a) % 16 = 0 /\ n - a >= 16 /\ (a # t => n - a >= 32)
  <2>1. h[a].size >= 16 /\ (a # top => h[a].size >= 32) /\ EndOf(h, a) = a + h[a].size
    BY <1>5 DEF ChunkFits, EndOf
  <2>2. a # t => a # top
    BY <1>2, <1>4
  <2>3. (n - a) % 16 = 0
    BY <1>1
  <2> HIDE DEF t
  <2> QED
    BY <1>1, <1>5, <2>1, <2>2, <2>3
<1>7. /\ DOMAIN g = {x \in DOMAIN h : x <= a \/ n <= x}
      /\ \A x \in DOMAIN g : x # a /\ x # n => g[x] = h[x]
      /\ g[a] = [size |-> n - a, pinuse |-> h[a].pinuse, cinuse |-> c]
      /\ g[n] = [size |-> h[n].size, pinuse |-> c, cinuse |-> h[n].cinuse]
  BY DEF Merged
<1>8. ASSUME NEW x \in DOMAIN g
      PROVE  g[x] \in HeadType /\ x \in Base .. End /\ x % 16 = 0 /\ x \in DOMAIN h
  <2>1. CASE x = a
    BY <2>1, <1>1, <1>6, <1>7, AreaEnds DEF HeadType
  <2>2. CASE x = n
    BY <2>2, <1>1, <1>7, AreaEnds DEF HeadType
  <2>3. CASE x # a /\ x # n
    BY <2>3, <1>7 DEF Layout
  <2> QED
    BY <2>1, <2>2, <2>3
<1>9. {Base, End, t} \subseteq DOMAIN g /\ a \in DOMAIN g /\ n \in DOMAIN g
  <2>1. Base <= a /\ n <= End
    BY <1>1
  <2>2. n # End => n <= top
    BY <1>4
  <2>3. a \in DOMAIN g /\ n \in DOMAIN g
    BY <1>1, <1>7
  <2> QED
    BY <2>1, <2>2, <2>3, <1>2, <1>7
<1>10. ASSUME NEW p \in DOMAIN g, p # End, p # a
       PROVE  /\ g[p].size = h[p].size /\ g[p].cinuse = h[p].cinuse
              /\ EndOf(g, p) = EndOf(h, p) /\ EndOf(h, p) \in DOMAIN g
              /\ (p # t => p # top)
              /\ (EndOf(h, p) # n \/ p < a) /\ EndOf(h, p) # a => g[EndOf(h, p)] = h[EndOf(h, p)]
  <2>1. p \in DOMAIN h /\ (p < a \/ n <= p) /\ p \in Nat
    BY <1>1, <1>3, <1>7, <1>10
  <2>2. g[p].size = h[p].size /\ g[p].cinuse = h[p].cinuse
    BY <1>7, <1>10
  <2>3. EndOf(g, p) = EndOf(h, p)
    BY <2>2 DEF EndOf
  <2>4. ChunkFits(h, top, p) /\ EndOf(h, p) \in Nat /\ EndOf(h, p) > p
    BY <2>1, <1>10, ChunkOf
  <2>5. EndOf(h, p) \in DOMAIN h
    BY <2>4 DEF ChunkFits
  <2>6. p < a => EndOf(h, p) <= a
    BY <2>1, <1>10, ChunksApart
  <2>7. EndOf(h, p) \in DOMAIN g
    BY <1>1, <1>7, <2>1, <2>4, <2>5, <2>6
  <2>8. p # t => p # top
    <3>1. CASE n = End
      <4>1. p < a
        BY <2>1, <1>10, <1>3, <3>1, AreaEnds
      <4> QED
        BY <2>6, <4>1, <1>1, <1>2, AreaEnds
    <3>2. CASE n # End
      BY <3>2
    <3> QED
      BY <3>1, <3>2
  <2>9. p < a => EndOf(h, p) # n
    BY <2>6, <1>1
  <2>10. EndOf(h, p) # n /\ EndOf(h, p) # a => g[EndOf(h, p)] = h[EndOf(h, p)]
    BY <1>7, <2>7
  <2> QED
    BY <2>2, <2>3, <2>7, <2>8, <2>9, <2>10
<1>11. ASSUME NEW p \in DOMAIN g, p # End PROVE ChunkFits(g, t, p)
  <2>1. p \in DOMAIN h /\ (p <= a \/ n <= p) /\ p \in Nat
    BY <1>3, <1>7
  <2>2. CASE p = a
    <3>1. g[p].size = n - a /\ g[p].pinuse = h[a].pinuse /\ g[p].cinuse = c /\ g[n].pinuse = c
          /\ g[n].cinuse = h[n].cinuse
      BY <1>7, <2>2
    <3>2. EndOf(g, p) = n
      BY <3>1, <1>1, <2>2 DEF EndOf
    <3>3. \A q \in DOMAIN g : q <= p \/ n <= q
      BY <1>7, <2>2
    <3>4. p # t => g[p].size >= 32
      BY <3>1, <1>6, <2>2
    <3>5. ~c => h[a].pinuse /\ (p # t => h[n].cinuse)
      BY <2>2
    <3> HIDE DEF t
    <3>6. g[p].size % 16 = 0 /\ g[p].size >= 16
      BY <3>1, <1>6
    <3> QED
      BY <3>1, <3>2, <3>3, <3>4, <3>5, <3>6, <1>9 DEF ChunkFits
  <2>3. CASE p # a
    <3>1. ChunkFits(h, top, p) /\ EndOf(h, p) > p /\ EndOf(h, p) \in Nat
      BY <2>1, <1>11, ChunkOf
    <3>2. /\ g[p].size = h[p].size /\ g[p].cinuse = h[p].cinuse
          /\ EndOf(g, p) = EndOf(h, p) /\ EndOf(h, p) \in DOMAIN g
          /\ (p # t => p # top)
      BY <2>3, <1>10, <1>11
    <3>3. g[p].pinuse = IF p = n THEN c ELSE h[p].pinuse
      BY <2>3, <1>7
    <3>4. \A q \in DOMAIN g : q <= p \/ EndOf(g, p) <= q
      BY <3>1, <3>2, <1>7 DEF ChunkFits
    <3>5. g[EndOf(h, p)].pinuse = h[EndOf(h, p)].pinuse
          /\ (g[EndOf(h, p)].cinuse = h[EndOf(h, p)].cinuse
                \/ EndOf(h, p) = a)
      <4>1. CASE EndOf(h, p) = a
        BY <4>1, <1>7
      <4>2. CASE EndOf(h, p) # a
        <5>1. EndOf(h, p) # n
          <6>1. p < a => EndOf(h, p) # n
            BY <2>1, <3>1, <1>11, <1>1, ChunksApart
          <6>2. p >= n => EndOf(h, p) # n
            BY <3>1, <1>1, <2>1
          <6> QED
            BY <6>1, <6>2, <2>1, <2>3, <1>1
        <5> QED
          BY <5>1, <4>2, <2>3, <1>10, <1>11
      <4> QED
        BY <4>1, <4>2
    <3>6. ~h[p].cinuse => h[p].pinuse /\ (p # top => h[EndOf(h, p)].cinuse)
      BY <3>1 DEF ChunkFits
    <3>7. ~h[p].cinuse /\ EndOf(h, p) = a => c
      <4> SUFFICES ASSUME ~h[p].cinuse, EndOf(h, p) = a, ~c PROVE FALSE
        OBVIOUS
      <4>1. h[a].pinuse = h[p].cinuse
        BY <3>1 DEF ChunkFits
      <4> QED
        BY <4>1
    <3>8. EndOf(h, p) = a /\ c => g[EndOf(h, p)].cinuse
      BY <1>7
    <3>9. p = n /\ ~h[p].cinuse => c
      BY <1>11
    <3> HIDE DEF t
    <3>10. ~g[p].cinuse => g[p].pinuse
      BY <3>2, <3>3, <3>6, <3>9
    <3>11. ~g[p].cinuse /\ p # t => g[EndOf(h, p)].cinuse
      BY <3>2, <3>5, <3>6, <3>7, <3>8
    <3>12. h[EndOf(h, p)].pinuse = h[p].cinuse /\ h[p].size % 16 = 0 /\ h[p].size >= 16
           /\ (p # top => h[p].size >= 32)
      BY <3>1 DEF ChunkFits
    <3>13. g[EndOf(g, p)].pinuse = g[p].cinuse /\ EndOf(g, p) \in DOMAIN g
           /\ g[p].size % 16 = 0 /\ g[p].size >= 16 /\ (p # t => g[p].size >= 32)
      BY <3>2, <3>5, <3>12
    <3> QED
      BY <3>2, <3>4, <3>10, <3>11, <3>13 DEF ChunkFits
  <2> QED
    BY <2>2, <2>3
<1>12. g[Base].cinuse /\ g[Base].pinuse /\ ~g[t].cinuse /\ ~g[End].cinuse /\ EndOf(g, t) = End
       /\ t # End /\ g[End].size > 0
  <2>1. g[Base].pinuse
    <3>1. Base # n
      BY <1>1
    <3>2. Base # a => g[Base] = h[Base]
      BY <1>7, <1>9, <3>1
    <3>3. h[Base].pinuse
      BY DEF Layout
    <3>4. g[a].pinuse = h[a].pinuse
      BY <1>7
    <3> QED
      BY <3>2, <3>3, <3>4
  <2>2. g[Base].cinuse
    <3>1. Base # n
      BY <1>1
    <3>2. Base # a => g[Base] = h[Base]
      BY <1>7, <1>9, <3>1
    <3>3. h[Base].cinuse
      BY DEF Layout
    <3>4. g[a].cinuse = c
      BY <1>7
    <3> QED
      BY <3>2, <3>3, <3>4
  <2>3. ~g[End].cinuse /\ g[End].size > 0
    <3>1. End # a /\ h[End].size > 0
      BY <1>1 DEF Layout
    <3>2. g[n].cinuse = h[n].cinuse /\ g[n].size = h[n].size
      BY <1>7
    <3>3. End # n => g[End] = h[End]
      BY <1>7, <1>9, <3>1
    <3> QED
      BY <3>1, <3>2, <3>3, <1>2
  <2>4. ~g[t].cinuse /\ EndOf(g, t) = End /\ t # End
    <3>1. CASE n = End
      <4>1. ~c /\ t = a /\ g[a].size = n - a
        BY <3>1, <1>7
      <4>2. g[a].cinuse = c
        BY <1>7
      <4> HIDE DEF t
      <4> QED
        BY <4>1, <4>2, <1>1, <3>1 DEF EndOf
    <3>2. CASE n # End
      <4>1. t = top /\ t # a /\ t \in DOMAIN g
        BY <3>2, <1>4, <1>9
      <4>2. g[t].size = h[t].size /\ g[t].cinuse = h[t].cinuse
        BY <4>1, <1>7
      <4> HIDE DEF t
      <4> QED
        BY <4>1, <4>2, <1>2 DEF EndOf
    <3> QED
      BY <3>1, <3>2
  <2> QED
    BY <2>1, <2>2, <2>3, <2>4
<1> HIDE DEF t
<1>13. Layout(g, t)
  BY <1>8, <1>9, <1>11, <1>12 DEF Layout
<1> QED
  BY <1>13 DEF t

(* So does dividing a chunk.                                                *)
LEMMA DivideKeeps ==
    ASSUME NEW h, NEW top, Layout(h, top), NEW a \in DOMAIN h, a # End,
           NEW x \in Nat, x % 16 = 0, a + 32 <= x, x + 16 <= EndOf(h, a),
           a # top => x + 32 <= EndOf(h, a),
           NEW g, Divided(h, g, a, x)
    PROVE  Layout(g, IF a = top THEN x ELSE top)
<1> DEFINE t == IF a = top THEN x ELSE top
           b == EndOf(h, a)
<1>1. /\ a \in Nat /\ a >= Base /\ a % 16 = 0
      /\ b \in Nat /\ b <= End /\ h[a].pinuse \in BOOLEAN /\ h[a].cinuse \in BOOLEAN
      /\ ChunkFits(h, top, a)
  BY ChunkOf, AreaEnds
<1>2. b \in DOMAIN h /\ \A q \in DOMAIN h : q <= a \/ b <= q
  BY <1>1 DEF ChunkFits
<1>3. b % 16 = 0 /\ b # a
  BY <1>1, <1>2, ChunkOf, AreaEnds
<1>4. x \notin DOMAIN h
  BY <1>1, <1>2
<1>5. top \in DOMAIN h /\ top # End /\ EndOf(h, top) = End /\ Base \in DOMAIN h /\ End \in DOMAIN h
      /\ ~h[top].cinuse /\ ~h[End].cinuse /\ h[Base].cinuse /\ h[Base].pinuse
  BY DEF Layout
<1>6. /\ DOMAIN g = DOMAIN h \cup {x}
      /\ \A y \in DOMAIN h : y # a => g[y] = h[y]
      /\ g[a] = [size |-> x - a, pinuse |-> h[a].pinuse, cinuse |-> TRUE]
      /\ g[x] = [size |-> b - x, pinuse |-> TRUE, cinuse |-> h[a].cinuse]
  BY DEF Divided
<1>7. x - a \in Nat /\ (x - a) % 16 = 0 /\ b - x \in Nat /\ (b - x) % 16 = 0
      /\ b - x >= 16 /\ (a # top => b - x >= 32) /\ x - a >= 32
  BY <1>1, <1>3
<1>8. ASSUME NEW y \in DOMAIN g
      PROVE  g[y] \in HeadType /\ y \in Base .. End /\ y % 16 = 0
  <2>1. CASE y = a
    BY <2>1, <1>1, <1>6, <1>7, AreaEnds DEF HeadType
  <2>2. CASE y = x
    <3>1. y \in Base .. End
      BY <2>2, <1>1, AreaEnds
    <3> HIDE DEF b
    <3>2. g[x] \in HeadType
      BY <1>1, <1>6, <1>7 DEF HeadType
    <3> QED
      BY <2>2, <3>1, <3>2
  <2>3. CASE y # a /\ y # x
    BY <2>3, <1>6 DEF Layout
  <2> QED
    BY <2>1, <2>2, <2>3
<1>9. ASSUME NEW p \in DOMAIN g, p # End PROVE ChunkFits(g, t, p)
  <2>1. CASE p = a
    <3>1. EndOf(g, p) = x /\ g[p].size = x - a /\ g[p].cinuse /\ g[p].cinuse = TRUE
      BY <2>1, <1>1, <1>6 DEF EndOf
    <3>2. \A q \in DOMAIN g : q <= p \/ x <= q
      <4>1. \A q \in DOMAIN h : q \in Nat
        BY ChunkOf
      <4> QED
        BY <2>1, <1>1, <1>2, <1>6, <4>1
    <3>3. g[x].pinuse = TRUE /\ x \in DOMAIN g
      BY <1>6
    <3>4. g[EndOf(g, p)].pinuse = g[p].cinuse /\ EndOf(g, p) \in DOMAIN g
          /\ \A q \in DOMAIN g : q <= p \/ EndOf(g, p) <= q
      BY <3>1, <3>2, <3>3, Zenon
    <3>5. g[p].size % 16 = 0 /\ g[p].size >= 16 /\ g[p].size >= 32
      <4> HIDE DEF b
      <4> QED
        BY <3>1, <1>7
    <3> HIDE DEF t, b
    <3> QED
      BY <3>1, <3>4, <3>5 DEF ChunkFits
  <2>2. CASE p = x
    <3>1. g[p].size = b - x /\ g[p].cinuse = h[a].cinuse /\ g[p].pinuse = TRUE
      BY <2>2, <1>6
    <3>2. EndOf(g, p) = b
      <4> HIDE DEF b
      <4> QED
        BY <3>1, <2>2, <1>1 DEF EndOf
    <3>3. \A q \in DOMAIN g : q <= p \/ b <= q
      <4>1. \A q \in DOMAIN h : q \in Nat
        BY ChunkOf
      <4> QED
        BY <2>2, <1>1, <1>2, <1>6, <4>1
    <3>4. g[b] = h[b] /\ b \in DOMAIN g
      BY <1>2, <1>3, <1>6
    <3>5. h[b].pinuse = h[a].cinuse /\ (~h[a].cinuse /\ a # top => h[b].cinuse)
      BY <1>1 DEF ChunkFits
    <3>6. p # t => a # top
      BY <2>2
    <3> HIDE DEF t, b
    <3> QED
      BY <3>1, <3>2, <3>3, <3>4, <3>5, <3>6, <1>7 DEF ChunkFits
  <2>3. CASE p # a /\ p # x
    <3>1. p \in DOMAIN h /\ g[p] = h[p]
      BY <2>3, <1>6
    <3>2. ChunkFits(h, top, p)
      BY <3>1, <1>9, ChunkOf
    <3>3. p # t => p # top
      BY <2>3
    <3>4. EndOf(g, p) = EndOf(h, p) /\ EndOf(h, p) \in DOMAIN h
      BY <3>1, <3>2 DEF EndOf, ChunkFits
    <3>5. EndOf(h, p) <= x \/ x <= p
      <4>1. p \in Nat /\ EndOf(h, p) \in Nat
        BY <3>1, <1>9, ChunkOf
      <4>2. p <= a \/ b <= p
        BY <3>1, <1>2
      <4>3. p < a => EndOf(h, p) <= a
        BY <3>1, <1>9, ChunksApart
      <4> QED
        BY <4>1, <4>2, <4>3, <2>3, <1>1
    <3>6. \A q \in DOMAIN g : q <= p \/ EndOf(h, p) <= q
      <4>1. \A q \in DOMAIN h : q <= p \/ EndOf(h, p) <= q
        BY <3>2 DEF ChunkFits
      <4> QED
        BY <4>1, <3>5, <1>6
    <3>7. g[EndOf(h, p)].pinuse = h[EndOf(h, p)].pinuse
          /\ (h[EndOf(h, p)].cinuse => g[EndOf(h, p)].cinuse)
      BY <3>4, <1>6
    <3>8. /\ h[p].size % 16 = 0 /\ h[p].size >= 16 /\ (p # top => h[p].size >= 32)
          /\ h[EndOf(h, p)].pinuse = h[p].cinuse
          /\ ~h[p].cinuse => h[p].pinuse /\ (p # top => h[EndOf(h, p)].cinuse)
      BY <3>2 DEF ChunkFits
    <3>9. EndOf(h, p) \in DOMAIN g
      BY <3>4, <1>6
    <3> HIDE DEF t
    <3>10. g[EndOf(g, p)].pinuse = h[EndOf(h, p)].pinuse /\ EndOf(g, p) \in DOMAIN g
           /\ (h[EndOf(h, p)].cinuse => g[EndOf(g, p)].cinuse)
           /\ \A q \in DOMAIN g : q <= p \/ EndOf(g, p) <= q
      BY <3>4, <3>6, <3>7, <3>9
    <3>11. /\ g[p].size % 16 = 0 /\ g[p].size >= 16 /\ (p # t => g[p].size >= 32)
           /\ g[EndOf(g, p)].pinuse = g[p].cinuse
           /\ ~g[p].cinuse => g[p].pinuse /\ (p # t => g[EndOf(g, p)].cinuse)
      BY <3>1, <3>3, <3>8, <3>10
    <3> QED
      BY <3>10, <3>11 DEF ChunkFits
  <2> QED
    BY <2>1, <2>2, <2>3
<1>10. {Base, End, t} \subseteq DOMAIN g
  BY <1>5, <1>6
<1>11. g[Base].cinuse /\ g[Base].pinuse /\ ~g[End].cinuse /\ g[End].size > 0
  <2>1. g[End] = h[End]
    BY <1>5, <1>6
  <2>2. g[Base].cinuse /\ g[Base].pinuse
    BY <1>5, <1>6
  <2>3. h[End].size > 0
    BY DEF Layout
  <2> QED
    BY <2>1, <2>2, <2>3, <1>5
<1>12. ~g[t].cinuse /\ EndOf(g, t) = End /\ t # End
  <2>1. CASE a = top
    <3>1. t = x /\ b = End
      BY <2>1, <1>5
    <3>2. g[x].size = b - x /\ g[x].cinuse = h[a].cinuse
      BY <1>6
    <3> HIDE DEF t, b
    <3> QED
      BY <3>1, <3>2, <2>1, <1>1, <1>5, <1>7 DEF EndOf
  <2>2. CASE a # top
    BY <2>2, <1>5, <1>6 DEF EndOf
  <2> QED
    BY <2>1, <2>2
<1> HIDE DEF t
<1>13. Layout(g, t)
  BY <1>8, <1>9, <1>10, <1>11, <1>12 DEF Layout
<1> QED
  BY <1>13 DEF t

-----------------------------------------------------------------------------
(* The chunks that are free, but top, and those that are in use; the state  *)
(* of the mspace is one of these.                                           *)
FreeOnes(m) == {p \in DOMAIN m.head : p # m.top /\ p # End /\ ~m.head[p].cinuse}

Taken(m) == {p \in DOMAIN m.head : m.head[p].cinuse}

FeetFit(m) ==
    \A p \in FreeOnes(m) : LET e == EndOf(m.head, p) IN
        e \in DOMAIN m.foot /\ m.foot[e] = m.head[p].size

Fields == BinFields \cup {"head", "foot", "top", "topsize", "dv", "dvsize"}

(* An mspace whose heads and feet are sound.                                *)
Phys(m) ==
    /\ Fields \subseteq DOMAIN m
    /\ Layout(m.head, m.top) /\ m.topsize = m.head[m.top].size
    /\ FeetFit(m)

(* What w has kept of the chunks of m in S: that they are in use or free,   *)
(* their sizes, and the word behind them.                                   *)
Keeps(m, w, S) ==
    \A p \in S : LET e == EndOf(m.head, p) IN
        /\ p \in DOMAIN m.head /\ p \in DOMAIN w.head
        /\ w.head[p].size = m.head[p].size /\ w.head[p].cinuse = m.head[p].cinuse
        /\ e \in DOMAIN m.foot => e \in DOMAIN w.foot /\ w.foot[e] = m.foot[e]

FeetOutside(m, w, a, n) ==
    \A k \in DOMAIN m.foot \cap Int : k <= a \/ k > n => k \in DOMAIN w.foot /\ w.foot[k] = m.foot[k]

(* What joining leaves alone.                                               *)
LeavesRest(m, w, a, n, c) ==
    /\ \A p \in DOMAIN m.head : (p < a \/ n <= p) =>
          /\ p \in DOMAIN w.head /\ p # a
          /\ w.head[p].size = m.head[p].size /\ w.head[p].cinuse = m.head[p].cinuse
          /\ EndOf(w.head, p) = EndOf(m.head, p)
          /\ p # End =>
                LET e == EndOf(m.head, p) IN
                e \in DOMAIN m.foot => e \in DOMAIN w.foot /\ w.foot[e] = m.foot[e]
    /\ \A p \in DOMAIN w.head : p \in DOMAIN m.head /\ (p = a \/ p < a \/ n <= p)
    /\ a \in DOMAIN w.head /\ w.head[a].size = n - a /\ w.head[a].cinuse = c
    /\ EndOf(w.head, a) = n

(* Keeping is transitive.                                                   *)
LEMMA KeepsThrough ==
    ASSUME NEW m, NEW w, NEW v, NEW S, NEW T, Keeps(m, w, S), Keeps(w, v, T)
    PROVE  Keeps(m, v, S \cap T)
BY DEF Keeps, EndOf

(* What joining leaves alone.                                               *)
LEMMA MergeLeaves ==
    ASSUME NEW m, Phys(m), NEW w, NEW a \in DOMAIN m.head, NEW n \in DOMAIN m.head, a < n,
           NEW c, Merged(m.head, w.head, a, n, c), FeetOutside(m, w, a, n)
    PROVE  LeavesRest(m, w, a, n, c)
<1> DEFINE h == m.head
           g == w.head
<1>1. /\ Layout(h, m.top)
  BY DEF Phys
<1>2. \A p \in DOMAIN h : p \in Nat /\ p <= End /\ h[p].size \in Nat
  BY <1>1, ChunkOf
<1>3. /\ DOMAIN g = {x \in DOMAIN h : x <= a \/ n <= x}
      /\ \A x \in DOMAIN g : x # a /\ x # n => g[x] = h[x]
      /\ g[a] = [size |-> n - a, pinuse |-> h[a].pinuse, cinuse |-> c]
      /\ g[n] = [size |-> h[n].size, pinuse |-> c, cinuse |-> h[n].cinuse]
  BY DEF Merged
<1>4. ASSUME NEW p \in DOMAIN h, p < a \/ n <= p
      PROVE  /\ p \in DOMAIN g /\ p # a
             /\ g[p].size = h[p].size /\ g[p].cinuse = h[p].cinuse
             /\ EndOf(g, p) = EndOf(h, p)
             /\ p # End =>
                  LET e == EndOf(h, p) IN
                  e \in DOMAIN m.foot => e \in DOMAIN w.foot /\ w.foot[e] = m.foot[e]
  <2>1. p \in DOMAIN g /\ p # a
    BY <1>2, <1>3, <1>4
  <2>2. g[p].size = h[p].size /\ g[p].cinuse = h[p].cinuse
    <3>1. CASE p = n
      BY <3>1, <1>3
    <3>2. CASE p # n
      BY <3>2, <2>1, <1>3
    <3> QED
      BY <3>1, <3>2
  <2>3. EndOf(g, p) = EndOf(h, p)
    BY <2>2 DEF EndOf
  <2>4. ASSUME p # End PROVE EndOf(h, p) <= a \/ EndOf(h, p) > n
    <3>1. p < a => EndOf(h, p) <= a
      BY <1>1, <2>4, ChunksApart
    <3>2. EndOf(h, p) > p /\ EndOf(h, p) \in Nat
      BY <1>1, <2>4, ChunkOf
    <3> QED
      BY <3>1, <3>2, <1>2, <1>4
  <2>5. p # End => EndOf(h, p) \in Int
    BY <1>1, ChunkOf
  <2>6. p # End /\ EndOf(h, p) \in DOMAIN m.foot =>
           EndOf(h, p) \in DOMAIN w.foot /\ w.foot[EndOf(h, p)] = m.foot[EndOf(h, p)]
    BY <2>4, <2>5 DEF FeetOutside
  <2> QED
    BY <2>1, <2>2, <2>3, <2>6
<1>5. \A p \in DOMAIN g : p \in DOMAIN h /\ (p = a \/ p < a \/ n <= p)
  BY <1>2, <1>3
<1>6. a \in DOMAIN g /\ g[a].size = n - a /\ g[a].cinuse = c
  BY <1>2, <1>3
<1>7. EndOf(g, a) = n
  BY <1>2, <1>6 DEF EndOf
<1> QED
  BY <1>4, <1>5, <1>6, <1>7, Zenon DEF LeavesRest

(* Joining chunks into a free one: ...                                      *)
FreeMerged(m, w, a, n) ==
    /\ Phys(w)
    /\ FreeOnes(w) = (FreeOnes(m) \ (a .. n - 1)) \cup {a}
    /\ Taken(w) = Taken(m) \ (a .. n - 1)
    /\ Keeps(m, w, Taken(w)) /\ Keeps(m, w, FreeOnes(m) \ (a .. n - 1))
    /\ w.head[a].size = n - a

(* That is what one step of coalescing comes to.                            *)
LEMMA MergeFree ==
    ASSUME NEW m, Phys(m), NEW w, Fields \subseteq DOMAIN w,
           NEW a \in DOMAIN m.head, NEW n \in DOMAIN m.head, a < n, a # Base, n # End,
           m.head[a].pinuse, m.head[n].cinuse,
           Merged(m.head, w.head, a, n, FALSE), FeetOutside(m, w, a, n),
           n \in DOMAIN w.foot, w.foot[n] = n - a,
           w.top = m.top, w.topsize = m.topsize
    PROVE  FreeMerged(m, w, a, n)
<1> DEFINE h == m.head
           g == w.head
           t == m.top
<1>1. Layout(h, t) /\ m.topsize = h[t].size /\ FeetFit(m)
  BY DEF Phys
<1>2. \A p \in DOMAIN h : p \in Nat /\ p <= End
  BY <1>1, ChunkOf
<1>3. Layout(g, t)
  BY <1>1, JoinKeeps
<1>4. /\ \A p \in DOMAIN h : (p < a \/ n <= p) =>
                 /\ p \in DOMAIN g /\ p # a
                 /\ g[p].size = h[p].size /\ g[p].cinuse = h[p].cinuse
                 /\ EndOf(g, p) = EndOf(h, p)
                 /\ p # End =>
                       LET e == EndOf(h, p) IN
                       e \in DOMAIN m.foot => e \in DOMAIN w.foot /\ w.foot[e] = m.foot[e]
      /\ \A p \in DOMAIN g : p \in DOMAIN h /\ (p = a \/ p < a \/ n <= p)
      /\ a \in DOMAIN g /\ g[a].size = n - a /\ g[a].cinuse = FALSE
      /\ EndOf(g, a) = n
  <2>1. LeavesRest(m, w, a, n, FALSE)
    BY MergeLeaves
  <2> QED
    BY <2>1, Zenon DEF LeavesRest
<1>5. a # End /\ a # t /\ n <= t
  <2>1. n < End /\ n \in Nat /\ a \in Nat
    BY <1>2, AreaEnds
  <2>2. t \in DOMAIN h /\ t # End /\ EndOf(h, t) = End
    BY <1>1 DEF Layout
  <2>3. a # End
    BY <2>1, AreaEnds
  <2>4. a # t
    BY <1>1, <2>1, <2>2, ChunksApart, AreaEnds
  <2>5. n <= t
    BY <1>1, <2>1, <2>2, ChunksApart, AreaEnds
  <2> QED
    BY <2>3, <2>4, <2>5
<1>6. t \in DOMAIN h /\ n <= t
  BY <1>1, <1>5 DEF Layout
<1>7. w.topsize = g[w.top].size
  BY <1>1, <1>4, <1>6
<1>8. \A p \in DOMAIN h : p \in a .. n - 1 <=> ~(p < a \/ n <= p)
  BY <1>2
<1>9. FreeOnes(w) = (FreeOnes(m) \ (a .. n - 1)) \cup {a}
  <2>1. ASSUME NEW p \in FreeOnes(w) PROVE p = a \/ (p \in FreeOnes(m) /\ p \notin a .. n - 1)
    BY <2>1, <1>4, <1>8 DEF FreeOnes
  <2>2. ASSUME NEW p \in FreeOnes(m), p \notin a .. n - 1 PROVE p \in FreeOnes(w)
    BY <2>2, <1>4, <1>8 DEF FreeOnes
  <2>3. a \in FreeOnes(w)
    BY <1>4, <1>5 DEF FreeOnes
  <2> QED
    BY <2>1, <2>2, <2>3
<1>10. Taken(w) = Taken(m) \ (a .. n - 1)
  <2>1. ASSUME NEW p \in Taken(w) PROVE p \in Taken(m) /\ p \notin a .. n - 1
    BY <2>1, <1>4, <1>8 DEF Taken
  <2>2. ASSUME NEW p \in Taken(m), p \notin a .. n - 1 PROVE p \in Taken(w)
    BY <2>2, <1>4, <1>8 DEF Taken
  <2> QED
    BY <2>1, <2>2
<1>11. \A p \in DOMAIN h : p \notin a .. n - 1 /\ p # End => Keeps(m, w, {p})
  BY <1>4, <1>8 DEF Keeps
<1>12. ~h[End].cinuse
  BY <1>1 DEF Layout
<1>13. Keeps(m, w, Taken(w)) /\ Keeps(m, w, FreeOnes(m) \ (a .. n - 1))
  <2>1. \A p \in Taken(w) : p \in DOMAIN h /\ p \notin a .. n - 1 /\ p # End
    BY <1>10, <1>12 DEF Taken
  <2>2. \A p \in FreeOnes(m) \ (a .. n - 1) : p \in DOMAIN h /\ p # End
    BY DEF FreeOnes
  <2>3. \A S : (\A p \in S : Keeps(m, w, {p})) => Keeps(m, w, S)
    BY Zenon DEF Keeps
  <2> QED
    BY <1>11, <2>1, <2>2, <2>3
<1>14. FeetFit(w)
  <2> SUFFICES ASSUME NEW p \in FreeOnes(w)
               PROVE  EndOf(g, p) \in DOMAIN w.foot /\ w.foot[EndOf(g, p)] = g[p].size
    BY DEF FeetFit
  <2>1. CASE p = a
    BY <2>1, <1>4
  <2>2. CASE p # a
    <3>1. p \in FreeOnes(m) /\ p \in DOMAIN h /\ (p < a \/ n <= p) /\ p # End
      BY <2>2, <1>8, <1>9 DEF FreeOnes
    <3>2. EndOf(h, p) \in DOMAIN m.foot /\ m.foot[EndOf(h, p)] = h[p].size
      BY <1>1, <3>1 DEF FeetFit
    <3> QED
      BY <3>1, <3>2, <1>4
  <2> QED
    BY <2>1, <2>2
<1> QED
  BY <1>3, <1>4, <1>7, <1>9, <1>10, <1>13, <1>14 DEF Phys, FreeMerged

(* ... into top, ...                                                        *)
LEMMA MergeTop ==
    ASSUME NEW m, Phys(m), NEW w, Fields \subseteq DOMAIN w,
           NEW a \in DOMAIN m.head, a # End, a # Base, m.head[a].pinuse,
           Merged(m.head, w.head, a, End, FALSE), FeetOutside(m, w, a, End),
           w.top = a, w.topsize = End - a
    PROVE  /\ Phys(w)
           /\ FreeOnes(w) = FreeOnes(m) \ (a .. End - 1)
           /\ Taken(w) = Taken(m) \ (a .. End - 1)
           /\ Keeps(m, w, Taken(w)) /\ Keeps(m, w, FreeOnes(w))
<1> DEFINE h == m.head
           g == w.head
           n == End
<1>1. Layout(h, m.top) /\ FeetFit(m)
  BY DEF Phys
<1>2. \A p \in DOMAIN h : p \in Nat /\ p <= End
  BY <1>1, ChunkOf
<1>3. n \in DOMAIN h /\ a < n
  BY <1>1, <1>2, AreaEnds DEF Layout
<1>4. Layout(g, a)
  BY <1>1, <1>3, JoinKeeps
<1>5. /\ \A p \in DOMAIN h : (p < a \/ n <= p) =>
                 /\ p \in DOMAIN g /\ p # a
                 /\ g[p].size = h[p].size /\ g[p].cinuse = h[p].cinuse
                 /\ EndOf(g, p) = EndOf(h, p)
                 /\ p # End =>
                       LET e == EndOf(h, p) IN
                       e \in DOMAIN m.foot => e \in DOMAIN w.foot /\ w.foot[e] = m.foot[e]
      /\ \A p \in DOMAIN g : p \in DOMAIN h /\ (p = a \/ p < a \/ n <= p)
      /\ a \in DOMAIN g /\ g[a].size = n - a /\ g[a].cinuse = FALSE
  <2>1. a \in DOMAIN m.head /\ n \in DOMAIN m.head /\ a < n
    BY <1>3
  <2>2. Merged(m.head, w.head, a, n, FALSE) /\ FeetOutside(m, w, a, n)
    OBVIOUS
  <2> HIDE DEF n
  <2>3. LeavesRest(m, w, a, n, FALSE)
    BY <2>1, <2>2, MergeLeaves, Zenon
  <2> QED
    BY <2>3, Zenon DEF LeavesRest
<1>6. w.topsize = g[w.top].size
  BY <1>5
<1>7. \A p \in DOMAIN h : p \in a .. End - 1 <=> ~(p < a \/ n <= p)
  BY <1>2, AreaEnds
<1>8. m.top \in a .. End - 1
  <2>1. m.top \in DOMAIN h /\ m.top # End /\ EndOf(h, m.top) = End
    BY <1>1 DEF Layout
  <2>2. a <= m.top
    BY <1>1, <1>2, <1>3, <2>1, ChunksApart
  <2> QED
    BY <1>2, <2>1, <2>2, AreaEnds
<1>9. FreeOnes(w) = FreeOnes(m) \ (a .. End - 1)
  <2>1. ASSUME NEW p \in FreeOnes(w) PROVE p \in FreeOnes(m) /\ p \notin a .. End - 1
    BY <2>1, <1>5, <1>7, <1>8 DEF FreeOnes
  <2>2. ASSUME NEW p \in FreeOnes(m), p \notin a .. End - 1 PROVE p \in FreeOnes(w)
    BY <2>2, <1>5, <1>7 DEF FreeOnes
  <2> QED
    BY <2>1, <2>2
<1>10. Taken(w) = Taken(m) \ (a .. End - 1)
  <2>1. ASSUME NEW p \in Taken(w) PROVE p \in Taken(m) /\ p \notin a .. End - 1
    BY <2>1, <1>5, <1>7 DEF Taken
  <2>2. ASSUME NEW p \in Taken(m), p \notin a .. End - 1 PROVE p \in Taken(w)
    BY <2>2, <1>5, <1>7 DEF Taken
  <2> QED
    BY <2>1, <2>2
<1>11. \A p \in DOMAIN h : p \notin a .. End - 1 /\ p # End => Keeps(m, w, {p})
  BY <1>5, <1>7 DEF Keeps
<1>12. ~h[End].cinuse
  BY <1>1 DEF Layout
<1>13. Keeps(m, w, Taken(w)) /\ Keeps(m, w, FreeOnes(w))
  <2>1. \A p \in Taken(w) : p \in DOMAIN h /\ p \notin a .. End - 1 /\ p # End
    BY <1>10, <1>12 DEF Taken
  <2>2. \A p \in FreeOnes(w) : p \in DOMAIN h /\ p # End /\ p \notin a .. End - 1
    BY <1>9 DEF FreeOnes
  <2>3. \A S : (\A p \in S : Keeps(m, w, {p})) => Keeps(m, w, S)
    BY Zenon DEF Keeps
  <2> QED
    BY <1>11, <2>1, <2>2, <2>3
<1>14. FeetFit(w)
  <2> SUFFICES ASSUME NEW p \in FreeOnes(w)
               PROVE  EndOf(g, p) \in DOMAIN w.foot /\ w.foot[EndOf(g, p)] = g[p].size
    BY DEF FeetFit
  <2>1. p \in FreeOnes(m) /\ p \in DOMAIN h /\ (p < a \/ n <= p) /\ p # End
    BY <1>7, <1>9 DEF FreeOnes
  <2>2. EndOf(h, p) \in DOMAIN m.foot /\ m.foot[EndOf(h, p)] = h[p].size
    BY <1>1, <2>1 DEF FeetFit
  <2> QED
    BY <2>1, <2>2, <1>5
<1> QED
  BY <1>4, <1>6, <1>9, <1>10, <1>13, <1>14 DEF Phys

(* ... and using a whole free chunk.                                        *)
LEMMA UseWhole ==
    ASSUME NEW m, Phys(m), NEW w, Fields \subseteq DOMAIN w, NEW a \in FreeOnes(m),
           Merged(m.head, w.head, a, EndOf(m.head, a), TRUE),
           FeetOutside(m, w, a, EndOf(m.head, a)),
           w.top = m.top, w.topsize = m.topsize
    PROVE  /\ Phys(w)
           /\ FreeOnes(w) = FreeOnes(m) \ {a}
           /\ Taken(w) = Taken(m) \cup {a}
           /\ Keeps(m, w, Taken(m)) /\ Keeps(m, w, FreeOnes(w))
           /\ w.head[a].size = m.head[a].size
<1> DEFINE h == m.head
           g == w.head
           n == EndOf(h, a)
<1>1. Layout(h, m.top) /\ FeetFit(m) /\ m.topsize = h[m.top].size
  BY DEF Phys
<1>2. \A p \in DOMAIN h : p \in Nat /\ p <= End /\ h[p].size \in Nat
  BY <1>1, ChunkOf
<1>3. /\ a \in DOMAIN h /\ a # End /\ a # m.top /\ ~h[a].cinuse
  BY DEF FreeOnes
<1>4. n \in DOMAIN h /\ a < n /\ h[a].pinuse /\ h[n].cinuse
  BY <1>1, <1>3, ChunkOf DEF ChunkFits
<1>5. n # End /\ m.top # a
  BY <1>1, <1>3, <1>4 DEF Layout
<1>6. Layout(g, m.top)
  <2>1. TRUE \in BOOLEAN
    OBVIOUS
  <2> QED
    BY <1>1, <1>3, <1>4, <1>5, <2>1, JoinKeeps
<1>7. \A q \in DOMAIN h : q <= a \/ n <= q
  BY <1>1, <1>3, ChunksApart
<1>8. /\ \A p \in DOMAIN h : (p < a \/ n <= p) =>
                 /\ p \in DOMAIN g /\ p # a
                 /\ g[p].size = h[p].size /\ g[p].cinuse = h[p].cinuse
                 /\ EndOf(g, p) = EndOf(h, p)
                 /\ p # End =>
                       LET e == EndOf(h, p) IN
                       e \in DOMAIN m.foot => e \in DOMAIN w.foot /\ w.foot[e] = m.foot[e]
      /\ \A p \in DOMAIN g : p \in DOMAIN h /\ (p = a \/ p < a \/ n <= p)
      /\ a \in DOMAIN g /\ g[a].size = n - a /\ g[a].cinuse = TRUE
  <2>1. a \in DOMAIN m.head /\ n \in DOMAIN m.head /\ a < n
    BY <1>3, <1>4
  <2>2. Merged(m.head, w.head, a, n, TRUE) /\ FeetOutside(m, w, a, n)
    OBVIOUS
  <2> HIDE DEF n
  <2>3. LeavesRest(m, w, a, n, TRUE)
    BY <2>1, <2>2, MergeLeaves, Zenon
  <2> QED
    BY <2>3, Zenon DEF LeavesRest
<1>9. g[a].size = h[a].size
  BY <1>2, <1>3, <1>8 DEF EndOf
<1> HIDE DEF n
<1>10. \A p \in DOMAIN h : p # a => p < a \/ n <= p
  BY <1>2, <1>3, <1>7
<1>11. m.top \in DOMAIN h
  BY <1>1 DEF Layout
<1>12. w.topsize = g[w.top].size
  BY <1>1, <1>5, <1>8, <1>10, <1>11
<1>13. FreeOnes(w) = FreeOnes(m) \ {a}
  <2>1. ASSUME NEW p \in FreeOnes(w) PROVE p \in FreeOnes(m) /\ p # a
    BY <2>1, <1>8, <1>10 DEF FreeOnes
  <2>2. ASSUME NEW p \in FreeOnes(m), p # a PROVE p \in FreeOnes(w)
    BY <2>2, <1>8, <1>10 DEF FreeOnes
  <2> QED
    BY <2>1, <2>2
<1>14. Taken(w) = Taken(m) \cup {a}
  <2>1. ASSUME NEW p \in Taken(w), p # a PROVE p \in Taken(m)
    BY <2>1, <1>8, <1>10 DEF Taken
  <2>2. ASSUME NEW p \in Taken(m) PROVE p \in Taken(w)
    BY <2>2, <1>3, <1>8, <1>10 DEF Taken
  <2>3. a \in Taken(w)
    BY <1>8 DEF Taken
  <2> QED
    BY <2>1, <2>2, <2>3
<1>15. \A p \in DOMAIN h : p # a /\ p # End => Keeps(m, w, {p})
  BY <1>8, <1>10 DEF Keeps
<1>16. ~h[End].cinuse
  BY <1>1 DEF Layout
<1>17. Keeps(m, w, Taken(m)) /\ Keeps(m, w, FreeOnes(w))
  <2>1. \A p \in Taken(m) : p \in DOMAIN h /\ p # a /\ p # End
    BY <1>3, <1>16 DEF Taken
  <2>2. \A p \in FreeOnes(w) : p \in DOMAIN h /\ p # a /\ p # End
    BY <1>13 DEF FreeOnes
  <2>3. \A S : (\A p \in S : Keeps(m, w, {p})) => Keeps(m, w, S)
    BY Zenon DEF Keeps
  <2> QED
    BY <1>15, <2>1, <2>2, <2>3
<1>18. FeetFit(w)
  <2> SUFFICES ASSUME NEW p \in FreeOnes(w)
               PROVE  EndOf(g, p) \in DOMAIN w.foot /\ w.foot[EndOf(g, p)] = g[p].size
    BY DEF FeetFit
  <2>1. p \in FreeOnes(m) /\ p \in DOMAIN h /\ (p < a \/ n <= p) /\ p # End
    BY <1>10, <1>13 DEF FreeOnes
  <2>2. EndOf(h, p) \in DOMAIN m.foot /\ m.foot[EndOf(h, p)] = h[p].size
    BY <1>1, <2>1 DEF FeetFit
  <2> QED
    BY <2>1, <2>2, <1>8
<1> QED
  BY <1>6, <1>9, <1>12, <1>13, <1>14, <1>17, <1>18 DEF Phys

(* Dividing a chunk: its front is in use, the rest is what it was.          *)
LEMMA DivideChunk ==
    ASSUME NEW m, Phys(m), NEW w, Fields \subseteq DOMAIN w,
           NEW a \in DOMAIN m.head, a # End,
           NEW x \in Nat, x % 16 = 0, a + 32 <= x, x + 16 <= EndOf(m.head, a),
           a # m.top => x + 32 <= EndOf(m.head, a),
           Divided(m.head, w.head, a, x), FeetOutside(m, w, a, EndOf(m.head, a)),
           a \in FreeOnes(m) => LET e == EndOf(m.head, a) IN
                                e \in DOMAIN w.foot /\ w.foot[e] = e - x,
           w.top = IF a = m.top THEN x ELSE m.top,
           w.topsize = IF a = m.top THEN End - x ELSE m.topsize
    PROVE  /\ Phys(w)
           /\ FreeOnes(w) = (FreeOnes(m) \ {a}) \cup (IF a \in FreeOnes(m) THEN {x} ELSE {})
           /\ Taken(w) = Taken(m) \cup {a} \cup (IF a \in Taken(m) THEN {x} ELSE {})
           /\ Keeps(m, w, Taken(m) \ {a}) /\ Keeps(m, w, FreeOnes(m) \ {a})
           /\ x \notin DOMAIN m.head
           /\ w.head[a].size = x - a /\ w.head[x].size = EndOf(m.head, a) - x
<1> DEFINE h == m.head
           g == w.head
           b == EndOf(h, a)
<1>1. Layout(h, m.top) /\ FeetFit(m) /\ m.topsize = h[m.top].size
  BY DEF Phys
<1>2. \A p \in DOMAIN h : p \in Nat /\ p <= End /\ h[p].size \in Nat
  BY <1>1, ChunkOf
<1>3. Layout(g, w.top)
  BY <1>1, DivideKeeps
<1>4. /\ DOMAIN g = DOMAIN h \cup {x}
      /\ \A y \in DOMAIN h : y # a => g[y] = h[y]
      /\ g[a] = [size |-> x - a, pinuse |-> h[a].pinuse, cinuse |-> TRUE]
      /\ g[x] = [size |-> b - x, pinuse |-> TRUE, cinuse |-> h[a].cinuse]
  BY DEF Divided
<1>5. b \in DOMAIN h /\ b \in Nat /\ \A q \in DOMAIN h : q <= a \/ b <= q
  BY <1>1, ChunkOf, ChunksApart DEF ChunkFits
<1>6. x \notin DOMAIN h /\ x # a /\ x # End /\ x \notin {End}
  <2>1. x \notin DOMAIN h
    BY <1>2, <1>5
  <2> QED
    BY <2>1, <1>1 DEF Layout
<1>7. g[a].size = x - a /\ g[x].size = b - x /\ g[a].cinuse = TRUE /\ g[x].cinuse = h[a].cinuse
  BY <1>4
<1>8. EndOf(g, x) = b
  <2> HIDE DEF b
  <2> QED
    BY <1>5, <1>7 DEF EndOf
<1>9. m.top \in DOMAIN h /\ m.top # End /\ ~h[m.top].cinuse /\ ~h[End].cinuse /\ EndOf(h, m.top) = End
  BY <1>1 DEF Layout
<1>10. w.topsize = g[w.top].size
  <2>1. CASE a = m.top
    BY <2>1, <1>7, <1>9
  <2>2. CASE a # m.top
    BY <2>2, <1>1, <1>4, <1>9
  <2> QED
    BY <2>1, <2>2
<1>11. /\ a \in FreeOnes(m) <=> a # m.top /\ ~h[a].cinuse
       /\ a \in Taken(m) <=> h[a].cinuse
  BY DEF FreeOnes, Taken
<1>12. FreeOnes(w) = (FreeOnes(m) \ {a}) \cup (IF a \in FreeOnes(m) THEN {x} ELSE {})
  <2>1. ASSUME NEW p \in DOMAIN h, p # a PROVE p \in FreeOnes(w) <=> p \in FreeOnes(m)
    <3>1. p \in DOMAIN g /\ g[p] = h[p] /\ p # x
      BY <2>1, <1>4, <1>6
    <3>2. p # w.top <=> p # m.top
      BY <2>1, <3>1
    <3> QED
      BY <3>1, <3>2 DEF FreeOnes
  <2>2. a \notin FreeOnes(w)
    BY <1>7 DEF FreeOnes
  <2>3. x \in FreeOnes(w) <=> a \in FreeOnes(m)
    <3>1. x \in FreeOnes(w) <=> x # w.top /\ ~h[a].cinuse
      BY <1>4, <1>6, <1>7 DEF FreeOnes
    <3>2. x = w.top <=> a = m.top
      BY <1>6, <1>9
    <3> QED
      BY <3>1, <3>2, <1>11
  <2>4. \A p : p \in FreeOnes(w) => p \in DOMAIN h \cup {x}
    BY <1>4 DEF FreeOnes
  <2>5. \A p : p \in FreeOnes(m) => p \in DOMAIN h
    BY DEF FreeOnes
  <2> QED
    BY <2>1, <2>2, <2>3, <2>4, <2>5, <1>6
<1>13. Taken(w) = Taken(m) \cup {a} \cup (IF a \in Taken(m) THEN {x} ELSE {})
  <2>1. ASSUME NEW p \in DOMAIN h, p # a PROVE p \in Taken(w) <=> p \in Taken(m)
    BY <2>1, <1>4 DEF Taken
  <2>2. a \in Taken(w)
    BY <1>4, <1>7 DEF Taken
  <2>3. x \in Taken(w) <=> a \in Taken(m)
    BY <1>4, <1>7, <1>11 DEF Taken
  <2>4. \A p : p \in Taken(w) => p \in DOMAIN h \cup {x}
    BY <1>4 DEF Taken
  <2>5. \A p : p \in Taken(m) => p \in DOMAIN h
    BY DEF Taken
  <2> QED
    BY <2>1, <2>2, <2>3, <2>4, <2>5, <1>6
<1>14. ASSUME NEW p \in DOMAIN h, p # a, p # End
       PROVE  Keeps(m, w, {p}) /\ EndOf(g, p) = EndOf(h, p)
  <2>1. p \in DOMAIN g /\ g[p] = h[p]
    BY <1>4, <1>14
  <2>2. EndOf(h, p) <= a \/ EndOf(h, p) > b
    <3>1. p < a => EndOf(h, p) <= a
      BY <1>1, <1>14, ChunksApart
    <3>2. EndOf(h, p) > p /\ EndOf(h, p) \in Nat
      BY <1>1, <1>14, ChunkOf
    <3> QED
      BY <3>1, <3>2, <1>2, <1>5, <1>14
  <2>3. EndOf(h, p) \in Int
    BY <1>1, <1>14, ChunkOf
  <2>4. EndOf(h, p) \in DOMAIN m.foot => /\ EndOf(h, p) \in DOMAIN w.foot
                                        /\ w.foot[EndOf(h, p)] = m.foot[EndOf(h, p)]
    BY <2>2, <2>3 DEF FeetOutside
  <2> QED
    BY <2>1, <2>4 DEF Keeps, EndOf
<1>15. Keeps(m, w, Taken(m) \ {a}) /\ Keeps(m, w, FreeOnes(m) \ {a})
  <2>1. \A p \in Taken(m) \ {a} : p \in DOMAIN h /\ p # a /\ p # End
    BY <1>9 DEF Taken
  <2>2. \A p \in FreeOnes(m) \ {a} : p \in DOMAIN h /\ p # a /\ p # End
    BY DEF FreeOnes
  <2>3. \A S : (\A p \in S : Keeps(m, w, {p})) => Keeps(m, w, S)
    BY Zenon DEF Keeps
  <2> QED
    BY <1>14, <2>1, <2>2, <2>3
<1>16. FeetFit(w)
  <2> SUFFICES ASSUME NEW p \in FreeOnes(w)
               PROVE  EndOf(g, p) \in DOMAIN w.foot /\ w.foot[EndOf(g, p)] = g[p].size
    BY DEF FeetFit
  <2>1. CASE p = x
    BY <2>1, <1>6, <1>7, <1>8, <1>12 DEF FreeOnes
  <2>2. CASE p # x
    <3>1. p \in FreeOnes(m) /\ p \in DOMAIN h /\ p # a /\ p # End
      BY <2>2, <1>12 DEF FreeOnes
    <3>2. EndOf(h, p) \in DOMAIN m.foot /\ m.foot[EndOf(h, p)] = h[p].size
      BY <1>1, <3>1 DEF FeetFit
    <3> QED
      BY <3>1, <3>2, <1>14 DEF Keeps
  <2> QED
    BY <2>1, <2>2
<1> QED
  BY <1>3, <1>6, <1>7, <1>10, <1>12, <1>13, <1>15, <1>16 DEF Phys

(* A state between the steps of a call: the free chunks in X are in no bin, *)
(* and all others are.                                                      *)
Bins(m, X) == BinsFit(m) /\ X \subseteq FreeOnes(m) /\ Binned(m) = FreeOnes(m) \ X

DvSet(m) == IF m.dvsize = 0 THEN {} ELSE {m.dv}

DvFits(m) ==
    /\ m.dvsize = 0 => m.dv = NULL
    /\ m.dvsize # 0 => m.dv \in FreeOnes(m) /\ m.dvsize = m.head[m.dv].size

(* A sound mspace.                                                          *)
Sound(m) == Phys(m) /\ Bins(m, DvSet(m)) /\ DvFits(m)

SameHeads(m, w) ==
    /\ w.head = m.head /\ w.foot = m.foot /\ w.top = m.top /\ w.topsize = m.topsize
    /\ w.dv = m.dv /\ w.dvsize = m.dvsize

(* The free chunks have sizes that have a bin, and are not at 0.            *)
LEMMA FreeSizes ==
    ASSUME NEW m, Phys(m), MaxSize < Pow(30), NEW p \in FreeOnes(m)
    PROVE  /\ SizeFits(m.head[p].size) /\ p \in Nat /\ p # NULL /\ p # IN_BIN /\ p > Base
           /\ p \in DOMAIN m.head /\ p % 16 = 0
           /\ EndOf(m.head, p) \in Nat /\ EndOf(m.head, p) <= m.top
<1>1. Layout(m.head, m.top)
  BY DEF Phys
<1>2. p \in DOMAIN m.head /\ p # m.top /\ p # End /\ ~m.head[p].cinuse
  BY DEF FreeOnes
<1>3. /\ p \in Nat /\ p >= Base /\ p <= End /\ p % 16 = 0 /\ m.head[p].size \in Nat
      /\ ChunkFits(m.head, m.top, p)
      /\ EndOf(m.head, p) \in Nat /\ EndOf(m.head, p) > p /\ EndOf(m.head, p) <= End
  BY <1>1, <1>2, ChunkOf
<1>4. m.head[Base].cinuse
  BY <1>1 DEF Layout
<1>5. p # Base
  BY <1>2, <1>4
<1>6. m.head[p].size % 16 = 0 /\ m.head[p].size >= 32
  BY <1>2, <1>3 DEF ChunkFits
<1>7. m.head[p].size < Pow(30)
  <2>1. m.head[p].size <= MaxSize
    BY <1>3, AreaEnds DEF EndOf
  <2>2. Pow(30) \in Nat
    BY PowDoubles
  <2> QED
    BY <1>3, <2>1, <2>2, AreaEnds
<1>8. p > Base /\ p # 0 /\ p # -1
  BY <1>3, <1>5, AreaEnds
<1>9. EndOf(m.head, p) <= m.top
  <2>1. m.top \in DOMAIN m.head /\ m.top # End /\ EndOf(m.head, m.top) = End
    BY <1>1 DEF Layout
  <2>2. m.top \in Nat /\ m.top < End
    BY <1>1, <2>1, ChunkOf, AreaEnds
  <2>3. p < m.top
    <3>1. m.top < p => End <= p
      BY <1>1, <1>2, <2>1, ChunksApart
    <3> QED
      BY <3>1, <1>2, <1>3, <2>2, AreaEnds
  <2> QED
    BY <1>1, <1>2, <2>1, <2>3, ChunksApart
<1> QED
  BY <1>2, <1>3, <1>6, <1>7, <1>8, <1>9 DEF SizeFits, NULL, IN_BIN

(* Where only bins change, the chunks are as they were.                     *)
LEMMA BinsOnly ==
    ASSUME NEW m, Phys(m), NEW w, OnlyBins(m, w)
    PROVE  /\ Phys(w) /\ SameHeads(m, w)
           /\ FreeOnes(w) = FreeOnes(m) /\ Taken(w) = Taken(m)
<1>1. Fields \subseteq DOMAIN m
  BY DEF Phys
<1>2. SameHeads(m, w) /\ Fields \subseteq DOMAIN w
  BY <1>1 DEF OnlyBins, SameHeads, Fields, BinFields
<1>3. FreeOnes(w) = FreeOnes(m) /\ Taken(w) = Taken(m)
  BY <1>2 DEF SameHeads, FreeOnes, Taken
<1>4. FeetFit(w) <=> FeetFit(m)
  BY <1>2, <1>3, Zenon DEF SameHeads, FeetFit
<1> QED
  BY <1>2, <1>3, <1>4 DEF Phys, SameHeads

(* Free chunks are taken out of their bins ...                              *)
LEMMA TakeOut ==
    ASSUME NEW m, Phys(m), NEW X, Bins(m, X), NEW p \in FreeOnes(m), p \notin X
    PROVE  LET w == unlink_chunk(m, p, ChunkSize(m, p)) IN
           /\ Phys(w) /\ SameHeads(m, w) /\ Bins(w, X \cup {p})
           /\ FreeOnes(w) = FreeOnes(m) /\ Taken(w) = Taken(m)
<1> DEFINE w == unlink_chunk(m, p, ChunkSize(m, p))
<1>1. BinsFit(m) /\ p \in Binned(m) /\ Binned(m) = FreeOnes(m) \ X /\ X \subseteq FreeOnes(m)
  BY DEF Bins
<1>2. BinsFit(w) /\ Binned(w) = Binned(m) \ {p} /\ OnlyBins(m, w)
  BY <1>1, UnlinkBins
<1> HIDE DEF w
<1>3. Phys(w) /\ SameHeads(m, w) /\ FreeOnes(w) = FreeOnes(m) /\ Taken(w) = Taken(m)
  BY <1>2, BinsOnly
<1>4. Bins(w, X \cup {p})
  BY <1>1, <1>2, <1>3 DEF Bins
<1> QED
  BY <1>3, <1>4 DEF w

(* ... and put into them.                                                   *)
LEMMA PutIn ==
    ASSUME NEW m, Phys(m), MaxSize < Pow(30), NEW X, Bins(m, X), NEW p \in X,
           NEW s, s = m.head[p].size
    PROVE  LET w == insert_chunk(m, p, s) IN
           /\ Phys(w) /\ SameHeads(m, w) /\ Bins(w, X \ {p})
           /\ FreeOnes(w) = FreeOnes(m) /\ Taken(w) = Taken(m)
<1> DEFINE w == insert_chunk(m, p, s)
<1>1. BinsFit(m) /\ p \notin Binned(m) /\ Binned(m) = FreeOnes(m) \ X /\ X \subseteq FreeOnes(m)
      /\ p \in FreeOnes(m)
  BY DEF Bins
<1>2. SizeFits(ChunkSize(m, p)) /\ p \in Int /\ p # NULL /\ p # IN_BIN /\ s = ChunkSize(m, p)
  BY <1>1, FreeSizes DEF ChunkSize
<1>3. BinsFit(w) /\ Binned(w) = Binned(m) \cup {p} /\ OnlyBins(m, w)
  BY <1>1, <1>2, InsertBins, Zenon
<1> HIDE DEF w
<1>4. Phys(w) /\ SameHeads(m, w) /\ FreeOnes(w) = FreeOnes(m) /\ Taken(w) = Taken(m)
  BY <1>3, BinsOnly
<1>5. Bins(w, X \ {p})
  BY <1>1, <1>3, <1>4 DEF Bins
<1> QED
  BY <1>4, <1>5 DEF w

(* What is written to heads and feet leaves the bins alone, when it leaves  *)
(* alone what is in them.                                                   *)
LEMMA WriteBins ==
    ASSUME NEW m, NEW X, Bins(m, X), NEW w, Phys(w),
           \A f \in BinFields : w[f] = m[f],
           NEW Y, Y \subseteq FreeOnes(w), FreeOnes(w) \ Y = FreeOnes(m) \ X,
           Keeps(m, w, FreeOnes(m) \ X)
    PROVE  Bins(w, Y)
<1>1. BinsFit(m) /\ Binned(m) = FreeOnes(m) \ X
  BY DEF Bins
<1>2. {"head"} \cup BinFields \subseteq DOMAIN w
  BY DEF Phys, Fields
<1>3. \A p \in Binned(m) : ChunkSize(w, p) = ChunkSize(m, p)
  BY <1>1 DEF Keeps, ChunkSize
<1>4. BinsFit(w) /\ Binned(w) = Binned(m)
  BY <1>1, <1>2, <1>3, BinsStay
<1> QED
  BY <1>1, <1>4 DEF Bins

(* Designating a chunk that is in hand as the victim.                       *)
SameButDv(m, w) ==
    DOMAIN w = DOMAIN m /\ \A f \in DOMAIN m : f \notin {"dv", "dvsize"} => w[f] = m[f]

(* All else is as it was.                                                   *)
LEMMA NewDv ==
    ASSUME NEW m, Phys(m), NEW X, Bins(m, X), NEW w, SameButDv(m, w)
    PROVE  /\ Phys(w) /\ Bins(w, X) /\ FreeOnes(w) = FreeOnes(m) /\ Taken(w) = Taken(m)
           /\ w.head = m.head /\ w.foot = m.foot /\ w.top = m.top /\ w.topsize = m.topsize
<1>1. Fields \subseteq DOMAIN m
  BY DEF Phys
<1>2. /\ w.head = m.head /\ w.foot = m.foot /\ w.top = m.top /\ w.topsize = m.topsize
      /\ Fields \subseteq DOMAIN w
      /\ \A f \in BinFields : w[f] = m[f]
  BY <1>1 DEF Fields, BinFields, SameButDv
<1>3. FreeOnes(w) = FreeOnes(m) /\ Taken(w) = Taken(m)
  BY <1>2 DEF FreeOnes, Taken
<1>4. FeetFit(w) <=> FeetFit(m)
  BY <1>2, <1>3, Zenon DEF FeetFit
<1>5. Phys(w)
  BY <1>2, <1>4 DEF Phys
<1>6. Keeps(m, w, FreeOnes(m) \ X)
  BY <1>2 DEF Keeps, FreeOnes
<1>7. X \subseteq FreeOnes(m)
  BY DEF Bins
<1>8. Bins(w, X)
  BY <1>2, <1>3, <1>5, <1>6, <1>7, WriteBins
<1> QED
  BY <1>2, <1>3, <1>5, <1>8

(* What writing a head does: the heads and feet inside the chunk are gone.  *)
OnlyHeads(m, w) ==
    DOMAIN w = DOMAIN m /\ \A f \in DOMAIN m : f \notin {"head", "foot"} => w[f] = m[f]

HeadSet(m, w, a, n, t) ==
    /\ DOMAIN w.head = {x \in DOMAIN m.head : x <= a \/ n <= x} \cup {a}
    /\ w.head[a] = t
    /\ \A x \in DOMAIN w.head : x # a => w.head[x] = m.head[x]

FeetKept(m, w, a, n) ==
    \A k \in DOMAIN m.foot \cap Int : k <= a \/ n <= k =>
        k \in DOMAIN w.foot /\ w.foot[k] = m.foot[k]

Writable(m) == {"head", "foot"} \subseteq DOMAIN m /\ DOMAIN m.head \subseteq Int

(* What writing a head does to the heads and feet.                          *)
LEMMA SetHeadDoes ==
    ASSUME NEW m, Writable(m), NEW a \in Int, NEW s \in Nat, NEW u, NEW c
    PROVE  LET w == SetHead(m, a, s, u, c) IN
           /\ OnlyHeads(m, w) /\ Writable(w)
           /\ HeadSet(m, w, a, a + s, [size |-> s, pinuse |-> u, cinuse |-> c])
           /\ FeetKept(m, w, a, a + s)
<1> DEFINE I == a + 1 .. a + s - 1
           t == [size |-> s, pinuse |-> u, cinuse |-> c]
           H == Put([x \in DOMAIN m.head \ I |-> m.head[x]], a, t)
           F == [x \in DOMAIN m.foot \ I |-> m.foot[x]]
           w == SetHead(m, a, s, u, c)
<1>1. w = [m EXCEPT !.head = H, !.foot = F]
  BY DEF SetHead
<1>2. \A x \in Int : x \notin I <=> x <= a \/ a + s <= x
  OBVIOUS
<1>3. DOMAIN m.head \subseteq Int /\ "head" \in DOMAIN m /\ "foot" \in DOMAIN m
  BY DEF Writable
<1> HIDE DEF I, t
<1>4. /\ DOMAIN H = {x \in DOMAIN m.head : x <= a \/ a + s <= x} \cup {a}
      /\ H[a] = t
      /\ \A x \in DOMAIN H : x # a => H[x] = m.head[x]
  BY <1>2, <1>3 DEF Put
<1>5. \A k \in DOMAIN m.foot \cap Int : k <= a \/ a + s <= k => k \in DOMAIN F /\ F[k] = m.foot[k]
  BY <1>2
<1> HIDE DEF H, F, w
<1>6. /\ w.head = H /\ w.foot = F /\ DOMAIN w = DOMAIN m
      /\ \A f \in DOMAIN m : f \notin {"head", "foot"} => w[f] = m[f]
  BY <1>1, <1>3
<1>7. DOMAIN H \subseteq Int
  BY <1>3, <1>4
<1>8. OnlyHeads(m, w) /\ Writable(w)
  BY <1>3, <1>6, <1>7 DEF OnlyHeads, Writable
<1>9. HeadSet(m, w, a, a + s, t)
  BY <1>4, <1>6 DEF HeadSet
<1>10. FeetKept(m, w, a, a + s)
  BY <1>5, <1>6 DEF FeetKept
<1> QED
  BY <1>8, <1>9, <1>10 DEF w, t

(* Setting the bit of a chunk that there is, and clearing it.               *)
PinuseIs(m, w, n, u) ==
    /\ DOMAIN w.head = DOMAIN m.head /\ w.foot = m.foot
    /\ \A x \in DOMAIN m.head : x # n => w.head[x] = m.head[x]
    /\ w.head[n] = [m.head[n] EXCEPT !.pinuse = u]

(* Writing that bit touches no other head.                                  *)
LEMMA SetPinuseDoes ==
    ASSUME NEW m, Writable(m), NEW n \in DOMAIN m.head
    PROVE  /\ LET w == set_pinuse(m, n) IN
              OnlyHeads(m, w) /\ Writable(w) /\ PinuseIs(m, w, n, TRUE)
           /\ LET w == clear_pinuse(m, n) IN
              OnlyHeads(m, w) /\ Writable(w) /\ PinuseIs(m, w, n, FALSE)
<1>1. ASSUME NEW u, NEW w, w = [m EXCEPT !.head[n].pinuse = u]
      PROVE  OnlyHeads(m, w) /\ Writable(w) /\ PinuseIs(m, w, n, u)
  <2> DEFINE H == [m.head EXCEPT ![n].pinuse = u]
  <2>1. w = [m EXCEPT !.head = H]
    BY <1>1
  <2>2. /\ DOMAIN H = DOMAIN m.head
        /\ \A x \in DOMAIN m.head : x # n => H[x] = m.head[x]
        /\ H[n] = [m.head[n] EXCEPT !.pinuse = u]
    OBVIOUS
  <2> HIDE DEF H
  <2>3. /\ w.head = H /\ w.foot = m.foot /\ DOMAIN w = DOMAIN m
        /\ \A f \in DOMAIN m : f \notin {"head", "foot"} => w[f] = m[f]
    BY <2>1 DEF Writable
  <2> QED
    BY <2>2, <2>3 DEF OnlyHeads, Writable, PinuseIs
<1>2. set_pinuse(m, n) = [m EXCEPT !.head[n].pinuse = TRUE]
  BY DEF set_pinuse
<1>3. clear_pinuse(m, n) = [m EXCEPT !.head[n].pinuse = FALSE]
  BY DEF clear_pinuse
<1> QED
  BY <1>1, <1>2, <1>3

(* Writing a foot.                                                          *)
LEMMA SetFootDoes ==
    ASSUME NEW m, Writable(m), NEW a, NEW s, NEW n, n = a + s
    PROVE  LET w == set_foot(m, a, s) IN
           /\ OnlyHeads(m, w) /\ Writable(w) /\ w.head = m.head
           /\ n \in DOMAIN w.foot /\ w.foot[n] = s
           /\ \A k \in DOMAIN m.foot : k # n => k \in DOMAIN w.foot /\ w.foot[k] = m.foot[k]
<1> DEFINE F == Put(m.foot, n, s)
           w == set_foot(m, a, s)
<1>1. w = [m EXCEPT !.foot = F]
  BY DEF set_foot
<1>2. /\ n \in DOMAIN F /\ F[n] = s
      /\ \A k \in DOMAIN m.foot : k # n => k \in DOMAIN F /\ F[k] = m.foot[k]
  BY DEF Put
<1> HIDE DEF F, w
<1>3. /\ w.foot = F /\ w.head = m.head /\ DOMAIN w = DOMAIN m
      /\ \A f \in DOMAIN m : f \notin {"head", "foot"} => w[f] = m[f]
  BY <1>1 DEF Writable
<1> QED
  BY <1>2, <1>3 DEF OnlyHeads, Writable, w
-----------------------------------------------------------------------------
(* The heads of a sound mspace can be written.                              *)
LEMMA PhysWritable ==
    ASSUME NEW m, Phys(m)
    PROVE  /\ Writable(m) /\ \A p \in DOMAIN m.head : m.head[p] \in HeadType /\ p \in Nat
<1>1. Layout(m.head, m.top) /\ Fields \subseteq DOMAIN m
  BY DEF Phys
<1>2. \A p \in DOMAIN m.head : m.head[p] \in HeadType
  BY <1>1 DEF Layout
<1>3. \A p \in DOMAIN m.head : p \in Nat
  BY <1>1, ChunkOf
<1> QED
  BY <1>1, <1>2, <1>3 DEF Writable, Fields

(* A head that spans chunks joins them, when the chunk behind knows already.*)
LEMMA SpanJoins ==
    ASSUME NEW m, Writable(m), \A p \in DOMAIN m.head : m.head[p] \in HeadType,
           NEW a \in DOMAIN m.head, NEW n \in DOMAIN m.head, a < n,
           NEW c \in BOOLEAN, m.head[a].pinuse = TRUE, m.head[n].pinuse = c, NEW s, s = n - a
    PROVE  LET w == SetHead(m, a, s, TRUE, c) IN
           /\ OnlyHeads(m, w) /\ Writable(w) /\ Merged(m.head, w.head, a, n, c)
           /\ FeetKept(m, w, a, n)
<1> DEFINE w == SetHead(m, a, s, TRUE, c)
           t == [size |-> s, pinuse |-> TRUE, cinuse |-> c]
<1>1. DOMAIN m.head \subseteq Int
  BY DEF Writable
<1>2. s \in Nat /\ a \in Int /\ a + s = n
  BY <1>1
<1>3. /\ OnlyHeads(m, w) /\ Writable(w)
      /\ HeadSet(m, w, a, a + s, t)
      /\ FeetKept(m, w, a, a + s)
  BY <1>2, SetHeadDoes
<1> HIDE DEF w, t
<1>4. HeadSet(m, w, a, n, t) /\ FeetKept(m, w, a, n)
  BY <1>2, <1>3
<1>5. m.head[n] = [size |-> m.head[n].size, pinuse |-> c, cinuse |-> m.head[n].cinuse]
  BY DEF HeadType
<1>6. Merged(m.head, w.head, a, n, c)
  <2>1. DOMAIN w.head = {x \in DOMAIN m.head : x <= a \/ n <= x}
    BY <1>1, <1>4 DEF HeadSet
  <2>2. \A x \in DOMAIN w.head : x # a => w.head[x] = m.head[x]
    BY <1>4 DEF HeadSet
  <2>3. w.head[a] = [size |-> n - a, pinuse |-> m.head[a].pinuse, cinuse |-> c]
    BY <1>4 DEF HeadSet, t
  <2>4. n \in DOMAIN w.head /\ n # a
    BY <1>1, <2>1
  <2>5. w.head[n] = m.head[n]
    BY <2>2, <2>4
  <2>6. w.head[n] = [size |-> m.head[n].size, pinuse |-> c, cinuse |-> m.head[n].cinuse]
    BY <1>5, <2>5, Zenon
  <2> QED
    BY <2>1, <2>2, <2>3, <2>6 DEF Merged
<1> QED
  BY <1>3, <1>4, <1>6 DEF w

(* What joins chunks: ...                                                   *)
Joins(m, w, a, n, c) ==
    OnlyHeads(m, w) /\ Writable(w) /\ Merged(m.head, w.head, a, n, c) /\ FeetOutside(m, w, a, n)

FootIs(w, n, s) == n \in DOMAIN w.foot /\ w.foot[n] = s

(* Two such writes are one.                                                 *)
LEMMA OnlyHeadsThrough ==
    ASSUME NEW m, NEW w, NEW v, OnlyHeads(m, w), OnlyHeads(w, v)
    PROVE  OnlyHeads(m, v)
BY DEF OnlyHeads

(* ... a head without a foot, ...                                           *)
LEMMA JoinByHead ==
    ASSUME NEW m, Phys(m), NEW a \in DOMAIN m.head, NEW n \in DOMAIN m.head, a < n,
           NEW c \in BOOLEAN, m.head[a].pinuse = TRUE, m.head[n].pinuse = c, NEW s, s = n - a
    PROVE  Joins(m, SetHead(m, a, s, TRUE, c), a, n, c)
<1> DEFINE w == SetHead(m, a, s, TRUE, c)
<1>1. Writable(m) /\ a \in Int /\ n \in Int /\ \A p \in DOMAIN m.head : m.head[p] \in HeadType
  BY PhysWritable
<1>2. OnlyHeads(m, w) /\ Writable(w) /\ Merged(m.head, w.head, a, n, c) /\ FeetKept(m, w, a, n)
  BY <1>1, SpanJoins
<1> HIDE DEF w
<1>3. FeetOutside(m, w, a, n)
  BY <1>1, <1>2 DEF FeetKept, FeetOutside
<1> QED
  BY <1>2, <1>3 DEF Joins, w

(* ... a free chunk behind which there was one, ...                         *)
LEMMA JoinByFree ==
    ASSUME NEW m, Phys(m), NEW a \in DOMAIN m.head, NEW n \in DOMAIN m.head, a < n,
           m.head[a].pinuse = TRUE, m.head[n].pinuse = FALSE, NEW s, s = n - a
    PROVE  LET w == set_size_and_pinuse_of_free_chunk(m, a, s) IN
           Joins(m, w, a, n, FALSE) /\ FootIs(w, n, n - a)
<1> DEFINE v == SetHead(m, a, s, TRUE, FALSE)
           w == set_size_and_pinuse_of_free_chunk(m, a, s)
<1>1. Joins(m, v, a, n, FALSE)
  BY JoinByHead
<1>2. a \in Int /\ n \in Int /\ n = a + s
  BY PhysWritable
<1>3. w = set_foot(v, a, s)
  BY DEF set_size_and_pinuse_of_free_chunk
<1> HIDE DEF v
<1>4. /\ OnlyHeads(v, w) /\ Writable(w) /\ w.head = v.head
      /\ n \in DOMAIN w.foot /\ w.foot[n] = s
      /\ \A k \in DOMAIN v.foot : k # n => k \in DOMAIN w.foot /\ w.foot[k] = v.foot[k]
  BY <1>1, <1>2, <1>3, SetFootDoes DEF Joins
<1> HIDE DEF w
<1>5. FeetOutside(m, w, a, n)
  BY <1>1, <1>2, <1>4 DEF Joins, FeetOutside
<1>6. OnlyHeads(m, w)
  BY <1>1, <1>4, OnlyHeadsThrough DEF Joins
<1>7. Joins(m, w, a, n, FALSE)
  BY <1>1, <1>4, <1>5, <1>6 DEF Joins
<1> QED
  BY <1>4, <1>7 DEF FootIs, w

(* ... a free chunk behind which there is one in use, ...                   *)
LEMMA JoinBeforeUsed ==
    ASSUME NEW m, Phys(m), NEW a \in DOMAIN m.head, NEW n \in DOMAIN m.head, a < n,
           m.head[a].pinuse = TRUE, NEW s, s = n - a
    PROVE  LET w == set_free_with_pinuse(m, a, s, n) IN
           Joins(m, w, a, n, FALSE) /\ FootIs(w, n, n - a)
<1> DEFINE u == clear_pinuse(m, n)
           v == SetHead(u, a, s, TRUE, FALSE)
           w == set_free_with_pinuse(m, a, s, n)
           h == m.head
<1>1. Writable(m) /\ a \in Int /\ n \in Int /\ n = a + s
      /\ \A p \in DOMAIN h : h[p] \in HeadType
  BY PhysWritable
<1>2. OnlyHeads(m, u) /\ Writable(u) /\ PinuseIs(m, u, n, FALSE)
  BY <1>1, SetPinuseDoes
<1>3. w = set_foot(v, a, s)
  BY DEF set_free_with_pinuse, set_size_and_pinuse_of_free_chunk
<1> HIDE DEF u
<1>4. /\ DOMAIN u.head = DOMAIN h /\ u.foot = m.foot
      /\ \A x \in DOMAIN h : x # n => u.head[x] = h[x]
      /\ u.head[n] = [h[n] EXCEPT !.pinuse = FALSE]
  BY <1>2 DEF PinuseIs
<1>5. h[n] = [size |-> h[n].size, pinuse |-> h[n].pinuse, cinuse |-> h[n].cinuse]
      /\ h[n] \in HeadType
  BY <1>1 DEF HeadType
<1>6. u.head[n] = [size |-> h[n].size, pinuse |-> FALSE, cinuse |-> h[n].cinuse]
  BY <1>4, <1>5 DEF HeadType
<1>7. \A p \in DOMAIN u.head : u.head[p] \in HeadType
  <2> SUFFICES ASSUME NEW p \in DOMAIN h PROVE u.head[p] \in HeadType
    BY <1>4
  <2>1. CASE p = n
    <3>1. h[n].size \in Nat /\ h[n].cinuse \in BOOLEAN
      BY <1>5 DEF HeadType
    <3>2. u.head[n] \in HeadType
      BY <1>6, <3>1 DEF HeadType
    <3> QED
      BY <2>1, <3>2
  <2>2. CASE p # n
    BY <2>2, <1>1, <1>4
  <2> QED
    BY <2>1, <2>2
<1>8. u.head[a] = h[a] /\ a # n
  BY <1>1, <1>4
<1>9. /\ OnlyHeads(u, v) /\ Writable(v) /\ Merged(u.head, v.head, a, n, FALSE)
      /\ FeetKept(u, v, a, n)
  <2>1. FALSE \in BOOLEAN /\ u.head[n].pinuse = FALSE /\ u.head[a].pinuse = TRUE
        /\ a \in DOMAIN u.head /\ n \in DOMAIN u.head
    BY <1>4, <1>6, <1>8
  <2> QED
    BY <1>1, <1>2, <1>7, <2>1, SpanJoins
<1> HIDE DEF v
<1>10. Merged(h, v.head, a, n, FALSE)
  <2>1. /\ DOMAIN v.head = {x \in DOMAIN u.head : x <= a \/ n <= x}
        /\ \A x \in DOMAIN v.head : x # a /\ x # n => v.head[x] = u.head[x]
        /\ v.head[a] = [size |-> n - a, pinuse |-> u.head[a].pinuse, cinuse |-> FALSE]
        /\ v.head[n] = [size |-> u.head[n].size, pinuse |-> FALSE, cinuse |-> u.head[n].cinuse]
    BY <1>9 DEF Merged
  <2>2. DOMAIN v.head = {x \in DOMAIN h : x <= a \/ n <= x}
    BY <2>1, <1>4
  <2>3. \A x \in DOMAIN v.head : x # a /\ x # n => v.head[x] = h[x]
    BY <2>1, <2>2, <1>4
  <2>4. u.head[n].size = h[n].size /\ u.head[n].cinuse = h[n].cinuse
    BY <1>6
  <2> QED
    BY <2>1, <2>2, <2>3, <2>4, <1>8, Zenon DEF Merged
<1>11. /\ OnlyHeads(v, w) /\ Writable(w) /\ w.head = v.head
       /\ n \in DOMAIN w.foot /\ w.foot[n] = s
       /\ \A k \in DOMAIN v.foot : k # n => k \in DOMAIN w.foot /\ w.foot[k] = v.foot[k]
  BY <1>1, <1>3, <1>9, SetFootDoes
<1> HIDE DEF w
<1>12. FeetOutside(m, w, a, n)
  BY <1>1, <1>4, <1>9, <1>11 DEF FeetKept, FeetOutside
<1>13. OnlyHeads(m, w)
  BY <1>2, <1>9, <1>11, OnlyHeadsThrough
<1>14. Joins(m, w, a, n, FALSE)
  BY <1>10, <1>11, <1>12, <1>13 DEF Joins
<1> QED
  BY <1>11, <1>14 DEF FootIs, w

(* ... and using a whole chunk.                                             *)
LEMMA JoinByUse ==
    ASSUME NEW m, Phys(m), NEW a \in DOMAIN m.head, NEW n \in DOMAIN m.head, a < n,
           m.head[a].pinuse = TRUE, NEW s, s = n - a
    PROVE  Joins(m, set_inuse_and_pinuse(m, a, s), a, n, TRUE)
<1> DEFINE v == SetHead(m, a, s, TRUE, TRUE)
           w == set_inuse_and_pinuse(m, a, s)
           h == m.head
           t == [size |-> s, pinuse |-> TRUE, cinuse |-> TRUE]
<1>1. Writable(m) /\ a \in Int /\ n \in Int /\ n = a + s /\ s \in Nat
      /\ \A p \in DOMAIN h : h[p] \in HeadType /\ p \in Int
  BY PhysWritable
<1>2. /\ OnlyHeads(m, v) /\ Writable(v) /\ HeadSet(m, v, a, a + s, t)
      /\ FeetKept(m, v, a, a + s)
  BY <1>1, SetHeadDoes
<1>3. w = set_pinuse(v, a + s)
  BY DEF set_inuse_and_pinuse
<1> HIDE DEF v, t
<1>4. HeadSet(m, v, a, n, t) /\ FeetKept(m, v, a, n) /\ w = set_pinuse(v, n)
  BY <1>1, <1>2, <1>3
<1>5. /\ DOMAIN v.head = {x \in DOMAIN h : x <= a \/ n <= x}
      /\ v.head[a] = t
      /\ \A x \in DOMAIN v.head : x # a => v.head[x] = h[x]
      /\ n \in DOMAIN v.head /\ a \in DOMAIN v.head /\ n # a
  BY <1>1, <1>4 DEF HeadSet
<1>6. OnlyHeads(v, w) /\ Writable(w) /\ PinuseIs(v, w, n, TRUE)
  BY <1>2, <1>4, <1>5, SetPinuseDoes
<1> HIDE DEF w
<1>7. /\ DOMAIN w.head = DOMAIN v.head /\ w.foot = v.foot
      /\ \A x \in DOMAIN v.head : x # n => w.head[x] = v.head[x]
      /\ w.head[n] = [v.head[n] EXCEPT !.pinuse = TRUE]
  BY <1>6 DEF PinuseIs
<1>8. Merged(h, w.head, a, n, TRUE)
  <2>1. v.head[n] = h[n]
    BY <1>5
  <2>2. h[n] \in HeadType
    BY <1>1
  <2>3. w.head[n] = [size |-> h[n].size, pinuse |-> TRUE, cinuse |-> h[n].cinuse]
    <3> DEFINE y == h[n]
    <3>1. y \in HeadType /\ w.head[n] = [y EXCEPT !.pinuse = TRUE]
      BY <2>1, <2>2, <1>7
    <3> HIDE DEF y
    <3>2. w.head[n] = [size |-> y.size, pinuse |-> TRUE, cinuse |-> y.cinuse]
      BY <3>1 DEF HeadType
    <3> QED
      BY <3>2 DEF y
  <2>4. w.head[a] = [size |-> n - a, pinuse |-> h[a].pinuse, cinuse |-> TRUE]
    <3>1. w.head[a] = t
      BY <1>5, <1>7
    <3>2. s = n - a /\ h[a].pinuse = TRUE
      OBVIOUS
    <3> QED
      BY <3>1, <3>2, Zenon DEF t
  <2>5. DOMAIN w.head = {x \in DOMAIN h : x <= a \/ n <= x}
    BY <1>5, <1>7
  <2>6. \A x \in DOMAIN w.head : x # a /\ x # n => w.head[x] = h[x]
    BY <1>5, <1>7
  <2> QED
    BY <2>3, <2>4, <2>5, <2>6, Zenon DEF Merged
<1>9. FeetOutside(m, w, a, n)
  BY <1>1, <1>4, <1>7 DEF FeetKept, FeetOutside
<1>10. OnlyHeads(m, w)
  BY <1>2, <1>6, OnlyHeadsThrough
<1> QED
  BY <1>6, <1>8, <1>9, <1>10 DEF Joins, w

-----------------------------------------------------------------------------
(* What divides a chunk.                                                    *)
Divides(m, w, a, x) ==
    /\ OnlyHeads(m, w) /\ Writable(w) /\ Divided(m.head, w.head, a, x)
    /\ FeetOutside(m, w, a, EndOf(m.head, a))

(* A place inside a chunk.                                                  *)
CutsAt(m, a, x) ==
    /\ a \in DOMAIN m.head /\ a # End /\ x \in Nat /\ a < x /\ x < EndOf(m.head, a)

(* What the layout says of the chunk around it.                             *)
LEMMA CutFacts ==
    ASSUME NEW m, Phys(m), NEW a, NEW x, CutsAt(m, a, x)
    PROVE  /\ Writable(m) /\ a \in Nat /\ x \in Nat /\ a < x /\ x < EndOf(m.head, a)
           /\ a \in DOMAIN m.head /\ x \notin DOMAIN m.head
           /\ EndOf(m.head, a) \in Nat /\ EndOf(m.head, a) \in DOMAIN m.head
           /\ m.head[a] \in HeadType /\ EndOf(m.head, a) = a + m.head[a].size
           /\ \A y \in DOMAIN m.head : y \in Nat /\ (y <= a \/ EndOf(m.head, a) <= y)
           /\ m.head[EndOf(m.head, a)].pinuse = m.head[a].cinuse
           /\ m.head[EndOf(m.head, a)] \in HeadType
<1>1. Layout(m.head, m.top) /\ a \in DOMAIN m.head /\ a # End
  BY DEF Phys, CutsAt
<1>2. EndOf(m.head, a) \in Nat /\ a \in Nat
  BY <1>1, ChunkOf
<1>3. ChunkFits(m.head, m.top, a)
  BY <1>1, ChunkOf
<1>4. EndOf(m.head, a) \in DOMAIN m.head /\ m.head[EndOf(m.head, a)].pinuse = m.head[a].cinuse
      /\ \A y \in DOMAIN m.head : y <= a \/ EndOf(m.head, a) <= y
  BY <1>3 DEF ChunkFits
<1>5. Writable(m) /\ \A p \in DOMAIN m.head : m.head[p] \in HeadType /\ p \in Nat
  BY PhysWritable
<1>6. x \in Nat /\ a < x /\ x < EndOf(m.head, a)
  BY DEF CutsAt
<1>7. x \notin DOMAIN m.head
  BY <1>2, <1>4, <1>5, <1>6
<1> QED
  BY <1>1, <1>2, <1>4, <1>5, <1>6, <1>7 DEF EndOf

(* Writing the head of the rest first, then the one in front.               *)
RestWritten(m, v, a, x, s, c) ==
    /\ OnlyHeads(m, v) /\ Writable(v)
    /\ HeadSet(m, v, x, EndOf(m.head, a), [size |-> s, pinuse |-> TRUE, cinuse |-> c])
    /\ \A k \in DOMAIN m.foot \cap Int : k <= x \/ EndOf(m.head, a) < k =>
           k \in DOMAIN v.foot /\ v.foot[k] = m.foot[k]

FrontWritten(m, v, w, a, x) ==
    /\ Divides(m, w, a, x)
    /\ \A k \in DOMAIN v.foot \cap Int : x <= k => k \in DOMAIN w.foot /\ w.foot[k] = v.foot[k]

(* Together they divide the chunk.                                          *)
LEMMA TwoHeads ==
    ASSUME NEW m, Phys(m), NEW a, NEW x, CutsAt(m, a, x), NEW s, s = EndOf(m.head, a) - x,
           NEW c, NEW v, NEW r, NEW w, RestWritten(m, v, a, x, s, c),
           c = m.head[a].cinuse, r = x - a, m.head[a].pinuse = TRUE,
           w = SetHead(v, a, r, TRUE, TRUE)
    PROVE  FrontWritten(m, v, w, a, x)
<1> DEFINE h == m.head
           e == EndOf(h, a)
           t == [size |-> s, pinuse |-> TRUE, cinuse |-> c]
           u == [size |-> r, pinuse |-> TRUE, cinuse |-> TRUE]
<1>1. /\ Writable(m) /\ a \in Nat /\ x \in Nat /\ a < x /\ x < e
      /\ a \in DOMAIN h /\ x \notin DOMAIN h /\ e \in Nat /\ e \in DOMAIN h
      /\ \A y \in DOMAIN h : y \in Nat /\ (y <= a \/ e <= y)
  BY CutFacts
<1>2. r \in Nat /\ a \in Int /\ a + r = x
  BY <1>1
<1>v. OnlyHeads(m, v) /\ Writable(v)
  BY DEF RestWritten
<1>3. /\ OnlyHeads(v, w) /\ Writable(w) /\ HeadSet(v, w, a, a + r, u) /\ FeetKept(v, w, a, a + r)
  BY <1>2, <1>v, SetHeadDoes
<1> HIDE DEF e, t, u
<1>4. HeadSet(v, w, a, x, u) /\ FeetKept(v, w, a, x)
  BY <1>2, <1>3
<1>5. /\ DOMAIN v.head = {y \in DOMAIN h : y <= x \/ e <= y} \cup {x}
      /\ v.head[x] = t
      /\ \A y \in DOMAIN v.head : y # x => v.head[y] = h[y]
  BY Zenon DEF RestWritten, HeadSet, e, t
<1>6. DOMAIN v.head = DOMAIN h \cup {x}
  BY <1>1, <1>5
<1>7. /\ DOMAIN w.head = {y \in DOMAIN v.head : y <= a \/ x <= y} \cup {a}
      /\ w.head[a] = u
      /\ \A y \in DOMAIN w.head : y # a => w.head[y] = v.head[y]
  BY <1>4 DEF HeadSet
<1>8. DOMAIN w.head = DOMAIN h \cup {x}
  <2>1. \A y \in DOMAIN h : y <= a \/ x <= y
    BY <1>1
  <2>2. \A y : y \in DOMAIN v.head => y <= a \/ x <= y
    BY <2>1, <1>1, <1>6
  <2>3. a \in DOMAIN v.head
    BY <1>1, <1>6
  <2> QED
    BY <2>2, <2>3, <1>6, <1>7
<1>9. \A y \in DOMAIN h : y # a => w.head[y] = h[y]
  BY <1>1, <1>5, <1>6, <1>7, <1>8
<1>10. w.head[x] = t
  BY <1>1, <1>5, <1>7, <1>8
<1>11. w.head[a] = [size |-> x - a, pinuse |-> h[a].pinuse, cinuse |-> TRUE]
  <2>1. r = x - a /\ h[a].pinuse = TRUE
    OBVIOUS
  <2> QED
    BY <1>7, <2>1, Zenon DEF u
<1>12. w.head[x] = [size |-> EndOf(h, a) - x, pinuse |-> TRUE, cinuse |-> h[a].cinuse]
  BY <1>10, Zenon DEF t
<1>13. Divided(m.head, w.head, a, x)
  <2>1. /\ DOMAIN w.head = DOMAIN m.head \cup {x}
        /\ \A y \in DOMAIN m.head : y # a => w.head[y] = m.head[y]
    BY <1>8, <1>9
  <2> QED
    BY <2>1, <1>11, <1>12, Zenon DEF Divided
<1>14. FeetOutside(m, w, a, e)
  <2>1. \A k \in DOMAIN m.foot \cap Int : k <= x \/ e < k =>
            k \in DOMAIN v.foot /\ v.foot[k] = m.foot[k]
    BY DEF RestWritten, e
  <2>2. \A k \in DOMAIN v.foot \cap Int : k <= a \/ x <= k =>
            k \in DOMAIN w.foot /\ w.foot[k] = v.foot[k]
    BY <1>4 DEF FeetKept
  <2>3. ASSUME NEW k \in DOMAIN m.foot \cap Int, k <= a \/ k > e
        PROVE  k \in DOMAIN w.foot /\ w.foot[k] = m.foot[k]
    <3>1. (k <= x \/ e < k) /\ (k <= a \/ x <= k) /\ k \in Int
      BY <1>1, <2>3
    <3>2. k \in DOMAIN v.foot /\ v.foot[k] = m.foot[k]
      BY <2>1, <3>1
    <3> QED
      BY <2>2, <3>1, <3>2
  <2> QED
    BY <2>3 DEF FeetOutside
<1>15. \A k \in DOMAIN v.foot \cap Int : x <= k => k \in DOMAIN w.foot /\ w.foot[k] = v.foot[k]
  BY <1>4 DEF FeetKept
<1>16. OnlyHeads(m, w)
  BY <1>v, <1>3, OnlyHeadsThrough
<1> QED
  BY <1>3, <1>13, <1>14, <1>15, <1>16 DEF Divides, FrontWritten, e

(* The start of top is used.                                                *)
LEMMA DivideTop ==
    ASSUME NEW m, Phys(m), NEW a, NEW x, CutsAt(m, a, x), NEW s, s = EndOf(m.head, a) - x,
           NEW r, r = x - a, m.head[a].pinuse = TRUE, m.head[a].cinuse = FALSE
    PROVE  Divides(m, set_size_and_pinuse_of_inuse_chunk(SetHead(m, x, s, TRUE, FALSE), a, r), a, x)
<1> DEFINE v == SetHead(m, x, s, TRUE, FALSE)
           w == set_size_and_pinuse_of_inuse_chunk(v, a, r)
           e == EndOf(m.head, a)
           t == [size |-> s, pinuse |-> TRUE, cinuse |-> FALSE]
<1>1. Writable(m) /\ x \in Nat /\ x < e /\ e \in Nat
  BY CutFacts
<1> HIDE DEF e
<1>2. s \in Nat /\ x + s = e /\ x \in Int
  BY <1>1 DEF e
<1>3. OnlyHeads(m, v) /\ Writable(v) /\ HeadSet(m, v, x, x + s, t) /\ FeetKept(m, v, x, x + s)
  BY <1>1, <1>2, SetHeadDoes
<1> HIDE DEF v, t
<1>4. HeadSet(m, v, x, e, t) /\ FeetKept(m, v, x, e)
  BY <1>2, <1>3
<1>5. \A k \in DOMAIN m.foot \cap Int : k <= x \/ e < k => k \in DOMAIN v.foot /\ v.foot[k] = m.foot[k]
  BY <1>1, <1>4 DEF FeetKept
<1>6. w = SetHead(v, a, r, TRUE, TRUE)
  BY DEF set_size_and_pinuse_of_inuse_chunk
<1>7. RestWritten(m, v, a, x, s, FALSE)
  BY <1>3, <1>4, <1>5, Zenon DEF RestWritten, e, t
<1>8. FALSE = m.head[a].cinuse
  OBVIOUS
<1> HIDE DEF w
<1>9. FrontWritten(m, v, w, a, x)
  BY <1>6, <1>7, <1>8, TwoHeads
<1> QED
  BY <1>9 DEF FrontWritten, v, w

(* The start of a free chunk is used.                                       *)
LEMMA DivideFree ==
    ASSUME NEW m, Phys(m), NEW a, NEW x, CutsAt(m, a, x), NEW s, s = EndOf(m.head, a) - x,
           NEW r, r = x - a, m.head[a].pinuse = TRUE, m.head[a].cinuse = FALSE
    PROVE  LET w == set_size_and_pinuse_of_inuse_chunk(
                      set_size_and_pinuse_of_free_chunk(m, x, s), a, r) IN
           Divides(m, w, a, x) /\ FootIs(w, EndOf(m.head, a), s)
<1> DEFINE y == SetHead(m, x, s, TRUE, FALSE)
           v == set_size_and_pinuse_of_free_chunk(m, x, s)
           w == set_size_and_pinuse_of_inuse_chunk(v, a, r)
           e == EndOf(m.head, a)
           t == [size |-> s, pinuse |-> TRUE, cinuse |-> FALSE]
<1>1. Writable(m) /\ x \in Nat /\ x < e /\ e \in Nat
  BY CutFacts
<1> HIDE DEF e
<1>2. s \in Nat /\ x + s = e /\ x \in Int
  BY <1>1 DEF e
<1>3. OnlyHeads(m, y) /\ Writable(y) /\ HeadSet(m, y, x, x + s, t) /\ FeetKept(m, y, x, x + s)
  BY <1>1, <1>2, SetHeadDoes
<1>f. v = set_foot(y, x, s)
  BY DEF set_size_and_pinuse_of_free_chunk
<1> HIDE DEF y, v, t
<1>4. HeadSet(m, y, x, e, t) /\ FeetKept(m, y, x, e)
  BY <1>2, <1>3
<1>5. /\ OnlyHeads(y, v) /\ Writable(v) /\ v.head = y.head
      /\ e \in DOMAIN v.foot /\ v.foot[e] = s
      /\ \A k \in DOMAIN y.foot : k # e => k \in DOMAIN v.foot /\ v.foot[k] = y.foot[k]
  BY <1>f, <1>2, <1>3, SetFootDoes
<1>6. \A k \in DOMAIN m.foot \cap Int : k <= x \/ e < k => k \in DOMAIN v.foot /\ v.foot[k] = m.foot[k]
  BY <1>1, <1>4, <1>5 DEF FeetKept
<1>7. w = SetHead(v, a, r, TRUE, TRUE)
  BY DEF set_size_and_pinuse_of_inuse_chunk
<1> HIDE DEF w
<1>8. HeadSet(m, v, x, e, t) /\ OnlyHeads(m, v)
  <2>1. HeadSet(m, v, x, e, t)
    BY <1>4, <1>5 DEF HeadSet
  <2> QED
    BY <2>1, <1>3, <1>5, OnlyHeadsThrough
<1>9. RestWritten(m, v, a, x, s, FALSE)
  BY <1>5, <1>6, <1>8, Zenon DEF RestWritten, e, t
<1>10. FALSE = m.head[a].cinuse
  OBVIOUS
<1>11. FrontWritten(m, v, w, a, x)
  BY <1>7, <1>9, <1>10, TwoHeads
<1>12. FootIs(w, e, s)
  BY <1>1, <1>5, <1>11 DEF FootIs, FrontWritten
<1> QED
  BY <1>11, <1>12 DEF FrontWritten, e, w, v

(* What set_inuse does to a chunk that is not there yet, or is.             *)
InuseSet(m, w, a, n, u) ==
    /\ OnlyHeads(m, w) /\ Writable(w)
    /\ DOMAIN w.head = DOMAIN m.head \cup {a, n}
    /\ \A y \in DOMAIN m.head : y # a /\ y # n => w.head[y] = m.head[y]
    /\ w.head[a] = [size |-> n - a, pinuse |-> u, cinuse |-> TRUE]
    /\ n \in DOMAIN m.head =>
          w.head[n] = [size |-> m.head[n].size, pinuse |-> TRUE, cinuse |-> m.head[n].cinuse]
    /\ n \notin DOMAIN m.head => w.head[n] = [size |-> 0, pinuse |-> TRUE, cinuse |-> FALSE]
    /\ FeetKept(m, w, a, n)

(* And that it does.                                                        *)
LEMMA InuseDoes ==
    ASSUME NEW m, Writable(m), \A p \in DOMAIN m.head : m.head[p] \in HeadType,
           NEW a \in Int, NEW n \in Int, a < n, NEW s, s = n - a,
           \A y \in DOMAIN m.head : y <= a \/ n <= y,
           NEW u, u = (a \in DOMAIN m.head /\ m.head[a].pinuse)
    PROVE  InuseSet(m, set_inuse(m, a, s), a, n, u)
<1> DEFINE t == [size |-> s, pinuse |-> u, cinuse |-> TRUE]
           v == SetHead(m, a, s, u, TRUE)
           w == set_inuse(m, a, s)
<1>1. n \in Int /\ a < n /\ s \in Nat /\ a + s = n
  OBVIOUS
<1>2. OnlyHeads(m, v) /\ Writable(v) /\ HeadSet(m, v, a, n, t) /\ FeetKept(m, v, a, n)
  <2>1. OnlyHeads(m, v) /\ Writable(v) /\ HeadSet(m, v, a, a + s, t) /\ FeetKept(m, v, a, a + s)
    BY <1>1, SetHeadDoes
  <2> HIDE DEF v, t
  <2> QED
    BY <1>1, <2>1
<1>3. w = set_pinuse(v, n)
  <2>1. w = set_pinuse(SetHead(m, a, s, a \in DOMAIN m.head /\ m.head[a].pinuse, TRUE), a + s)
    BY DEF set_inuse, pinuse
  <2> QED
    BY <1>1, <2>1
<1>t. t = [size |-> n - a, pinuse |-> u, cinuse |-> TRUE]
  <2>1. s = n - a
    OBVIOUS
  <2> QED
    BY <2>1, Zenon
<1> HIDE DEF v, t, w
<1>d. DOMAIN m.head \subseteq Int
  BY DEF Writable
<1>4. /\ DOMAIN v.head = {y \in DOMAIN m.head : y <= a \/ n <= y} \cup {a}
      /\ v.head[a] = t
      /\ \A y \in DOMAIN v.head : y # a => v.head[y] = m.head[y]
  BY <1>2 DEF HeadSet
<1>5. DOMAIN v.head = DOMAIN m.head \cup {a}
  BY <1>4
<1>6. \A k \in DOMAIN m.foot \cap Int : k <= a \/ n <= k => k \in DOMAIN v.foot /\ v.foot[k] = m.foot[k]
  BY <1>2 DEF FeetKept
<1>7. CASE n \in DOMAIN m.head
  <2>1. OnlyHeads(v, w) /\ Writable(w) /\ PinuseIs(v, w, n, TRUE)
    BY <1>2, <1>3, <1>5, <1>7, SetPinuseDoes
  <2>2. /\ DOMAIN w.head = DOMAIN v.head /\ w.foot = v.foot
        /\ \A x \in DOMAIN v.head : x # n => w.head[x] = v.head[x]
        /\ w.head[n] = [v.head[n] EXCEPT !.pinuse = TRUE]
    BY <2>1 DEF PinuseIs
  <2>3. v.head[n] = m.head[n] /\ m.head[n] \in HeadType
    BY <1>1, <1>4, <1>5, <1>7
  <2>4. w.head[n] = [size |-> m.head[n].size, pinuse |-> TRUE, cinuse |-> m.head[n].cinuse]
    <3> DEFINE y == m.head[n]
    <3>1. y \in HeadType /\ w.head[n] = [y EXCEPT !.pinuse = TRUE]
      BY <2>2, <2>3
    <3> HIDE DEF y
    <3>2. w.head[n] = [size |-> y.size, pinuse |-> TRUE, cinuse |-> y.cinuse]
      BY <3>1 DEF HeadType
    <3> QED
      BY <3>2 DEF y
  <2>5. w.head[a] = t
    BY <1>1, <1>4, <1>5, <2>2
  <2>6. DOMAIN w.head = DOMAIN m.head \cup {a, n}
    BY <1>5, <1>7, <2>2
  <2>7. \A y \in DOMAIN m.head : y # a /\ y # n => w.head[y] = m.head[y]
    BY <1>4, <1>5, <2>2
  <2>8. \A k \in DOMAIN m.foot \cap Int : k <= a \/ n <= k => k \in DOMAIN w.foot /\ w.foot[k] = m.foot[k]
    BY <1>6, <2>2
  <2>9. OnlyHeads(m, w) /\ Writable(w)
    BY <1>2, <2>1, OnlyHeadsThrough
  <2>10. w.head[a] = [size |-> n - a, pinuse |-> u, cinuse |-> TRUE]
    BY <1>t, <2>5, Zenon
  <2>11. FeetKept(m, w, a, n)
    BY <2>8 DEF FeetKept
  <2>12. InuseSet(m, w, a, n, u)
    BY <1>7, <2>4, <2>6, <2>7, <2>9, <2>10, <2>11, Zenon DEF InuseSet
  <2> QED
    BY <2>12 DEF w
<1>8. CASE n \notin DOMAIN m.head
  <2> DEFINE z == [size |-> 0, pinuse |-> TRUE, cinuse |-> FALSE]
  <2>1. n \notin DOMAIN v.head
    BY <1>1, <1>5, <1>8
  <2>2. w = SetHead(v, n, 0, TRUE, FALSE)
    BY <1>3, <2>1 DEF set_pinuse
  <2>3. n + 0 = n /\ 0 \in Nat
    BY <1>1
  <2>4. OnlyHeads(v, w) /\ Writable(w) /\ HeadSet(v, w, n, n + 0, z) /\ FeetKept(v, w, n, n + 0)
    BY <1>1, <1>2, <2>2, <2>3, SetHeadDoes
  <2> HIDE DEF z
  <2>5. HeadSet(v, w, n, n, z) /\ FeetKept(v, w, n, n)
    BY <2>3, <2>4
  <2>6. /\ DOMAIN w.head = {y \in DOMAIN v.head : y <= n \/ n <= y} \cup {n}
        /\ w.head[n] = z
        /\ \A y \in DOMAIN w.head : y # n => w.head[y] = v.head[y]
    BY <2>5 DEF HeadSet
  <2>7. DOMAIN w.head = DOMAIN m.head \cup {a, n}
    <3>1. \A y \in DOMAIN v.head : y <= n \/ n <= y
      BY <1>1, <1>5, <1>d
    <3> QED
      BY <3>1, <1>5, <2>6
  <2>8. w.head[a] = t
    BY <1>1, <1>4, <2>6, <2>7
  <2>9. \A y \in DOMAIN m.head : y # a /\ y # n => w.head[y] = m.head[y]
    BY <1>4, <1>5, <2>6, <2>7
  <2>10. \A k \in DOMAIN m.foot \cap Int : k <= a \/ n <= k => k \in DOMAIN w.foot /\ w.foot[k] = m.foot[k]
    <3>1. \A k \in DOMAIN v.foot \cap Int : k <= n \/ n <= k => k \in DOMAIN w.foot /\ w.foot[k] = v.foot[k]
      BY <2>5 DEF FeetKept
    <3>2. \A k \in Int : k <= n \/ n <= k
      BY <1>1
    <3> QED
      BY <3>1, <3>2, <1>6
  <2>11. OnlyHeads(m, w) /\ Writable(w)
    BY <1>2, <2>4, OnlyHeadsThrough
  <2>12. w.head[a] = [size |-> n - a, pinuse |-> u, cinuse |-> TRUE]
    BY <1>t, <2>8, Zenon
  <2>13. FeetKept(m, w, a, n)
    BY <2>10 DEF FeetKept
  <2>14. w.head[n] = [size |-> 0, pinuse |-> TRUE, cinuse |-> FALSE]
    BY <2>6 DEF z
  <2>15. InuseSet(m, w, a, n, u)
    BY <1>8, <2>7, <2>9, <2>11, <2>12, <2>13, <2>14, Zenon DEF InuseSet
  <2> QED
    BY <2>15 DEF w
<1> QED
  BY <1>7, <1>8

(* The end of a chunk in use becomes a chunk in use: its start first, ...   *)
LEMMA DivideFromStart ==
    ASSUME NEW m, Phys(m), NEW a, NEW x, CutsAt(m, a, x), m.head[a].cinuse = TRUE,
           NEW s, s = EndOf(m.head, a) - x, NEW r, r = x - a
    PROVE  Divides(m, set_inuse(set_inuse(m, a, r), x, s), a, x)
<1> DEFINE v == set_inuse(m, a, r)
           w == set_inuse(v, x, s)
           h == m.head
           e == EndOf(h, a)
           u == h[a].pinuse
<1>1. /\ Writable(m) /\ a \in Nat /\ x \in Nat /\ a < x /\ x < e
      /\ a \in DOMAIN h /\ x \notin DOMAIN h /\ e \in Nat /\ e \in DOMAIN h
      /\ \A y \in DOMAIN h : y \in Nat /\ (y <= a \/ e <= y)
      /\ h[a] \in HeadType /\ h[e] \in HeadType /\ h[e].pinuse = TRUE
  BY CutFacts
<1>2. \A y \in DOMAIN h : h[y] \in HeadType
  BY PhysWritable
<1>3. u = (a \in DOMAIN m.head /\ m.head[a].pinuse) /\ u \in BOOLEAN
  BY <1>1 DEF HeadType
<1>s. s = e - x
  OBVIOUS
<1> HIDE DEF e, u
<1>4. \A y \in DOMAIN m.head : y <= a \/ x <= y
  BY <1>1
<1>5. InuseSet(m, v, a, x, u)
  BY <1>1, <1>2, <1>3, <1>4, InuseDoes
<1> HIDE DEF v
<1>6. /\ OnlyHeads(m, v) /\ Writable(v)
      /\ DOMAIN v.head = DOMAIN h \cup {a, x}
      /\ \A y \in DOMAIN h : y # a /\ y # x => v.head[y] = h[y]
      /\ v.head[a] = [size |-> x - a, pinuse |-> u, cinuse |-> TRUE]
      /\ v.head[x] = [size |-> 0, pinuse |-> TRUE, cinuse |-> FALSE]
      /\ FeetKept(m, v, a, x)
  BY <1>1, <1>5, Zenon DEF InuseSet
<1>7. \A y \in DOMAIN v.head : v.head[y] \in HeadType
  <2>1. v.head[a] \in HeadType /\ v.head[x] \in HeadType
    BY <1>1, <1>3, <1>6 DEF HeadType
  <2> QED
    BY <2>1, <1>2, <1>6
<1>8. \A y \in DOMAIN v.head : y <= x \/ e <= y
  BY <1>1, <1>6
<1>9. TRUE = (x \in DOMAIN v.head /\ v.head[x].pinuse)
  BY <1>6
<1>10. InuseSet(v, w, x, e, TRUE)
  <2> DEFINE b == x \in DOMAIN v.head /\ v.head[x].pinuse
  <2>1. b = TRUE /\ b = (x \in DOMAIN v.head /\ v.head[x].pinuse)
    BY <1>9
  <2> HIDE DEF b
  <2>2. InuseSet(v, w, x, e, b)
    BY <1>1, <1>6, <1>7, <1>8, <1>s, <2>1, InuseDoes
  <2> QED
    BY <2>1, <2>2, Zenon
<1> HIDE DEF w
<1>11. e \in DOMAIN v.head /\ e # a /\ e # x /\ v.head[e] = h[e]
  BY <1>1, <1>6
<1>12. /\ OnlyHeads(v, w) /\ Writable(w)
       /\ DOMAIN w.head = DOMAIN v.head \cup {x, e}
       /\ \A y \in DOMAIN v.head : y # x /\ y # e => w.head[y] = v.head[y]
       /\ w.head[x] = [size |-> e - x, pinuse |-> TRUE, cinuse |-> TRUE]
       /\ w.head[e] = [size |-> v.head[e].size, pinuse |-> TRUE, cinuse |-> v.head[e].cinuse]
       /\ FeetKept(v, w, x, e)
  BY <1>10, <1>11, Zenon DEF InuseSet
<1>13. w.head[e] = h[e]
  BY <1>1, <1>11, <1>12 DEF HeadType
<1>14. /\ DOMAIN w.head = DOMAIN m.head \cup {x}
       /\ \A y \in DOMAIN m.head : y # a => w.head[y] = m.head[y]
  BY <1>1, <1>6, <1>11, <1>12, <1>13
<1>15. w.head[a] = [size |-> x - a, pinuse |-> m.head[a].pinuse, cinuse |-> TRUE]
  <2>1. w.head[a] = v.head[a]
    BY <1>1, <1>6, <1>11, <1>12
  <2> QED
    BY <2>1, <1>6, Zenon DEF u
<1>16. w.head[x] = [size |-> EndOf(m.head, a) - x, pinuse |-> TRUE, cinuse |-> m.head[a].cinuse]
  <2>1. m.head[a].cinuse = TRUE
    OBVIOUS
  <2> QED
    BY <2>1, <1>12, Zenon DEF e
<1>17. Divided(m.head, w.head, a, x)
  BY <1>14, <1>15, <1>16, Zenon DEF Divided
<1>18. FeetOutside(m, w, a, e)
  BY <1>1, <1>6, <1>12 DEF FeetKept, FeetOutside
<1>19. OnlyHeads(m, w)
  BY <1>6, <1>12, OnlyHeadsThrough
<1> QED
  BY <1>12, <1>17, <1>18, <1>19 DEF Divides, e, w, v

(* ... or its end first.                                                    *)
LEMMA DivideFromEnd ==
    ASSUME NEW m, Phys(m), NEW a, NEW x, CutsAt(m, a, x), m.head[a].cinuse = TRUE,
           NEW s, s = EndOf(m.head, a) - x, NEW r, r = x - a
    PROVE  Divides(m, set_inuse(set_inuse(m, x, s), a, r), a, x)
<1> DEFINE v == set_inuse(m, x, s)
           w == set_inuse(v, a, r)
           h == m.head
           e == EndOf(h, a)
           u == h[a].pinuse
<1>1. /\ Writable(m) /\ a \in Nat /\ x \in Nat /\ a < x /\ x < e
      /\ a \in DOMAIN h /\ x \notin DOMAIN h /\ e \in Nat /\ e \in DOMAIN h
      /\ \A y \in DOMAIN h : y \in Nat /\ (y <= a \/ e <= y)
      /\ h[a] \in HeadType /\ h[e] \in HeadType /\ h[e].pinuse = TRUE
  BY CutFacts
<1>2. \A y \in DOMAIN h : h[y] \in HeadType
  BY PhysWritable
<1>3. FALSE = (x \in DOMAIN m.head /\ m.head[x].pinuse) /\ u \in BOOLEAN
  BY <1>1 DEF HeadType
<1>s. s = e - x
  OBVIOUS
<1> HIDE DEF e
<1>4. \A y \in DOMAIN m.head : y <= x \/ e <= y
  BY <1>1
<1>5. InuseSet(m, v, x, e, FALSE)
  <2> DEFINE b == x \in DOMAIN m.head /\ m.head[x].pinuse
  <2>1. b = FALSE /\ b = (x \in DOMAIN m.head /\ m.head[x].pinuse)
    BY <1>3
  <2> HIDE DEF b
  <2>2. InuseSet(m, v, x, e, b)
    BY <1>1, <1>2, <1>4, <1>s, <2>1, InuseDoes
  <2> QED
    BY <2>1, <2>2, Zenon
<1> HIDE DEF v
<1>6. /\ OnlyHeads(m, v) /\ Writable(v)
      /\ DOMAIN v.head = DOMAIN h \cup {x, e}
      /\ \A y \in DOMAIN h : y # x /\ y # e => v.head[y] = h[y]
      /\ v.head[x] = [size |-> e - x, pinuse |-> FALSE, cinuse |-> TRUE]
      /\ v.head[e] = [size |-> h[e].size, pinuse |-> TRUE, cinuse |-> h[e].cinuse]
      /\ FeetKept(m, v, x, e)
  BY <1>1, <1>5, Zenon DEF InuseSet
<1>7. v.head[e] = h[e] /\ a # x /\ a # e
  <2>1. h[e] = [size |-> h[e].size, pinuse |-> TRUE, cinuse |-> h[e].cinuse]
    BY <1>1 DEF HeadType
  <2>2. v.head[e] = h[e]
    BY <2>1, <1>6, Zenon
  <2> QED
    BY <2>2, <1>1
<1>8. \A y \in DOMAIN v.head : v.head[y] \in HeadType
  <2>1. v.head[x] \in HeadType
    BY <1>1, <1>6 DEF HeadType
  <2> QED
    BY <2>1, <1>1, <1>2, <1>6, <1>7
<1>9. \A y \in DOMAIN v.head : y <= a \/ x <= y
  BY <1>1, <1>6
<1>10. a \in DOMAIN v.head /\ v.head[a] = h[a] /\ x \in DOMAIN v.head
  BY <1>1, <1>6, <1>7
<1>11. u = (a \in DOMAIN v.head /\ v.head[a].pinuse)
  BY <1>3, <1>10
<1> HIDE DEF u
<1>12. InuseSet(v, w, a, x, u)
  BY <1>1, <1>6, <1>8, <1>9, <1>11, InuseDoes
<1> HIDE DEF w
<1>13. /\ OnlyHeads(v, w) /\ Writable(w)
       /\ DOMAIN w.head = DOMAIN v.head \cup {a, x}
       /\ \A y \in DOMAIN v.head : y # a /\ y # x => w.head[y] = v.head[y]
       /\ w.head[a] = [size |-> x - a, pinuse |-> u, cinuse |-> TRUE]
       /\ w.head[x] = [size |-> v.head[x].size, pinuse |-> TRUE, cinuse |-> v.head[x].cinuse]
       /\ FeetKept(v, w, a, x)
  BY <1>10, <1>12, Zenon DEF InuseSet
<1>14. /\ DOMAIN w.head = DOMAIN m.head \cup {x}
       /\ \A y \in DOMAIN m.head : y # a => w.head[y] = m.head[y]
  BY <1>1, <1>6, <1>7, <1>10, <1>13
<1>15. w.head[a] = [size |-> x - a, pinuse |-> m.head[a].pinuse, cinuse |-> TRUE]
  BY <1>13, Zenon DEF u
<1>16. w.head[x] = [size |-> EndOf(m.head, a) - x, pinuse |-> TRUE, cinuse |-> m.head[a].cinuse]
  <2>1. m.head[a].cinuse = TRUE /\ v.head[x].size = e - x /\ v.head[x].cinuse = TRUE
    BY <1>6
  <2> QED
    BY <2>1, <1>13, Zenon DEF e
<1>17. Divided(m.head, w.head, a, x)
  BY <1>14, <1>15, <1>16, Zenon DEF Divided
<1>18. FeetOutside(m, w, a, e)
  BY <1>1, <1>6, <1>13 DEF FeetKept, FeetOutside
<1>19. OnlyHeads(m, w)
  BY <1>6, <1>13, OnlyHeadsThrough
<1> QED
  BY <1>13, <1>17, <1>18, <1>19 DEF Divides, e, w, v

(* What is written to heads is after no other field.                        *)
LEMMA HeadsOnly ==
    ASSUME NEW m, Phys(m), NEW w, OnlyHeads(m, w)
    PROVE  /\ Fields \subseteq DOMAIN w /\ \A f \in BinFields : w[f] = m[f]
           /\ w.top = m.top /\ w.topsize = m.topsize /\ w.dv = m.dv /\ w.dvsize = m.dvsize
<1>1. Fields \subseteq DOMAIN m
  BY DEF Phys
<1> QED
  BY <1>1 DEF OnlyHeads, Fields, BinFields

(* Joining chunks of which the free ones are in hand.                       *)
LEMMA MergedFree ==
    ASSUME NEW m, Phys(m), NEW X, Bins(m, X), NEW a \in DOMAIN m.head, NEW n \in DOMAIN m.head,
           a < n, a # Base, n # End, m.head[a].pinuse, m.head[n].cinuse,
           NEW w, Joins(m, w, a, n, FALSE), FootIs(w, n, n - a),
           FreeOnes(m) \cap (a .. n - 1) \subseteq X
    PROVE  /\ FreeMerged(m, w, a, n) /\ Bins(w, (X \ (a .. n - 1)) \cup {a})
           /\ w.dv = m.dv /\ w.dvsize = m.dvsize
<1> DEFINE R == a .. n - 1
<1>1. /\ Fields \subseteq DOMAIN w /\ \A f \in BinFields : w[f] = m[f]
      /\ w.top = m.top /\ w.topsize = m.topsize /\ w.dv = m.dv /\ w.dvsize = m.dvsize
  BY HeadsOnly DEF Joins
<1>2. Merged(m.head, w.head, a, n, FALSE) /\ FeetOutside(m, w, a, n)
      /\ n \in DOMAIN w.foot /\ w.foot[n] = n - a
  BY DEF Joins, FootIs
<1>3. /\ Phys(w)
      /\ FreeOnes(w) = (FreeOnes(m) \ R) \cup {a}
      /\ Taken(w) = Taken(m) \ R
      /\ Keeps(m, w, Taken(w)) /\ Keeps(m, w, FreeOnes(m) \ R)
      /\ w.head[a].size = n - a
  <2>1. FreeMerged(m, w, a, n)
    BY <1>1, <1>2, MergeFree
  <2> QED
    BY <2>1 DEF FreeMerged
<1>4. a \in R
  BY PhysWritable
<1> HIDE DEF R
<1>5. X \subseteq FreeOnes(m)
  BY DEF Bins
<1> DEFINE Y == (X \ R) \cup {a}
<1>6. Y \subseteq FreeOnes(w)
  BY <1>3, <1>5
<1>7. FreeOnes(m) \cap R \subseteq X
  BY DEF R
<1>8. FreeOnes(w) \ Y = FreeOnes(m) \ X
  BY <1>3, <1>4, <1>5, <1>7
<1>9. Keeps(m, w, FreeOnes(m) \ X)
  BY <1>3, <1>7, Zenon DEF Keeps
<1>10. Bins(w, Y)
  BY <1>1, <1>3, <1>6, <1>8, <1>9, WriteBins
<1> QED
  BY <1>1, <1>3, <1>10, Zenon DEF R, FreeMerged

(* A chunk p that is given up, when what is free before it is in hand: all  *)
(* from q up to n shall be one free chunk.                                  *)
InHand(m, p, q, n) ==
    /\ Phys(m) /\ DvFits(m) /\ Bins(m, DvSet(m) \cup (FreeOnes(m) \cap {q}))
    /\ q \in DOMAIN m.head /\ n \in DOMAIN m.head /\ q < n /\ q # Base /\ n # End
    /\ m.head[q].pinuse = TRUE
    /\ Taken(m) \cap (q .. n - 1) = {p} /\ FreeOnes(m) \cap (q .. n - 1) \subseteq {q}

Freed(m, w, p) == Sound(w) /\ Taken(w) = Taken(m) \ {p} /\ Keeps(m, w, Taken(w))

(* What there is of the victim.                                             *)
LEMMA DvFacts ==
    ASSUME NEW m, Phys(m), MaxSize < Pow(30), DvFits(m)
    PROVE  /\ DvSet(m) \subseteq FreeOnes(m)
           /\ \A p \in FreeOnes(m) : p \in DvSet(m) <=> p = m.dv
           /\ m.dvsize # 0 => m.dv \in FreeOnes(m) /\ m.dvsize = m.head[m.dv].size
                              /\ DvSet(m) = {m.dv}
           /\ m.dvsize = 0 => DvSet(m) = {} /\ m.dv = NULL /\ m.dv \notin FreeOnes(m)
<1>1. \A p \in FreeOnes(m) : p # NULL
  BY FreeSizes
<1> QED
  BY <1>1 DEF DvFits, DvSet

(* A victim that stays where the others are merged.                         *)
LEMMA DvStays ==
    ASSUME NEW m, Phys(m), MaxSize < Pow(30), DvFits(m), NEW w, w.dv = m.dv, w.dvsize = m.dvsize,
           DvSet(m) \subseteq FreeOnes(w), NEW S, Keeps(m, w, S), DvSet(m) \subseteq S
    PROVE  DvFits(w) /\ DvSet(w) = DvSet(m)
<1>1. DvSet(w) = DvSet(m)
  BY DEF DvSet
<1>2. m.dvsize # 0 => DvSet(m) = {m.dv} /\ m.dvsize = m.head[m.dv].size
  BY DvFacts
<1>3. m.dvsize # 0 => w.head[m.dv].size = m.head[m.dv].size
  BY <1>2 DEF Keeps
<1> QED
  BY <1>1, <1>2, <1>3 DEF DvFits

(* What is behind the chunk is in use: ...                                  *)
FreeJoined(m, v, p, q, n) ==
    /\ Phys(v) /\ Bins(v, DvSet(m) \cup {q})
    /\ FreeOnes(v) = (FreeOnes(m) \ (q .. n - 1)) \cup {q}
    /\ Taken(v) = Taken(m) \ {p} /\ Keeps(m, v, Taken(v))
    /\ Keeps(m, v, FreeOnes(m) \ {q})
    /\ v.head[q].size = n - q /\ v.dv = m.dv /\ v.dvsize = m.dvsize

(* ... all are merged up to there.                                          *)
LEMMA FreeBeforeUsed ==
    ASSUME NEW m, NEW p, NEW q, NEW n, MaxSize < Pow(30), InHand(m, p, q, n), m.head[n].cinuse
    PROVE  FreeJoined(m, set_free_with_pinuse(m, q, n - q, n), p, q, n)
<1> DEFINE v == set_free_with_pinuse(m, q, n - q, n)
           R == q .. n - 1
           X == DvSet(m) \cup (FreeOnes(m) \cap {q})
<1>1. /\ Phys(m) /\ DvFits(m) /\ Bins(m, X)
      /\ q \in DOMAIN m.head /\ n \in DOMAIN m.head /\ q < n /\ q # Base /\ n # End
      /\ m.head[q].pinuse = TRUE
      /\ Taken(m) \cap R = {p} /\ FreeOnes(m) \cap R \subseteq {q}
  BY DEF InHand
<1>2. Joins(m, v, q, n, FALSE) /\ FootIs(v, n, n - q)
  BY <1>1, JoinBeforeUsed
<1> HIDE DEF v
<1>3. FreeOnes(m) \cap R \subseteq X
  BY <1>1
<1>4. /\ Phys(v) /\ Bins(v, (X \ R) \cup {q})
      /\ FreeOnes(v) = (FreeOnes(m) \ R) \cup {q}
      /\ Taken(v) = Taken(m) \ R
      /\ Keeps(m, v, Taken(v)) /\ Keeps(m, v, FreeOnes(m) \ R)
      /\ v.head[q].size = n - q /\ v.dv = m.dv /\ v.dvsize = m.dvsize
  <2>1. FreeMerged(m, v, q, n) /\ Bins(v, (X \ R) \cup {q}) /\ v.dv = m.dv /\ v.dvsize = m.dvsize
    <3> HIDE DEF X
    <3>1. m.head[q].pinuse
      BY <1>1
    <3>2. FreeOnes(m) \cap (q .. n - 1) \subseteq X
      BY <1>3, Zenon
    <3>3. Phys(m) /\ Bins(m, X) /\ q \in DOMAIN m.head /\ n \in DOMAIN m.head /\ q < n
          /\ q # Base /\ n # End
      BY <1>1
    <3>4. FreeMerged(m, v, q, n)
      BY <3>1, <3>2, <3>3, <1>2, MergedFree
    <3>5. Bins(v, (X \ (q .. n - 1)) \cup {q})
      BY <3>1, <3>2, <3>3, <1>2, MergedFree
    <3>6. v.dv = m.dv /\ v.dvsize = m.dvsize
      BY <3>3, <1>2, HeadsOnly DEF Joins
    <3> QED
      BY <3>4, <3>5, <3>6, Zenon
  <2> QED
    BY <2>1, Zenon DEF FreeMerged
<1>5. q \in R
  BY <1>1, PhysWritable
<1> HIDE DEF R
<1>6. DvSet(m) \subseteq FreeOnes(m)
  BY <1>1, DvFacts
<1>7. (X \ R) \cup {q} = DvSet(m) \cup {q} /\ Taken(v) = Taken(m) \ {p}
      /\ FreeOnes(m) \ {q} \subseteq FreeOnes(m) \ R
  BY <1>1, <1>4, <1>5, <1>6
<1>8. Keeps(m, v, FreeOnes(m) \ {q})
  BY <1>4, <1>7, Zenon DEF Keeps
<1> QED
  BY <1>4, <1>7, <1>8 DEF v, R, FreeJoined

(* What is kept is kept where heads and feet are the same.                  *)
LEMMA KeepsSame ==
    ASSUME NEW m, NEW v, NEW S, Keeps(m, v, S), NEW w, w.head = v.head, w.foot = v.foot
    PROVE  Keeps(m, w, S)
BY Zenon DEF Keeps

(* A chunk in hand that becomes the victim, ...                             *)
LEMMA DvIsSound ==
    ASSUME NEW m, Phys(m), MaxSize < Pow(30), NEW q \in FreeOnes(m), Bins(m, {q}),
           NEW w, SameButDv(m, w), w.dv = q, w.dvsize = m.head[q].size
    PROVE  Sound(w) /\ Taken(w) = Taken(m) /\ w.head = m.head /\ w.foot = m.foot
<1>1. /\ Phys(w) /\ Bins(w, {q}) /\ FreeOnes(w) = FreeOnes(m) /\ Taken(w) = Taken(m)
      /\ w.head = m.head /\ w.foot = m.foot /\ w.top = m.top /\ w.topsize = m.topsize
  BY NewDv
<1>2. m.head[q].size # 0
  BY FreeSizes, SMT DEF SizeFits
<1>3. DvSet(w) = {q} /\ DvFits(w)
  BY <1>1, <1>2 DEF DvSet, DvFits
<1> QED
  BY <1>1, <1>3 DEF Sound

(* ... or is put into its bin.                                              *)
LEMMA BinIsSound ==
    ASSUME NEW m, Phys(m), MaxSize < Pow(30), DvFits(m), NEW q \in FreeOnes(m), q # m.dv,
           Bins(m, DvSet(m) \cup {q}), NEW s, s = m.head[q].size
    PROVE  LET w == insert_chunk(m, q, s) IN
           Sound(w) /\ Taken(w) = Taken(m) /\ w.head = m.head /\ w.foot = m.foot
<1> DEFINE w == insert_chunk(m, q, s)
           X == DvSet(m) \cup {q}
<1>1. q \in X /\ Bins(m, X) /\ X \ {q} = DvSet(m)
  BY DEF DvSet
<1> HIDE DEF X
<1>2. /\ Phys(w) /\ SameHeads(m, w) /\ Bins(w, X \ {q})
      /\ FreeOnes(w) = FreeOnes(m) /\ Taken(w) = Taken(m)
  BY <1>1, PutIn
<1> HIDE DEF w
<1>3. DvSet(w) = DvSet(m) /\ DvFits(w)
  BY <1>2 DEF DvSet, DvFits, SameHeads
<1>4. Bins(w, DvSet(w))
  BY <1>1, <1>2, <1>3
<1> QED
  BY <1>2, <1>3, <1>4 DEF Sound, SameHeads, w
-----------------------------------------------------------------------------
(* The branches of MergeForward. The next chunk is in use: the merged one   *)
(* is binned, ...                                                           *)
LEMMA ForwardToBin ==
    ASSUME NEW m, NEW p, NEW q, NEW n, MaxSize < Pow(30), InHand(m, p, q, n), m.head[n].cinuse,
           q # m.dv
    PROVE  Freed(m, insert_chunk(set_free_with_pinuse(m, q, n - q, n), q, n - q), p)
<1> DEFINE v == set_free_with_pinuse(m, q, n - q, n)
           w == insert_chunk(v, q, n - q)
<1>0. FreeJoined(m, v, p, q, n)
  BY FreeBeforeUsed
<1> HIDE DEF v
<1>1. /\ Phys(v) /\ Bins(v, DvSet(m) \cup {q})
      /\ FreeOnes(v) = (FreeOnes(m) \ (q .. n - 1)) \cup {q}
      /\ Taken(v) = Taken(m) \ {p} /\ Keeps(m, v, Taken(v))
      /\ Keeps(m, v, FreeOnes(m) \ {q})
      /\ v.head[q].size = n - q /\ v.dv = m.dv /\ v.dvsize = m.dvsize
  BY <1>0, Zenon DEF FreeJoined
<1>2. Phys(m) /\ DvFits(m) /\ FreeOnes(m) \cap (q .. n - 1) \subseteq {q}
  BY DEF InHand
<1>3. q \in FreeOnes(v) /\ DvSet(m) \subseteq FreeOnes(m) \ {q} /\ DvSet(m) \subseteq FreeOnes(v)
  BY <1>1, <1>2, DvFacts
<1>4. DvFits(v) /\ DvSet(v) = DvSet(m)
  BY <1>1, <1>2, <1>3, DvStays
<1>5. Sound(w) /\ Taken(w) = Taken(v) /\ w.head = v.head /\ w.foot = v.foot
  BY <1>1, <1>3, <1>4, BinIsSound
<1> HIDE DEF w
<1>6. Keeps(m, w, Taken(v))
  BY <1>1, <1>5, KeepsSame
<1> QED
  BY <1>1, <1>5, <1>6 DEF v, w, Freed

(* ... or is the victim where it was merged with that.                      *)
LEMMA ForwardIsDv ==
    ASSUME NEW m, NEW p, NEW q, NEW n, MaxSize < Pow(30), InHand(m, p, q, n), m.head[n].cinuse,
           q = m.dv
    PROVE  Freed(m, [set_free_with_pinuse(m, q, n - q, n) EXCEPT !.dvsize = n - q], p)
<1> DEFINE v == set_free_with_pinuse(m, q, n - q, n)
           w == [v EXCEPT !.dvsize = n - q]
<1>0. FreeJoined(m, v, p, q, n)
  BY FreeBeforeUsed
<1> HIDE DEF v
<1>1. /\ Phys(v) /\ Bins(v, DvSet(m) \cup {q})
      /\ FreeOnes(v) = (FreeOnes(m) \ (q .. n - 1)) \cup {q}
      /\ Taken(v) = Taken(m) \ {p} /\ Keeps(m, v, Taken(v))
      /\ v.head[q].size = n - q /\ v.dv = m.dv /\ v.dvsize = m.dvsize
  BY <1>0, Zenon DEF FreeJoined
<1>2. DvSet(m) \cup {q} = {q} /\ q \in FreeOnes(v)
  BY <1>1 DEF DvSet
<1>3. Bins(v, {q})
  BY <1>1, <1>2
<1>4. "dvsize" \in DOMAIN v
  BY <1>1 DEF Phys, Fields
<1>5. SameButDv(v, w) /\ w.dv = q /\ w.dvsize = v.head[q].size
  BY <1>1, <1>4 DEF SameButDv
<1> HIDE DEF w
<1>6. Sound(w) /\ Taken(w) = Taken(v) /\ w.head = v.head /\ w.foot = v.foot
  BY <1>1, <1>2, <1>3, <1>5, DvIsSound
<1>7. Keeps(m, w, Taken(v))
  BY <1>1, <1>6, KeepsSame
<1> QED
  BY <1>1, <1>6, <1>7 DEF v, w, Freed

(* Up to the end of the next chunk there is that chunk besides.             *)
LEMMA UpToNext ==
    ASSUME NEW m, Phys(m), NEW q \in DOMAIN m.head, NEW n \in DOMAIN m.head, q < n, n # End,
           NEW e, e = EndOf(m.head, n)
    PROVE  /\ e \in Nat /\ e \in DOMAIN m.head /\ n < e /\ q < e
           /\ n \in (q .. e - 1)
           /\ \A x \in DOMAIN m.head : x \in (q .. e - 1) <=> x \in (q .. n - 1) \/ x = n
<1>1. Layout(m.head, m.top)
  BY DEF Phys
<1>2. /\ n \in Nat /\ e \in Nat /\ e > n /\ ChunkFits(m.head, m.top, n)
  BY <1>1, ChunkOf
<1>3. q \in Nat
  BY <1>1, ChunkOf
<1>4. e \in DOMAIN m.head
  BY <1>2 DEF ChunkFits
<1>5. \A x \in DOMAIN m.head : x \in Nat
  BY <1>1, ChunkOf
<1>6. \A x \in DOMAIN m.head : x <= n \/ e <= x
  BY <1>1, ChunksApart
<1> QED
  BY <1>2, <1>3, <1>4, <1>5, <1>6

(* The next chunk is top, which takes all in.                               *)
LEMMA ForwardToTop ==
    ASSUME NEW m, NEW p, NEW q, NEW n, MaxSize < Pow(30), InHand(m, p, q, n), n = m.top,
           NEW isDv, isDv = (q = m.dv)
    PROVE  Freed(m, [SetHead(m, q, n - q + m.topsize, TRUE, FALSE) EXCEPT
                       !.top = q, !.topsize = @ + n - q,
                       !.dv = IF isDv THEN NULL ELSE @,
                       !.dvsize = IF isDv THEN 0 ELSE @], p)
<1> DEFINE v == SetHead(m, q, n - q + m.topsize, TRUE, FALSE)
           w == [v EXCEPT !.top = q, !.topsize = @ + n - q,
                          !.dv = IF isDv THEN NULL ELSE @,
                          !.dvsize = IF isDv THEN 0 ELSE @]
           X == DvSet(m) \cup (FreeOnes(m) \cap {q})
           R == q .. End - 1
<1>1. /\ Phys(m) /\ DvFits(m) /\ Bins(m, X)
      /\ q \in DOMAIN m.head /\ n \in DOMAIN m.head /\ q < n /\ q # Base /\ n # End
      /\ m.head[q].pinuse = TRUE
      /\ Taken(m) \cap (q .. n - 1) = {p} /\ FreeOnes(m) \cap (q .. n - 1) \subseteq {q}
  BY DEF InHand
<1>2. /\ Layout(m.head, m.top) /\ Fields \subseteq DOMAIN m /\ m.topsize = m.head[m.top].size
  BY <1>1 DEF Phys
<1>3. /\ EndOf(m.head, n) = End /\ ~m.head[n].cinuse /\ n + m.topsize = End
      /\ End \in DOMAIN m.head
  BY <1>2 DEF Layout, EndOf
<1>4. /\ \A x \in DOMAIN m.head : x \in R <=> x \in (q .. n - 1) \/ x = n
      /\ q < End /\ n < End
  BY <1>1, <1>3, UpToNext
<1>5. q \in Nat /\ n \in Nat /\ m.topsize \in Nat /\ End \in Nat
  BY <1>1, <1>2, ChunkOf, AreaEnds
<1>6. m.head[End].pinuse = FALSE
  <2>1. ChunkFits(m.head, m.top, n)
    BY <1>1, <1>2, ChunkOf
  <2>2. m.head[End].pinuse \in BOOLEAN
    BY <1>2, <1>3, ChunkOf
  <2> QED
    BY <1>3, <2>1, <2>2 DEF ChunkFits
<1>7. Joins(m, v, q, End, FALSE)
  <2>1. n - q + m.topsize = End - q
    BY <1>3, <1>5
  <2> QED
    BY <1>1, <1>3, <1>4, <1>6, <2>1, JoinByHead
<1> HIDE DEF v
<1>8. /\ OnlyHeads(m, v) /\ Merged(m.head, v.head, q, End, FALSE) /\ FeetOutside(m, v, q, End)
  BY <1>7 DEF Joins
<1>9. /\ Fields \subseteq DOMAIN v /\ \A f \in BinFields : v[f] = m[f]
      /\ v.top = m.top /\ v.topsize = m.topsize /\ v.dv = m.dv /\ v.dvsize = m.dvsize
  BY <1>1, <1>8, HeadsOnly
<1>10. /\ Fields \subseteq DOMAIN w /\ \A f \in BinFields : w[f] = m[f]
       /\ w.head = v.head /\ w.foot = v.foot /\ w.top = q
       /\ w.topsize = m.topsize + n - q
       /\ w.dv = IF isDv THEN NULL ELSE m.dv
       /\ w.dvsize = IF isDv THEN 0 ELSE m.dvsize
  BY <1>9 DEF Fields, BinFields
<1> HIDE DEF w
<1>11. w.topsize = End - q
  BY <1>3, <1>5, <1>10
<1>12. /\ Merged(m.head, w.head, q, End, FALSE) /\ FeetOutside(m, w, q, End)
  BY <1>8, <1>10, Zenon DEF FeetOutside
<1>13. q # End
  BY <1>4, <1>5
<1>14. /\ Phys(w)
       /\ FreeOnes(w) = FreeOnes(m) \ R
       /\ Taken(w) = Taken(m) \ R
       /\ Keeps(m, w, Taken(w)) /\ Keeps(m, w, FreeOnes(w))
  <2>1. Phys(m) /\ q \in DOMAIN m.head /\ q # Base /\ m.head[q].pinuse
    BY <1>1
  <2>2. Fields \subseteq DOMAIN w /\ w.top = q
    BY <1>10
  <2>3. Phys(w)
    BY <1>11, <1>12, <1>13, <2>1, <2>2, MergeTop
  <2>4. FreeOnes(w) = FreeOnes(m) \ R
    BY <1>11, <1>12, <1>13, <2>1, <2>2, MergeTop
  <2>5. Taken(w) = Taken(m) \ R
    BY <1>11, <1>12, <1>13, <2>1, <2>2, MergeTop
  <2>6. Keeps(m, w, Taken(w)) /\ Keeps(m, w, FreeOnes(w))
    BY <1>11, <1>12, <1>13, <2>1, <2>2, MergeTop
  <2> QED
    BY <2>3, <2>4, <2>5, <2>6
<1> HIDE DEF R
<1>15. \A x \in FreeOnes(m) \cup Taken(m) : x \in DOMAIN m.head
  BY DEF FreeOnes, Taken
<1>16. n \notin FreeOnes(m) /\ n \notin Taken(m)
  BY <1>3 DEF FreeOnes, Taken
<1>17. Taken(w) = Taken(m) \ {p} /\ FreeOnes(w) = FreeOnes(m) \ {q}
  <2>1. q \in q .. n - 1
    BY <1>1, <1>5
  <2> QED
    BY <1>1, <1>4, <1>14, <1>15, <1>16, <2>1
<1>18. DvSet(m) \subseteq FreeOnes(m)
  BY <1>1, DvFacts
<1>19. DvSet(w) = DvSet(m) \ {q} /\ DvFits(w)
  <2>1. CASE isDv
    <3>1. w.dv = NULL /\ w.dvsize = 0 /\ q = m.dv
      BY <1>10, <2>1
    <3> QED
      BY <3>1 DEF DvSet, DvFits
  <2>2. CASE ~isDv
    <3>1. w.dv = m.dv /\ w.dvsize = m.dvsize /\ q # m.dv
      BY <1>10, <2>2
    <3>2. q \notin DvSet(m)
      BY <3>1 DEF DvSet
    <3>3. DvSet(m) \subseteq FreeOnes(w)
      BY <1>17, <1>18, <3>2
    <3>4. DvFits(w) /\ DvSet(w) = DvSet(m)
      BY <1>1, <1>14, <3>1, <3>3, DvStays
    <3> QED
      BY <3>2, <3>4
  <2> QED
    BY <2>1, <2>2
<1>20. DvSet(w) \subseteq FreeOnes(w) /\ FreeOnes(w) \ DvSet(w) = FreeOnes(m) \ X
  BY <1>17, <1>18, <1>19
<1>21. Keeps(m, w, FreeOnes(m) \ X)
  <2>1. FreeOnes(m) \ X \subseteq FreeOnes(w)
    BY <1>20
  <2> QED
    BY <1>14, <2>1, Zenon DEF Keeps
<1> HIDE DEF X
<1>22. Bins(w, DvSet(w))
  BY <1>1, <1>10, <1>14, <1>20, <1>21, WriteBins
<1> QED
  BY <1>14, <1>17, <1>19, <1>22 DEF v, w, Freed, Sound

(* The next chunk is free and in hand, and is taken in.                     *)
NextJoined(m, v, p, q, n, X) ==
    /\ Phys(v) /\ Bins(v, (X \ {q, n}) \cup {q})
    /\ FreeOnes(v) = (FreeOnes(m) \ {n}) \cup {q}
    /\ Taken(v) = Taken(m) \ {p} /\ Keeps(m, v, Taken(v))
    /\ Keeps(m, v, FreeOnes(m) \ {q, n})
    /\ v.head[q].size = n - q + m.head[n].size /\ v.dv = m.dv /\ v.dvsize = m.dvsize

(* A free chunk that is followed by one in hand.                            *)
LEMMA FreeWithNext ==
    ASSUME NEW m, Phys(m), MaxSize < Pow(30), NEW X, Bins(m, X),
           NEW q \in DOMAIN m.head, NEW n \in FreeOnes(m), q < n, q # Base,
           m.head[q].pinuse = TRUE, NEW p, Taken(m) \cap (q .. n - 1) = {p},
           FreeOnes(m) \cap (q .. n - 1) \subseteq {q}, FreeOnes(m) \cap {q} \subseteq X, n \in X,
           NEW s, s = n - q + m.head[n].size
    PROVE  NextJoined(m, set_size_and_pinuse_of_free_chunk(m, q, s), p, q, n, X)
<1> DEFINE e == EndOf(m.head, n)
           R == q .. e - 1
           v == set_size_and_pinuse_of_free_chunk(m, q, s)
<1>1. /\ n \in DOMAIN m.head /\ n # m.top /\ n # End /\ m.head[n].cinuse = FALSE
      /\ n \in Nat /\ m.head[n].size \in Nat /\ q \in Nat
  <2>1. n \in DOMAIN m.head /\ n # m.top /\ n # End /\ ~m.head[n].cinuse
    BY DEF FreeOnes
  <2>2. /\ n \in Nat /\ m.head[n].size \in Nat /\ q \in Nat /\ m.head[n].cinuse \in BOOLEAN
    BY <2>1, ChunkOf DEF Phys
  <2> QED
    BY <2>1, <2>2
<1>2. /\ e \in Nat /\ e \in DOMAIN m.head /\ n < e /\ q < e /\ n \in R
      /\ \A x \in DOMAIN m.head : x \in R <=> x \in (q .. n - 1) \/ x = n
  BY <1>1, UpToNext
<1>3. s = e - q
  BY <1>1 DEF EndOf
<1>4. e # End /\ m.head[e].cinuse /\ m.head[e].pinuse = FALSE
  <2>1. ChunkFits(m.head, m.top, n) /\ Layout(m.head, m.top)
    BY <1>1, ChunkOf DEF Phys
  <2>2. m.head[e].cinuse /\ m.head[e].pinuse = m.head[n].cinuse
    BY <1>1, <2>1 DEF ChunkFits
  <2>3. ~m.head[End].cinuse
    BY <2>1 DEF Layout
  <2> QED
    BY <1>1, <2>2, <2>3
<1> HIDE DEF e
<1>5. Joins(m, v, q, e, FALSE) /\ FootIs(v, e, e - q)
  BY <1>2, <1>3, <1>4, JoinByFree
<1> HIDE DEF v
<1>6. FreeOnes(m) \cap R \subseteq X
  <2>1. \A x \in FreeOnes(m) : x \in DOMAIN m.head
    BY DEF FreeOnes
  <2> HIDE DEF R
  <2> QED
    BY <1>2, <2>1
<1>7. m.head[q].pinuse
  OBVIOUS
<1>8. FreeMerged(m, v, q, e)
  BY <1>2, <1>4, <1>5, <1>6, <1>7, MergedFree
<1>9. Bins(v, (X \ R) \cup {q})
  BY <1>2, <1>4, <1>5, <1>6, <1>7, MergedFree
<1>10. v.dv = m.dv /\ v.dvsize = m.dvsize
  BY <1>5, HeadsOnly DEF Joins
<1>11. /\ Phys(v)
       /\ FreeOnes(v) = (FreeOnes(m) \ R) \cup {q}
       /\ Taken(v) = Taken(m) \ R
       /\ Keeps(m, v, Taken(v)) /\ Keeps(m, v, FreeOnes(m) \ R)
       /\ v.head[q].size = e - q
  BY <1>8, Zenon DEF FreeMerged
<1>12. q \in q .. n - 1
  BY <1>1
<1> HIDE DEF R
<1>13. \A x \in FreeOnes(m) \cup Taken(m) : x \in DOMAIN m.head
  BY DEF FreeOnes, Taken
<1>14. n \notin Taken(m)
  BY <1>1 DEF Taken
<1>15. Taken(v) = Taken(m) \ {p} /\ FreeOnes(v) = (FreeOnes(m) \ {n}) \cup {q}
       /\ FreeOnes(m) \ {q, n} \subseteq FreeOnes(m) \ R
  BY <1>2, <1>11, <1>12, <1>13, <1>14
<1>16. (X \ R) \cup {q} = (X \ {q, n}) \cup {q}
  <2>1. X \subseteq FreeOnes(m)
    BY DEF Bins
  <2> QED
    BY <1>2, <1>12, <1>13, <2>1
<1>17. Keeps(m, v, FreeOnes(m) \ {q, n})
  BY <1>11, <1>15, Zenon DEF Keeps
<1>18. v.head[q].size = n - q + m.head[n].size
  BY <1>3, <1>11
<1> QED
  BY <1>9, <1>10, <1>11, <1>15, <1>16, <1>17, <1>18 DEF NextJoined, v

(* The next chunk is the victim, and so is then what it is joined to.       *)
LEMMA ForwardToDv ==
    ASSUME NEW m, NEW p, NEW q, NEW n, MaxSize < Pow(30), InHand(m, p, q, n),
           ~m.head[n].cinuse, n # m.top, n = m.dv, NEW s, s = n - q + m.dvsize
    PROVE  Freed(m, [set_size_and_pinuse_of_free_chunk(m, q, s) EXCEPT !.dv = q, !.dvsize = s], p)
<1> DEFINE v == set_size_and_pinuse_of_free_chunk(m, q, s)
           w == [v EXCEPT !.dv = q, !.dvsize = s]
           X == DvSet(m) \cup (FreeOnes(m) \cap {q})
<1>1. /\ Phys(m) /\ DvFits(m) /\ Bins(m, X)
      /\ q \in DOMAIN m.head /\ n \in DOMAIN m.head /\ q < n /\ q # Base /\ n # End
      /\ m.head[q].pinuse = TRUE
      /\ Taken(m) \cap (q .. n - 1) = {p} /\ FreeOnes(m) \cap (q .. n - 1) \subseteq {q}
  BY DEF InHand
<1>2. n \in FreeOnes(m) /\ q \in Nat /\ n \in Nat
  BY <1>1, ChunkOf DEF FreeOnes, Phys
<1>3. DvSet(m) = {n} /\ m.dvsize = m.head[n].size
  BY <1>1, <1>2, DvFacts
<1>4. s = n - q + m.head[n].size
  BY <1>3
<1>5. FreeOnes(m) \cap {q} \subseteq X /\ n \in X /\ (X \ {q, n}) \cup {q} = {q}
  BY <1>3
<1> HIDE DEF X
<1>6. NextJoined(m, v, p, q, n, X)
  BY <1>1, <1>2, <1>4, <1>5, FreeWithNext
<1> HIDE DEF v
<1>7. /\ Phys(v) /\ Bins(v, {q}) /\ q \in FreeOnes(v)
      /\ Taken(v) = Taken(m) \ {p} /\ Keeps(m, v, Taken(v)) /\ v.head[q].size = s
  BY <1>4, <1>5, <1>6 DEF NextJoined
<1>8. {"dv", "dvsize"} \subseteq DOMAIN v
  BY <1>7 DEF Phys, Fields
<1>9. SameButDv(v, w) /\ w.dv = q /\ w.dvsize = v.head[q].size
  BY <1>7, <1>8 DEF SameButDv
<1> HIDE DEF w
<1>10. Sound(w) /\ Taken(w) = Taken(v) /\ w.head = v.head /\ w.foot = v.foot
  BY <1>7, <1>9, DvIsSound
<1>11. Keeps(m, w, Taken(v))
  BY <1>7, <1>10, KeepsSame
<1> QED
  BY <1>7, <1>10, <1>11 DEF v, w, Freed

(* The next chunk is in a bin, ...                                          *)
NextTaken(m, v, p, q, s) ==
    /\ Phys(v) /\ Bins(v, (DvSet(m) \ {q}) \cup {q}) /\ q \in FreeOnes(v)
    /\ Taken(v) = Taken(m) \ {p} /\ Keeps(m, v, Taken(v)) /\ v.head[q].size = s
    /\ v.dv = m.dv /\ v.dvsize = m.dvsize
    /\ q # m.dv => DvFits(v) /\ DvSet(v) = DvSet(m)

(* ... and is taken out of it.                                              *)
LEMMA NextTakenOut ==
    ASSUME NEW m, NEW p, NEW q, NEW n, MaxSize < Pow(30), InHand(m, p, q, n),
           ~m.head[n].cinuse, n # m.top, n # m.dv, NEW s, s = n - q + ChunkSize(m, n)
    PROVE  NextTaken(m, set_size_and_pinuse_of_free_chunk(
                          unlink_chunk(m, n, ChunkSize(m, n)), q, s), p, q, s)
<1> DEFINE u == unlink_chunk(m, n, ChunkSize(m, n))
           v == set_size_and_pinuse_of_free_chunk(u, q, s)
           X == DvSet(m) \cup (FreeOnes(m) \cap {q})
           Y == X \cup {n}
<1>1. /\ Phys(m) /\ DvFits(m) /\ Bins(m, X)
      /\ q \in DOMAIN m.head /\ n \in DOMAIN m.head /\ q < n /\ q # Base /\ n # End
      /\ m.head[q].pinuse = TRUE
      /\ Taken(m) \cap (q .. n - 1) = {p} /\ FreeOnes(m) \cap (q .. n - 1) \subseteq {q}
  BY DEF InHand
<1>2. n \in FreeOnes(m) /\ q \in Nat /\ n \in Nat /\ q # n
  BY <1>1, ChunkOf DEF FreeOnes, Phys
<1>3. n \notin X
  BY <1>2 DEF DvSet
<1> HIDE DEF X
<1>4. /\ Phys(u) /\ SameHeads(m, u) /\ Bins(u, Y)
      /\ FreeOnes(u) = FreeOnes(m) /\ Taken(u) = Taken(m)
  BY <1>1, <1>2, <1>3, TakeOut
<1> HIDE DEF u
<1>5. u.head = m.head /\ u.foot = m.foot /\ u.dv = m.dv /\ u.dvsize = m.dvsize
  BY <1>4 DEF SameHeads
<1>6. s = n - q + u.head[n].size
  BY <1>5 DEF ChunkSize
<1>7. FreeOnes(u) \cap {q} \subseteq Y /\ n \in Y /\ (Y \ {q, n}) \cup {q} = (DvSet(m) \ {q}) \cup {q}
  BY <1>2, <1>3, <1>4 DEF X
<1> HIDE DEF Y
<1>8. NextJoined(u, v, p, q, n, Y)
  <2>1. n \in FreeOnes(u) /\ q \in DOMAIN u.head /\ u.head[q].pinuse = TRUE
        /\ Taken(u) \cap (q .. n - 1) = {p} /\ FreeOnes(u) \cap (q .. n - 1) \subseteq {q}
    BY <1>1, <1>2, <1>4, <1>5, Zenon
  <2> QED
    BY <1>1, <1>4, <1>6, <1>7, <2>1, FreeWithNext
<1> HIDE DEF v
<1>9. /\ Phys(v) /\ Bins(v, (DvSet(m) \ {q}) \cup {q})
      /\ FreeOnes(v) = (FreeOnes(m) \ {n}) \cup {q}
      /\ Taken(v) = Taken(m) \ {p} /\ Keeps(u, v, Taken(v)) /\ v.head[q].size = s
      /\ Keeps(u, v, FreeOnes(m) \ {q, n})
      /\ v.dv = m.dv /\ v.dvsize = m.dvsize
  BY <1>4, <1>5, <1>6, <1>7, <1>8, Zenon DEF NextJoined
<1>10. Keeps(m, v, Taken(v)) /\ Keeps(m, v, FreeOnes(m) \ {q, n})
  BY <1>5, <1>9, Zenon DEF Keeps
<1>11. ASSUME q # m.dv PROVE DvFits(v) /\ DvSet(v) = DvSet(m)
  <2>1. DvSet(m) \subseteq FreeOnes(m) /\ q \notin DvSet(m) /\ n \notin DvSet(m)
    BY <1>1, <1>3, <1>11, DvFacts DEF X, DvSet
  <2>2. DvSet(m) \subseteq FreeOnes(m) \ {q, n} /\ DvSet(m) \subseteq FreeOnes(v)
    BY <1>9, <2>1
  <2> QED
    BY <1>1, <1>9, <1>10, <2>2, DvStays
<1> QED
  BY <1>9, <1>10, <1>11 DEF v, u, NextTaken

(* It joins the one in hand, which goes to a bin or stays the victim.       *)
LEMMA ForwardOverNext ==
    ASSUME NEW m, NEW p, NEW q, NEW n, MaxSize < Pow(30), InHand(m, p, q, n),
           ~m.head[n].cinuse, n # m.top, n # m.dv, NEW s, s = n - q + ChunkSize(m, n)
    PROVE  LET v == set_size_and_pinuse_of_free_chunk(unlink_chunk(m, n, ChunkSize(m, n)), q, s) IN
           /\ q # m.dv => Freed(m, insert_chunk(v, q, s), p)
           /\ q = m.dv => Freed(m, [v EXCEPT !.dv = q, !.dvsize = s], p)
<1> DEFINE v == set_size_and_pinuse_of_free_chunk(unlink_chunk(m, n, ChunkSize(m, n)), q, s)
<1>1. NextTaken(m, v, p, q, s)
  BY NextTakenOut
<1> HIDE DEF v
<1>2. /\ Phys(v) /\ Bins(v, (DvSet(m) \ {q}) \cup {q}) /\ q \in FreeOnes(v)
      /\ Taken(v) = Taken(m) \ {p} /\ Keeps(m, v, Taken(v)) /\ v.head[q].size = s
      /\ v.dv = m.dv /\ v.dvsize = m.dvsize
      /\ q # m.dv => DvFits(v) /\ DvSet(v) = DvSet(m)
  BY <1>1 DEF NextTaken
<1>3. ASSUME q # m.dv PROVE Freed(m, insert_chunk(v, q, s), p)
  <2> DEFINE w == insert_chunk(v, q, s)
  <2>1. q \notin DvSet(m)
    BY <1>3 DEF DvSet
  <2>2. (DvSet(m) \ {q}) \cup {q} = DvSet(v) \cup {q}
    BY <1>2, <1>3, <2>1
  <2>3. Bins(v, DvSet(v) \cup {q}) /\ DvFits(v) /\ q # v.dv
    BY <1>2, <1>3, <2>2
  <2>4. Sound(w) /\ Taken(w) = Taken(v) /\ w.head = v.head /\ w.foot = v.foot
    BY <1>2, <2>3, BinIsSound
  <2> HIDE DEF w
  <2>5. Keeps(m, w, Taken(v))
    BY <1>2, <2>4, KeepsSame
  <2> QED
    BY <1>2, <2>4, <2>5 DEF w, Freed
<1>4. ASSUME q = m.dv PROVE Freed(m, [v EXCEPT !.dv = q, !.dvsize = s], p)
  <2> DEFINE w == [v EXCEPT !.dv = q, !.dvsize = s]
  <2>1. (DvSet(m) \ {q}) \cup {q} = {q}
    BY <1>4 DEF DvSet
  <2>2. Bins(v, {q})
    BY <1>2, <2>1
  <2>3. {"dv", "dvsize"} \subseteq DOMAIN v
    BY <1>2 DEF Phys, Fields
  <2>4. SameButDv(v, w) /\ w.dv = q /\ w.dvsize = v.head[q].size
    BY <1>2, <2>3 DEF SameButDv
  <2> HIDE DEF w
  <2>5. Sound(w) /\ Taken(w) = Taken(v) /\ w.head = v.head /\ w.foot = v.foot
    BY <1>2, <2>2, <2>4, DvIsSound
  <2>6. Keeps(m, w, Taken(v))
    BY <1>2, <2>5, KeepsSame
  <2> QED
    BY <1>2, <2>5, <2>6 DEF w, Freed
<1> QED
  BY <1>3, <1>4 DEF v

(* So a chunk that is given up is merged with what is behind it.            *)
LEMMA ForwardFrees ==
    ASSUME NEW m, NEW p, NEW q, NEW n, MaxSize < Pow(30), InHand(m, p, q, n),
           NEW isDv, isDv = (q = m.dv), isDv => ~m.head[n].cinuse
    PROVE  Freed(m, MergeForward(m, q, n, isDv).m, p)
<1> DEFINE s == n - q + ChunkSize(m, n)
<1>1. CASE m.head[n].cinuse
  <2>1. q # m.dv
    BY <1>1
  <2> QED
    BY <1>1, <2>1, ForwardToBin, Zenon DEF MergeForward, cinuse
<1>2. CASE ~m.head[n].cinuse /\ n = m.top
  BY <1>2, ForwardToTop, Zenon DEF MergeForward, cinuse
<1>3. CASE ~m.head[n].cinuse /\ n # m.top /\ n = m.dv
  BY <1>3, ForwardToDv, Zenon DEF MergeForward, cinuse
<1>4. CASE ~m.head[n].cinuse /\ n # m.top /\ n # m.dv
  <2>1. CASE isDv
    BY <1>4, <2>1, ForwardOverNext, Zenon DEF MergeForward, cinuse
  <2>2. CASE ~isDv
    BY <1>4, <2>2, ForwardOverNext, Zenon DEF MergeForward, cinuse
  <2> QED
    BY <2>1, <2>2
<1> QED
  BY <1>1, <1>2, <1>3, <1>4

(* A chunk in use that is not the first.                                    *)
LEMMA UsedChunk ==
    ASSUME NEW m, Phys(m), NEW p \in Taken(m), NEW n, n = EndOf(m.head, p)
    PROVE  /\ p \in DOMAIN m.head /\ p # End /\ p # m.top /\ p \in Nat
           /\ n \in Nat /\ n \in DOMAIN m.head /\ p < n /\ n # End
           /\ m.head[n].pinuse = TRUE /\ m.head[p].size \in Nat /\ m.head[p].size = n - p
           /\ m.head[p].size >= 32 /\ m.head[p].size % 16 = 0
           /\ p \notin FreeOnes(m) /\ p >= Base /\ n <= m.top /\ p % 16 = 0
           /\ \A x \in DOMAIN m.head : x <= p \/ n <= x
<1>1. Layout(m.head, m.top) /\ p \in DOMAIN m.head /\ m.head[p].cinuse
  BY DEF Phys, Taken
<1>2. p # End /\ p # m.top /\ p \notin FreeOnes(m)
  BY <1>1 DEF Layout, FreeOnes
<1>3. /\ ChunkFits(m.head, m.top, p) /\ n \in Nat /\ n > p /\ p \in Nat /\ n <= End
      /\ m.head[p].size \in Nat /\ m.head[p].cinuse \in BOOLEAN /\ p >= Base /\ p % 16 = 0
  BY <1>1, <1>2, ChunkOf
<1>4. n \in DOMAIN m.head /\ m.head[n].pinuse = m.head[p].cinuse
      /\ m.head[p].size >= 32 /\ m.head[p].size % 16 = 0
      /\ \A x \in DOMAIN m.head : x <= p \/ n <= x
  BY <1>2, <1>3 DEF ChunkFits
<1>5. m.top \in DOMAIN m.head /\ m.top # End /\ EndOf(m.head, m.top) = End
  BY <1>1 DEF Layout
<1>6. p < m.top /\ n <= m.top
  <2>1. m.top \in Nat /\ m.top < End
    BY <1>1, <1>5, ChunkOf
  <2>2. p <= m.top \/ End <= p
    BY <1>1, <1>5, ChunksApart
  <2>3. m.top <= p \/ n <= m.top
    BY <1>1, <1>2, <1>5, ChunksApart
  <2>4. End \in Nat
    BY AreaEnds
  <2> QED
    BY <1>2, <1>3, <2>1, <2>2, <2>3, <2>4
<1>7. n # End
  <2>1. m.top \in Nat /\ m.top < End /\ End \in Nat
    BY <1>1, <1>5, ChunkOf, AreaEnds
  <2> QED
    BY <1>3, <1>6, <2>1
<1>8. m.head[p].size = n - p
  BY <1>3 DEF EndOf
<1> QED
  BY <1>1, <1>2, <1>3, <1>4, <1>6, <1>7, <1>8

(* The chunk before, when it is free.                                       *)
LEMMA FreeBefore ==
    ASSUME NEW m, Phys(m), NEW p \in Taken(m), ~m.head[p].pinuse, NEW q, q = p - m.foot[p]
    PROVE  /\ q \in FreeOnes(m) /\ q \in Nat /\ q < p /\ EndOf(m.head, q) = p
           /\ m.head[q].size = p - q /\ m.head[q].pinuse = TRUE /\ q # Base
<1>1. Layout(m.head, m.top) /\ p \in DOMAIN m.head
  BY DEF Phys, Taken
<1>2. p # Base
  BY <1>1 DEF Layout
<1>3. PICK x \in DOMAIN m.head : x # End /\ x < p /\ EndOf(m.head, x) = p
  BY <1>1, <1>2, ChunkBefore
<1>4. ChunkFits(m.head, m.top, x) /\ x \in Nat /\ m.head[x].size \in Nat /\ p \in Nat
      /\ m.head[x].pinuse \in BOOLEAN /\ m.head[x].cinuse \in BOOLEAN
  BY <1>1, <1>3, ChunkOf
<1>5. m.head[x].cinuse = m.head[p].pinuse /\ (~m.head[x].cinuse => m.head[x].pinuse)
  BY <1>3, <1>4 DEF ChunkFits
<1>6. x # m.top /\ x # Base
  <2>1. p # End
    BY <1>1, UsedChunk
  <2> QED
    BY <1>1, <1>3, <1>5, <2>1 DEF Layout
<1>7. x \in FreeOnes(m)
  BY <1>3, <1>5, <1>6 DEF FreeOnes
<1>8. m.foot[p] = m.head[x].size
  BY <1>3, <1>7 DEF Phys, FeetFit
<1>9. m.head[x].size = p - x
  BY <1>3, <1>4 DEF EndOf
<1>10. x = q
  BY <1>4, <1>8, <1>9
<1> QED
  BY <1>3, <1>4, <1>5, <1>6, <1>7, <1>9, <1>10

(* A chunk that is given up is merged with the free ones around it.         *)
LEMMA Consolidates ==
    ASSUME NEW m, Sound(m), MaxSize < Pow(30), NEW p \in Taken(m), p # Base,
           NEW s, s = m.head[p].size
    PROVE  Freed(m, Consolidate(m, p, s).m, p)
<1> DEFINE n == p + s
<1>1. Phys(m) /\ DvFits(m) /\ Bins(m, DvSet(m))
  BY DEF Sound
<1>2. n = EndOf(m.head, p)
  BY DEF EndOf
<1> HIDE DEF n
<1>3. /\ p \in DOMAIN m.head /\ p # End /\ p # m.top /\ p \in Nat
      /\ n \in Nat /\ n \in DOMAIN m.head /\ p < n /\ n # End
      /\ m.head[n].pinuse = TRUE /\ p \notin FreeOnes(m) /\ p >= Base
      /\ \A x \in DOMAIN m.head : x <= p \/ n <= x
  BY <1>1, <1>2, UsedChunk
<1>4. \A x \in DOMAIN m.head : x \in Nat
  BY <1>1, PhysWritable
<1>5. \A x \in FreeOnes(m) \cup Taken(m) : x \in DOMAIN m.head
  BY DEF FreeOnes, Taken
<1>6. CASE m.head[p].pinuse
  <2>1. InHand(m, p, p, n)
    <3>1. Taken(m) \cap (p .. n - 1) = {p} /\ FreeOnes(m) \cap (p .. n - 1) \subseteq {p}
      BY <1>3, <1>4, <1>5
    <3>2. m.head[p].pinuse = TRUE
      BY <1>1, <1>3, <1>6, ChunkOf DEF Phys
    <3>3. DvSet(m) \cup (FreeOnes(m) \cap {p}) = DvSet(m)
      BY <1>3
    <3> QED
      BY <1>1, <1>3, <3>1, <3>2, <3>3 DEF InHand
  <2>2. p # m.dv
    <3>1. p # NULL
      BY <1>3, AreaEnds DEF NULL
    <3> QED
      BY <1>1, <1>3, <3>1, DvFacts
  <2>3. Freed(m, MergeForward(m, p, n, FALSE).m, p)
    <3> DEFINE b == FALSE
    <3> HIDE DEF b
    <3>1. b = (p = m.dv) /\ (b => ~m.head[n].cinuse)
      BY <2>2 DEF b
    <3>2. Freed(m, MergeForward(m, p, n, b).m, p)
      BY <2>1, <3>1, ForwardFrees
    <3> QED
      BY <3>2 DEF b
  <2>4. Consolidate(m, p, s) = MergeForward(m, p, n, FALSE)
    BY <1>6, <2>2 DEF Consolidate, MergesBack, pinuse, n
  <2> QED
    BY <2>3, <2>4
<1>7. CASE ~m.head[p].pinuse
  <2> DEFINE q == p - m.foot[p]
  <2>1. /\ q \in FreeOnes(m) /\ q \in Nat /\ q < p /\ EndOf(m.head, q) = p
        /\ m.head[q].size = p - q /\ m.head[q].pinuse = TRUE /\ q # Base
    BY <1>1, <1>7, FreeBefore
  <2>2. Consolidate(m, p, s) =
          IF q # m.dv
          THEN MergeForward(unlink_chunk(m, q, p - q), q, n, FALSE)
          ELSE IF cinuse(m, n) /\ pinuse(m, n)
          THEN [m |-> [set_free_with_pinuse(m, q, n - q, n) EXCEPT !.dvsize = n - q],
                into |-> "dv", size |-> n - q]
          ELSE MergeForward(m, q, n, TRUE)
    <3>1. q # p
      BY <1>3, <2>1
    <3> QED
      BY <1>7, <3>1, Zenon DEF Consolidate, MergesBack, pinuse, n
  <2> HIDE DEF q
  <2>3. q \in DOMAIN m.head /\ q # End /\ q < n
    BY <1>3, <2>1 DEF FreeOnes
  <2>4. \A x \in DOMAIN m.head : x <= q \/ p <= x
    BY <1>1, <2>1, <2>3, ChunksApart DEF Phys
  <2>5. Taken(m) \cap (q .. n - 1) = {p} /\ FreeOnes(m) \cap (q .. n - 1) \subseteq {q}
    <3>1. q \notin Taken(m)
      BY <2>1 DEF FreeOnes, Taken
    <3>2. \A x \in DOMAIN m.head : x \in q .. n - 1 <=> x = q \/ x = p
      BY <1>3, <1>4, <2>1, <2>3, <2>4
    <3> QED
      BY <1>3, <1>5, <3>1, <3>2
  <2>6. CASE q # m.dv
    <3> DEFINE u == unlink_chunk(m, q, p - q)
    <3>1. q \notin DvSet(m)
      BY <2>6 DEF DvSet
    <3>2. u = unlink_chunk(m, q, ChunkSize(m, q))
      BY <2>1 DEF ChunkSize
    <3>3. /\ Phys(u) /\ SameHeads(m, u) /\ Bins(u, DvSet(m) \cup {q})
          /\ FreeOnes(u) = FreeOnes(m) /\ Taken(u) = Taken(m)
      BY <1>1, <2>1, <3>1, <3>2, TakeOut
    <3> HIDE DEF u
    <3>4. u.head = m.head /\ u.foot = m.foot /\ u.dv = m.dv /\ u.dvsize = m.dvsize
      BY <3>3 DEF SameHeads
    <3>5. DvSet(u) = DvSet(m) /\ DvFits(u)
      BY <1>1, <3>3, <3>4 DEF DvSet, DvFits
    <3>6. FreeOnes(u) \cap {q} = {q}
      BY <2>1, <3>3
    <3>7. InHand(u, p, q, n)
      <4>1. Bins(u, DvSet(u) \cup (FreeOnes(u) \cap {q}))
        BY <3>3, <3>5, <3>6
      <4> QED
        BY <1>3, <2>1, <2>3, <2>5, <3>3, <3>4, <3>5, <4>1 DEF InHand
    <3>8. Freed(u, MergeForward(u, q, n, FALSE).m, p)
      <4> DEFINE b == FALSE
      <4> HIDE DEF b
      <4>1. b = (q = u.dv) /\ (b => ~u.head[n].cinuse)
        BY <2>6, <3>4 DEF b
      <4>2. Freed(u, MergeForward(u, q, n, b).m, p)
        BY <3>7, <4>1, ForwardFrees
      <4> QED
        BY <4>2 DEF b
    <3> DEFINE w == MergeForward(u, q, n, FALSE).m
    <3> HIDE DEF w
    <3>9. Freed(u, w, p)
      BY <3>8 DEF w
    <3>10. Sound(w) /\ Taken(w) = Taken(m) \ {p} /\ Keeps(u, w, Taken(w))
      BY <3>3, <3>9 DEF Freed
    <3>11. Keeps(m, w, Taken(w))
      BY <3>4, <3>10, Zenon DEF Keeps
    <3>12. Freed(m, w, p)
      BY <3>10, <3>11 DEF Freed
    <3> QED
      BY <2>2, <2>6, <3>12 DEF w, u
  <2>7. CASE q = m.dv
    <3>1. InHand(m, p, q, n)
      <4>1. DvSet(m) \cup (FreeOnes(m) \cap {q}) = DvSet(m)
        BY <1>1, <2>1, <2>7, DvFacts
      <4> QED
        BY <1>1, <1>3, <2>1, <2>3, <2>5, <4>1 DEF InHand
    <3>2. CASE m.head[n].cinuse
      <4> DEFINE w == [set_free_with_pinuse(m, q, n - q, n) EXCEPT !.dvsize = n - q]
      <4>1. Freed(m, w, p)
        BY <2>7, <3>1, <3>2, ForwardIsDv
      <4> HIDE DEF w
      <4>2. Consolidate(m, p, s) = [m |-> w, into |-> "dv", size |-> n - q]
        BY <1>3, <2>2, <2>7, <3>2 DEF cinuse, pinuse, w
      <4> QED
        BY <4>1, <4>2
    <3>3. CASE ~m.head[n].cinuse
      <4> DEFINE b == TRUE
      <4> HIDE DEF b
      <4>1. b = (q = m.dv) /\ (b => ~m.head[n].cinuse)
        BY <2>7, <3>3 DEF b
      <4>2. Freed(m, MergeForward(m, q, n, b).m, p)
        BY <3>1, <4>1, ForwardFrees
      <4>3. Freed(m, MergeForward(m, q, n, TRUE).m, p)
        BY <4>2 DEF b
      <4>4. Consolidate(m, p, s) = MergeForward(m, q, n, TRUE)
        BY <2>2, <2>7, <3>3, Zenon DEF cinuse
      <4> QED
        BY <4>3, <4>4
    <3> QED
      BY <3>2, <3>3
  <2> QED
    BY <2>6, <2>7
<1> QED
  BY <1>6, <1>7

(* When to look for memory to give back is all that changes behind a free.  *)
ChecksOnly(m, w) ==
    DOMAIN w = DOMAIN m /\ \A f \in DOMAIN m : f \notin {"trim_check", "release_checks"} => w[f] = m[f]

(* Two such steps are one.                                                  *)
LEMMA ChecksThrough ==
    ASSUME NEW m, NEW w, NEW v, ChecksOnly(m, w), ChecksOnly(w, v)
    PROVE  ChecksOnly(m, v)
BY Zenon DEF ChecksOnly

(* With one segment none is released.                                       *)
LEMMA NoneReleased ==
    ASSUME NEW m, "segs" \in DOMAIN m, NEW seg, m.segs = <<seg>>
    PROVE  ChecksOnly(m, release_unused_segments(m, FALSE))
<1> DEFINE r == NextCheck(Len(m.segs) - 1)
<1>1. Tail(m.segs) = << >> /\ DOMAIN Tail(m.segs) = {}
  OBVIOUS
<1>2. FoldLeft(LAMBDA n, s : release_segment(n, s, FALSE), m, Tail(m.segs)) = m
  <2>1. SUBSET {} = {{}}
    OBVIOUS
  <2> QED
    BY <1>1, <2>1 DEF FoldLeft, MapThenFoldSet
<1>3. release_unused_segments(m, FALSE) = [m EXCEPT !.release_checks = r]
  BY <1>2 DEF release_unused_segments
<1> HIDE DEF r
<1> QED
  BY <1>3 DEF ChecksOnly

(* So is no end of top, for the area is the owner's.                        *)
LEMMA OnlyChecks ==
    ASSUME NEW done, NEW m, m = done.m, "segs" \in DOMAIN m, NEW seg, m.segs = <<seg>>
    PROVE  ChecksOnly(m, AfterFree(done, FALSE))
<1> DEFINE less == [m EXCEPT !.release_checks = @ - 1]
<1>1. AfterFree(done, FALSE) = IF done.into = "top" /\ should_trim(m) THEN sys_trim(m, 0, FALSE)
                               ELSE IF done.into = "bin" /\ ~is_small(done.size)
                               THEN IF less.release_checks = 0
                                    THEN release_unused_segments(less, FALSE) ELSE less
                               ELSE m
  BY DEF AfterFree
<1>2. ChecksOnly(m, less) /\ ChecksOnly(m, m) /\ "segs" \in DOMAIN less /\ less.segs = <<seg>>
  BY DEF ChecksOnly
<1> HIDE DEF less
<1>3. ChecksOnly(m, release_unused_segments(less, FALSE))
  BY <1>2, NoneReleased, ChecksThrough
<1>4. ChecksOnly(m, sys_trim(m, 0, FALSE))
  <2>1. shrink_top(m, 0 + TOP_FOOT_SIZE, FALSE) = m
    BY DEF shrink_top
  <2> DEFINE n == release_unused_segments(m, FALSE)
  <2>2. ChecksOnly(m, n)
    BY NoneReleased
  <2>3. sys_trim(m, 0, FALSE) = Trimmed(m, n)
    BY <2>1 DEF sys_trim
  <2> HIDE DEF n
  <2>4. ChecksOnly(n, [n EXCEPT !.trim_check = MAX_SIZE_T])
    BY DEF ChecksOnly
  <2>5. ChecksOnly(m, [n EXCEPT !.trim_check = MAX_SIZE_T])
    BY <2>2, <2>4, ChecksThrough
  <2> QED
    BY <2>2, <2>3, <2>5 DEF Trimmed
<1> QED
  BY <1>1, <1>2, <1>3, <1>4

(* What is sound stays so.                                                  *)
LEMMA ChecksAreNothing ==
    ASSUME NEW m, Sound(m), NEW w, ChecksOnly(m, w)
    PROVE  Sound(w) /\ Taken(w) = Taken(m) /\ FreeOnes(w) = FreeOnes(m)
           /\ w.head = m.head /\ w.foot = m.foot
<1>1. Phys(m) /\ Bins(m, DvSet(m)) /\ DvFits(m)
  BY DEF Sound
<1>2. Fields \subseteq DOMAIN m /\ Fields \subseteq DOMAIN w
  BY <1>1 DEF Phys, ChecksOnly
<1>3. \A f \in Fields : w[f] = m[f]
  BY <1>2 DEF Fields, BinFields, ChecksOnly
<1>4. /\ w.head = m.head /\ w.foot = m.foot /\ w.top = m.top /\ w.topsize = m.topsize
      /\ w.dv = m.dv /\ w.dvsize = m.dvsize /\ \A f \in BinFields : w[f] = m[f]
  BY <1>3 DEF Fields
<1>5. FreeOnes(w) = FreeOnes(m) /\ Taken(w) = Taken(m) /\ DvSet(w) = DvSet(m)
  BY <1>4 DEF FreeOnes, Taken, DvSet
<1>6. Phys(w)
  BY <1>1, <1>2, <1>4, <1>5 DEF Phys, FeetFit
<1>7. Keeps(m, w, FreeOnes(m) \ DvSet(m))
  BY <1>4 DEF Keeps, FreeOnes
<1>8. DvSet(w) \subseteq FreeOnes(w) /\ FreeOnes(w) \ DvSet(w) = FreeOnes(m) \ DvSet(m)
  BY <1>1, <1>5 DEF Bins
<1>9. Bins(w, DvSet(w))
  BY <1>1, <1>4, <1>6, <1>7, <1>8, WriteBins
<1>10. DvFits(w)
  BY <1>1, <1>4, <1>5 DEF DvFits
<1> QED
  BY <1>4, <1>5, <1>6, <1>9, <1>10 DEF Sound

(* Freeing a chunk gives up that chunk and leaves all others alone.         *)
LEMMA FreeFrees ==
    ASSUME NEW m, Sound(m), Limited(m), MaxSize < Pow(30), NEW mem, NEW p, p = mem2chunk(mem),
           mem # NULL, p \in Taken(m), p # Base
    PROVE  Freed(m, mspace_free(m, mem, FALSE), p)
<1> DEFINE done == Consolidate(m, p, ChunkSize(m, p))
           v == done.m
           w == AfterFree(done, FALSE)
<1>1. Freed(m, v, p)
  BY Consolidates DEF ChunkSize
<1>2. "segs" \in DOMAIN v
        /\ v.segs = <<[base |-> Base, size |-> MaxSize, extern |-> TRUE, record |-> chunk2mem(Base)]>>
  <2>1. SameArea(m, v) /\ HasArea(m)
    BY ConsolidateKeeps DEF Limited
  <2> HIDE DEF v
  <2>2. "segs" \in DOMAIN m /\ "segs" \in DOMAIN v /\ v.segs = m.segs
    BY <2>1 DEF HasArea, SameArea, Area
  <2> QED
    BY <2>2 DEF Limited
<1>3. mspace_free(m, mem, FALSE) = w
  <2>1. m.head[p].cinuse
    BY DEF Taken
  <2> QED
    BY <2>1 DEF mspace_free, is_mmapped, cinuse
<1> HIDE DEF done
<1>4. ChecksOnly(v, w)
  BY <1>2, OnlyChecks
<1> HIDE DEF v, w
<1>5. Sound(v) /\ Taken(v) = Taken(m) \ {p} /\ Keeps(m, v, Taken(v))
  BY <1>1 DEF Freed
<1>6. Sound(w) /\ Taken(w) = Taken(v) /\ w.head = v.head /\ w.foot = v.foot
  BY <1>4, <1>5, ChecksAreNothing
<1>7. Keeps(m, w, Taken(v))
  BY <1>5, <1>6, KeepsSame
<1> QED
  BY <1>3, <1>5, <1>6, <1>7 DEF Freed

(* What a request of nb bytes gets: a chunk p of that size or a little more *)
(* that was not in use.                                                     *)
Given(m, w, p, nb) ==
    /\ Sound(w) /\ p \notin Taken(m) /\ p # Base /\ p # NULL
    /\ Taken(w) = Taken(m) \cup {p} /\ Keeps(m, w, Taken(m))
    /\ nb <= w.head[p].size /\ w.head[p].size <= nb + 16

(* The size of a request that was padded.                                   *)
Padded(nb) == nb \in Nat /\ nb % 16 = 0 /\ nb >= 32

(* A free chunk p in hand, the victim and all others in their places.       *)
HeldOut(m, p) ==
    Phys(m) /\ DvFits(m) /\ p \in FreeOnes(m) /\ p # m.dv /\ Bins(m, DvSet(m) \cup {p})

(* All of it is used.                                                       *)
LEMMA WholeGiven ==
    ASSUME NEW m, NEW p, HeldOut(m, p), MaxSize < Pow(30), NEW nb, Padded(nb),
           NEW s, s = m.head[p].size, nb <= s, s < nb + 32
    PROVE  Given(m, set_inuse_and_pinuse(m, p, s), p, nb)
<1> DEFINE n == EndOf(m.head, p)
           w == set_inuse_and_pinuse(m, p, s)
<1>1. Phys(m) /\ DvFits(m) /\ p \in FreeOnes(m) /\ p # m.dv /\ Bins(m, DvSet(m) \cup {p})
  BY DEF HeldOut
<1>2. /\ SizeFits(s) /\ p \in Nat /\ p # NULL /\ p > Base /\ p \in DOMAIN m.head
      /\ n \in Nat /\ p \notin Taken(m)
  BY <1>1, FreeSizes DEF Taken, FreeOnes
<1>3. s = n - p /\ p < n
  BY <1>2, SMT DEF EndOf, SizeFits
<1>4. n \in DOMAIN m.head /\ m.head[p].pinuse = TRUE
  <2>1. p # End /\ ~m.head[p].cinuse /\ Layout(m.head, m.top)
    BY <1>1 DEF FreeOnes, Phys
  <2>2. ChunkFits(m.head, m.top, p) /\ m.head[p].pinuse \in BOOLEAN
    BY <1>2, <2>1, ChunkOf
  <2> QED
    BY <2>1, <2>2 DEF ChunkFits
<1> HIDE DEF n
<1>5. Joins(m, w, p, n, TRUE)
  BY <1>1, <1>2, <1>3, <1>4, JoinByUse
<1> HIDE DEF w
<1>6. /\ Fields \subseteq DOMAIN w /\ \A f \in BinFields : w[f] = m[f]
      /\ w.top = m.top /\ w.topsize = m.topsize /\ w.dv = m.dv /\ w.dvsize = m.dvsize
  BY <1>1, <1>5, HeadsOnly DEF Joins
<1>7. /\ Phys(w)
      /\ FreeOnes(w) = FreeOnes(m) \ {p}
      /\ Taken(w) = Taken(m) \cup {p}
      /\ Keeps(m, w, Taken(m)) /\ Keeps(m, w, FreeOnes(w))
      /\ w.head[p].size = m.head[p].size
  <2>1. /\ Merged(m.head, w.head, p, EndOf(m.head, p), TRUE)
        /\ FeetOutside(m, w, p, EndOf(m.head, p))
    BY <1>5 DEF Joins, n
  <2>2. Phys(m) /\ Fields \subseteq DOMAIN w /\ p \in FreeOnes(m) /\ w.top = m.top
        /\ w.topsize = m.topsize
    BY <1>1, <1>6
  <2>3. Phys(w) /\ Keeps(m, w, Taken(m)) /\ Keeps(m, w, FreeOnes(w))
    BY <2>1, <2>2, UseWhole
  <2>4. FreeOnes(w) = FreeOnes(m) \ {p} /\ Taken(w) = Taken(m) \cup {p}
    BY <2>1, <2>2, UseWhole
  <2>5. w.head[p].size = m.head[p].size
    <3>1. w.head[p] = [size |-> n - p, pinuse |-> m.head[p].pinuse, cinuse |-> TRUE]
      BY <1>5, Zenon DEF Joins, Merged
    <3>2. w.head[p].size = n - p
      BY <3>1
    <3> QED
      BY <1>3, <3>2
  <2> QED
    BY <2>3, <2>4, <2>5
<1>8. DvSet(m) \subseteq FreeOnes(m) \ {p}
  BY <1>1, DvFacts
<1>9. DvFits(w) /\ DvSet(w) = DvSet(m)
  BY <1>1, <1>6, <1>7, <1>8, DvStays
<1>10. FreeOnes(w) \ DvSet(m) = FreeOnes(m) \ (DvSet(m) \cup {p}) /\ DvSet(m) \subseteq FreeOnes(w)
  BY <1>7, <1>8
<1>11. Keeps(m, w, FreeOnes(m) \ (DvSet(m) \cup {p}))
  BY <1>7, <1>10, Zenon DEF Keeps
<1>12. Bins(w, DvSet(m))
  BY <1>1, <1>6, <1>7, <1>10, <1>11, WriteBins
<1>13. nb <= w.head[p].size /\ w.head[p].size <= nb + 16
  <2>1. w.head[p].size = s
    BY <1>7
  <2>2. s \in Nat /\ s % 16 = 0 /\ nb \in Nat /\ nb % 16 = 0
    BY <1>2 DEF SizeFits, Padded
  <2>3. s <= nb + 16
    BY <2>2, SMT
  <2> QED
    BY <2>1, <2>3
<1>14. p # Base
  BY <1>2, AreaEnds
<1> QED
  BY <1>2, <1>7, <1>9, <1>12, <1>13, <1>14 DEF w, Given, Sound

(* Its start is used, and the rest is free and in hand.                     *)
RestInHand(m, w, p, x, nb) ==
    /\ Phys(w) /\ DvFits(w) /\ DvSet(w) = DvSet(m) /\ w.dv = m.dv /\ w.dvsize = m.dvsize
    /\ x \in FreeOnes(w) /\ x # w.dv /\ x # NULL /\ Bins(w, DvSet(w) \cup {x})
    /\ Taken(w) = Taken(m) \cup {p} /\ Keeps(m, w, Taken(m)) /\ w.head[p].size = nb
    /\ w.head[x].size = m.head[p].size - nb /\ w.head[p].cinuse

(* So it is after the two heads are written.                                *)
LEMMA RestIsLeft ==
    ASSUME NEW m, NEW p, HeldOut(m, p), MaxSize < Pow(30), NEW nb, Padded(nb),
           NEW s, s = m.head[p].size - nb, nb + 32 <= m.head[p].size
    PROVE  RestInHand(m, set_size_and_pinuse_of_inuse_chunk(
                           set_size_and_pinuse_of_free_chunk(m, p + nb, s), p, nb), p, p + nb, nb)
<1> DEFINE n == EndOf(m.head, p)
           x == p + nb
           w == set_size_and_pinuse_of_inuse_chunk(set_size_and_pinuse_of_free_chunk(m, x, s), p, nb)
<1>1. Phys(m) /\ DvFits(m) /\ p \in FreeOnes(m) /\ p # m.dv /\ Bins(m, DvSet(m) \cup {p})
  BY DEF HeldOut
<1>2. /\ SizeFits(m.head[p].size) /\ p \in Nat /\ p # NULL /\ p > Base /\ p \in DOMAIN m.head
      /\ n \in Nat /\ p % 16 = 0
  BY <1>1, FreeSizes
<1>3. p # End /\ p # m.top /\ m.head[p].cinuse = FALSE /\ m.head[p].pinuse = TRUE
  <2>1. p # End /\ p # m.top /\ ~m.head[p].cinuse /\ Layout(m.head, m.top)
    BY <1>1 DEF FreeOnes, Phys
  <2>2. ChunkFits(m.head, m.top, p) /\ m.head[p].pinuse \in BOOLEAN /\ m.head[p].cinuse \in BOOLEAN
    BY <1>2, <2>1, ChunkOf
  <2> QED
    BY <2>1, <2>2 DEF ChunkFits
<1>4. /\ x \in Nat /\ x % 16 = 0 /\ p + 32 <= x /\ x + 32 <= n /\ x + 16 <= n /\ p < x /\ x < n
      /\ s = n - x /\ nb = x - p /\ n - p = m.head[p].size /\ x > 0
  BY <1>2, SMT DEF EndOf, SizeFits, Padded
<1> HIDE DEF n, x
<1>5. CutsAt(m, p, x) /\ s = EndOf(m.head, p) - x
  BY <1>2, <1>3, <1>4 DEF CutsAt, n
<1>6. Divides(m, w, p, x) /\ FootIs(w, EndOf(m.head, p), s)
  BY <1>1, <1>3, <1>4, <1>5, DivideFree
<1> HIDE DEF w
<1>7. /\ Fields \subseteq DOMAIN w /\ \A f \in BinFields : w[f] = m[f]
      /\ w.top = m.top /\ w.topsize = m.topsize /\ w.dv = m.dv /\ w.dvsize = m.dvsize
  BY <1>1, <1>6, HeadsOnly DEF Divides
<1>8. /\ Divided(m.head, w.head, p, x) /\ FeetOutside(m, w, p, n)
      /\ n \in DOMAIN w.foot /\ w.foot[n] = n - x
  BY <1>4, <1>6 DEF Divides, FootIs, n
<1>9. /\ Phys(w)
      /\ FreeOnes(w) = (FreeOnes(m) \ {p}) \cup {x}
      /\ Taken(w) = Taken(m) \cup {p}
      /\ Keeps(m, w, Taken(m)) /\ Keeps(m, w, FreeOnes(m) \ {p})
      /\ x \notin DOMAIN m.head
      /\ w.head[p].size = x - p /\ w.head[x].size = n - x
  <2>1. p \notin Taken(m)
    BY <1>1 DEF FreeOnes, Taken
  <2>2. /\ Phys(w)
        /\ FreeOnes(w) = (FreeOnes(m) \ {p}) \cup (IF p \in FreeOnes(m) THEN {x} ELSE {})
        /\ Taken(w) = Taken(m) \cup {p} \cup (IF p \in Taken(m) THEN {x} ELSE {})
        /\ Keeps(m, w, Taken(m) \ {p}) /\ Keeps(m, w, FreeOnes(m) \ {p})
        /\ x \notin DOMAIN m.head
        /\ w.head[p].size = x - p /\ w.head[x].size = n - x
    BY <1>1, <1>2, <1>3, <1>4, <1>7, <1>8, DivideChunk DEF n
  <2>3. Taken(m) \ {p} = Taken(m)
    BY <2>1
  <2> QED
    BY <1>1, <2>1, <2>2, <2>3
<1>10. DvSet(m) \subseteq FreeOnes(m) \ {p}
  BY <1>1, DvFacts
<1>11. DvSet(m) \subseteq FreeOnes(w) /\ x \in FreeOnes(w) /\ x \notin FreeOnes(m)
  <2>1. x \notin FreeOnes(m)
    BY <1>9 DEF FreeOnes
  <2> QED
    BY <1>9, <1>10, <2>1
<1>12. DvFits(w) /\ DvSet(w) = DvSet(m)
  BY <1>1, <1>7, <1>9, <1>10, <1>11, DvStays
<1>13. /\ DvSet(m) \cup {x} \subseteq FreeOnes(w)
       /\ FreeOnes(w) \ (DvSet(m) \cup {x}) = FreeOnes(m) \ (DvSet(m) \cup {p})
  BY <1>9, <1>10, <1>11
<1>14. Keeps(m, w, FreeOnes(m) \ (DvSet(m) \cup {p}))
  <2>1. FreeOnes(m) \ (DvSet(m) \cup {p}) \subseteq FreeOnes(m) \ {p}
    OBVIOUS
  <2> QED
    BY <1>9, <2>1, Zenon DEF Keeps
<1>15. Bins(w, DvSet(m) \cup {x})
  BY <1>1, <1>7, <1>9, <1>13, <1>14, WriteBins
<1>16. x # w.dv /\ x # NULL
  <2>1. x # NULL
    BY <1>4 DEF NULL
  <2>2. w.dv = m.dv
    BY <1>7
  <2>3. m.dvsize = 0 => m.dv = NULL
    BY <1>1 DEF DvFits
  <2>4. m.dvsize # 0 => m.dv \in FreeOnes(m)
    BY <1>1 DEF DvFits
  <2> QED
    BY <1>11, <2>1, <2>2, <2>3, <2>4
<1>17. w.head[p].cinuse
  BY <1>9 DEF Taken
<1>18. w.head[p].size = nb /\ w.head[x].size = m.head[p].size - nb
  BY <1>4, <1>9
<1>19. RestInHand(m, w, p, x, nb)
  BY <1>7, <1>9, <1>11, <1>12, <1>15, <1>16, <1>17, <1>18 DEF RestInHand
<1> QED
  BY <1>19 DEF w, x

-----------------------------------------------------------------------------
(* What is left of a chunk becomes the victim, which goes to its bin ...    *)
LEMMA RestToDv ==
    ASSUME NEW m, NEW w, NEW p, NEW x, NEW nb, RestInHand(m, w, p, x, nb), MaxSize < Pow(30),
           m.dvsize < 256, NEW s, s = m.head[p].size - nb
    PROVE  LET v == replace_dv(w, x, s) IN
           Sound(v) /\ Taken(v) = Taken(w) /\ v.head = w.head /\ v.foot = w.foot
<1> DEFINE b == IF w.dvsize # 0 THEN insert_small_chunk(w, w.dv, w.dvsize) ELSE w
           v == [b EXCEPT !.dv = x, !.dvsize = s]
<1>1. /\ Phys(w) /\ DvFits(w) /\ x \in FreeOnes(w) /\ x # w.dv
      /\ Bins(w, DvSet(w) \cup {x}) /\ w.head[x].size = s /\ w.dvsize = m.dvsize
  BY DEF RestInHand
<1>2. Phys(b) /\ Bins(b, {x}) /\ SameHeads(w, b) /\ FreeOnes(b) = FreeOnes(w) /\ Taken(b) = Taken(w)
  <2>1. CASE w.dvsize = 0
    <3>1. b = w /\ DvSet(w) \cup {x} = {x}
      BY <2>1 DEF DvSet
    <3> QED
      BY <1>1, <3>1 DEF SameHeads
  <2>2. CASE w.dvsize # 0
    <3>1. w.dv \in FreeOnes(w) /\ w.dvsize = w.head[w.dv].size /\ DvSet(w) = {w.dv}
      BY <1>1, <2>2, DvFacts
    <3>2. is_small(w.dvsize)
      <4>1. w.dvsize \in Nat
        BY <1>1, <3>1, FreeSizes DEF SizeFits
      <4> QED
        BY <1>1, <4>1, SmallOrLarge
    <3>3. b = insert_chunk(w, w.dv, w.dvsize)
      BY <2>2, <3>2 DEF insert_chunk
    <3> DEFINE X == DvSet(w) \cup {x}
               d == w.dv
    <3>4. d \in X /\ X \ {d} = {x} /\ Bins(w, X) /\ w.dvsize = w.head[d].size
      BY <1>1, <3>1
    <3> HIDE DEF X, b
    <3>5. LET u == insert_chunk(w, d, w.dvsize) IN
          /\ Phys(u) /\ SameHeads(w, u) /\ Bins(u, X \ {d})
          /\ FreeOnes(u) = FreeOnes(w) /\ Taken(u) = Taken(w)
      <4> HIDE DEF d
      <4> QED
        BY <1>1, <3>4, PutIn
    <3> QED
      BY <3>3, <3>4, <3>5
  <2> QED
    BY <2>1, <2>2
<1>3. replace_dv(w, x, s) = v
  BY DEF replace_dv
<1> HIDE DEF b
<1>4. b.head = w.head /\ b.foot = w.foot
  BY <1>2 DEF SameHeads
<1>5. {"dv", "dvsize"} \subseteq DOMAIN b
  BY <1>2 DEF Phys, Fields
<1>6. SameButDv(b, v) /\ v.dv = x /\ v.dvsize = b.head[x].size
  BY <1>1, <1>4, <1>5 DEF SameButDv
<1> HIDE DEF v
<1>7. Sound(v) /\ Taken(v) = Taken(b) /\ v.head = b.head /\ v.foot = b.foot
  BY <1>1, <1>2, <1>6, DvIsSound
<1> QED
  BY <1>2, <1>3, <1>4, <1>7

(* ... or goes to its bin itself. Either way what was asked for is given.   *)
LEMMA CarveGives ==
    ASSUME NEW m, NEW p, HeldOut(m, p), MaxSize < Pow(30), NEW nb, Padded(nb),
           nb <= m.head[p].size, NEW asDv, asDv \in BOOLEAN, asDv => m.dvsize < 256
    PROVE  Given(m, Carve(m, p, nb, asDv).m, p, nb)
<1> DEFINE rsize == ChunkSize(m, p) - nb
           split == set_size_and_pinuse_of_inuse_chunk(
                      set_size_and_pinuse_of_free_chunk(m, p + nb, rsize), p, nb)
           x == p + nb
<1>1. Phys(m) /\ p \in FreeOnes(m) /\ m.head[p].size \in Nat /\ nb \in Nat /\ p \in Nat /\ p > Base
  <2>1. Phys(m) /\ p \in FreeOnes(m)
    BY DEF HeldOut
  <2> QED
    BY <2>1, FreeSizes DEF SizeFits, Padded
<1>2. CASE rsize < 32
  <2>1. Carve(m, p, nb, asDv).m = set_inuse_and_pinuse(m, p, rsize + nb)
    BY <1>2 DEF Carve, Result, MIN_CHUNK_SIZE, SIZE_T_SIZE
  <2> DEFINE s == rsize + nb
  <2>2. s = m.head[p].size /\ nb <= s /\ s < nb + 32
    BY <1>1, <1>2 DEF ChunkSize
  <2> HIDE DEF s
  <2>3. Given(m, set_inuse_and_pinuse(m, p, s), p, nb)
    BY <2>2, WholeGiven
  <2> QED
    BY <2>1, <2>3 DEF s
<1>3. CASE ~(rsize < 32)
  <2>1. Carve(m, p, nb, asDv).m =
          IF asDv THEN replace_dv(split, x, rsize) ELSE insert_chunk(split, x, rsize)
    BY <1>3 DEF Carve, Result, MIN_CHUNK_SIZE, SIZE_T_SIZE
  <2>2. rsize = m.head[p].size - nb /\ nb + 32 <= m.head[p].size
    BY <1>1, <1>3 DEF ChunkSize
  <2> HIDE DEF rsize
  <2>3. RestInHand(m, split, p, x, nb)
    BY <2>2, RestIsLeft
  <2> HIDE DEF split, x
  <2>4. /\ Phys(split) /\ DvFits(split) /\ x \in FreeOnes(split) /\ x # split.dv
        /\ Bins(split, DvSet(split) \cup {x}) /\ Taken(split) = Taken(m) \cup {p}
        /\ Keeps(m, split, Taken(m)) /\ split.head[p].size = nb /\ split.head[x].size = rsize
    BY <2>2, <2>3 DEF RestInHand
  <2> DEFINE v == Carve(m, p, nb, asDv).m
  <2>5. Sound(v) /\ Taken(v) = Taken(split) /\ v.head = split.head /\ v.foot = split.foot
    <3>1. CASE asDv
      <4>1. v = replace_dv(split, x, rsize)
        BY <2>1, <3>1
      <4>2. m.dvsize < 256
        BY <3>1
      <4> HIDE DEF v
      <4> QED
        BY <2>2, <2>3, <4>1, <4>2, RestToDv
    <3>2. CASE ~asDv
      <4>1. v = insert_chunk(split, x, rsize)
        BY <2>1, <3>2
      <4> HIDE DEF v
      <4> QED
        BY <2>4, <4>1, BinIsSound
    <3> QED
      BY <3>1, <3>2
  <2> HIDE DEF v
  <2>6. Keeps(m, v, Taken(m))
    BY <2>4, <2>5, KeepsSame
  <2>7. v.head[p].size = nb
    BY <2>4, <2>5
  <2>8. p \notin Taken(m) /\ p # Base /\ p # NULL
    BY <1>1, AreaEnds DEF Taken, FreeOnes, NULL
  <2>9. Given(m, v, p, nb)
    BY <1>1, <2>4, <2>5, <2>6, <2>7, <2>8 DEF Given
  <2> QED
    BY <2>9 DEF v
<1> QED
  BY <1>2, <1>3

(* A free chunk but the victim is held out when it is taken from its bin,   *)
LEMMA TakeHolds ==
    ASSUME NEW m, Sound(m), MaxSize < Pow(30), NEW p \in FreeOnes(m), p # m.dv
    PROVE  LET u == Take(m, p) IN HeldOut(u, p) /\ SameHeads(m, u) /\ Taken(u) = Taken(m)
<1> DEFINE u == Take(m, p)
<1>1. Phys(m) /\ DvFits(m) /\ Bins(m, DvSet(m)) /\ p \notin DvSet(m)
  BY DEF Sound, DvSet
<1>2. /\ Phys(u) /\ SameHeads(m, u) /\ Bins(u, DvSet(m) \cup {p})
      /\ FreeOnes(u) = FreeOnes(m) /\ Taken(u) = Taken(m)
  BY <1>1, TakeOut DEF Take
<1> HIDE DEF u
<1>3. DvSet(u) = DvSet(m) /\ DvFits(u) /\ p # u.dv
  BY <1>1, <1>2 DEF DvSet, DvFits, SameHeads
<1> QED
  BY <1>2, <1>3 DEF HeldOut, u

(* and the victim is when it is none any more.                              *)
LEMMA VictimHolds ==
    ASSUME NEW m, Sound(m), MaxSize < Pow(30), m.dvsize # 0
    PROVE  LET u == WithoutDv(m) IN
           /\ HeldOut(u, m.dv) /\ u.head = m.head /\ u.foot = m.foot /\ Taken(u) = Taken(m)
           /\ u.dvsize = 0 /\ m.dv \in FreeOnes(m) /\ m.dvsize = m.head[m.dv].size
<1> DEFINE u == WithoutDv(m)
<1>1. Phys(m) /\ DvFits(m) /\ Bins(m, DvSet(m))
  BY DEF Sound
<1>2. m.dv \in FreeOnes(m) /\ m.dvsize = m.head[m.dv].size /\ DvSet(m) = {m.dv}
  BY <1>1, DvFacts
<1>3. {"dv", "dvsize"} \subseteq DOMAIN m
  BY <1>1 DEF Phys, Fields
<1>4. SameButDv(m, u) /\ u.dv = NULL /\ u.dvsize = 0
  BY <1>3 DEF SameButDv, WithoutDv
<1> HIDE DEF u
<1>5. /\ Phys(u) /\ Bins(u, DvSet(m)) /\ FreeOnes(u) = FreeOnes(m) /\ Taken(u) = Taken(m)
      /\ u.head = m.head /\ u.foot = m.foot
  BY <1>1, <1>4, NewDv
<1>6. DvSet(u) = {} /\ DvFits(u)
  BY <1>4 DEF DvSet, DvFits
<1>7. m.dv # NULL
  BY <1>1, <1>2, FreeSizes
<1>8. DvSet(u) \cup {m.dv} = DvSet(m)
  BY <1>2, <1>6
<1>9. HeldOut(u, m.dv)
  BY <1>2, <1>4, <1>5, <1>6, <1>7, <1>8 DEF HeldOut
<1> QED
  BY <1>2, <1>4, <1>5, <1>9 DEF u

(* What is given of the one is given of the other.                          *)
LEMMA GivenThrough ==
    ASSUME NEW m, NEW u, u.head = m.head, u.foot = m.foot, Taken(u) = Taken(m),
           NEW w, NEW p, NEW nb, Given(u, w, p, nb)
    PROVE  Given(m, w, p, nb)
BY Zenon DEF Given, Keeps

(* Carving a chunk from its bin ...                                         *)
LEMMA TakeGives ==
    ASSUME NEW m, Sound(m), MaxSize < Pow(30), NEW p \in FreeOnes(m), p # m.dv,
           NEW nb, Padded(nb), nb <= m.head[p].size, NEW asDv \in BOOLEAN, asDv => m.dvsize < 256
    PROVE  Given(m, Carve(Take(m, p), p, nb, asDv).m, p, nb)
<1> DEFINE u == Take(m, p)
           w == Carve(u, p, nb, asDv).m
<1>1. HeldOut(u, p) /\ SameHeads(m, u) /\ Taken(u) = Taken(m)
  BY TakeHolds
<1> HIDE DEF u
<1>2. u.head = m.head /\ u.foot = m.foot /\ u.dvsize = m.dvsize
  BY <1>1 DEF SameHeads
<1>3. Given(u, w, p, nb)
  BY <1>1, <1>2, CarveGives
<1> HIDE DEF w
<1> QED
  BY <1>1, <1>2, <1>3, GivenThrough DEF u, w

(* ... or using it as it is, ...                                            *)
LEMMA WholeTaken ==
    ASSUME NEW m, Sound(m), MaxSize < Pow(30), NEW p \in FreeOnes(m), p # m.dv,
           NEW nb, Padded(nb), NEW s, s = m.head[p].size, nb <= s, s < nb + 32
    PROVE  Given(m, set_inuse_and_pinuse(Take(m, p), p, s), p, nb)
<1> DEFINE u == Take(m, p)
           w == set_inuse_and_pinuse(u, p, s)
<1>1. HeldOut(u, p) /\ SameHeads(m, u) /\ Taken(u) = Taken(m)
  BY TakeHolds
<1> HIDE DEF u
<1>2. u.head = m.head /\ u.foot = m.foot
  BY <1>1 DEF SameHeads
<1>3. Given(u, w, p, nb)
  BY <1>1, <1>2, WholeGiven
<1> HIDE DEF w
<1> QED
  BY <1>1, <1>2, <1>3, GivenThrough DEF u, w

(* ... carving the victim ...                                               *)
LEMMA UseDvGives ==
    ASSUME NEW m, Sound(m), MaxSize < Pow(30), NEW nb, Padded(nb), nb <= m.dvsize
    PROVE  Given(m, UseDv(m, nb).m, m.dv, nb)
<1> DEFINE u == WithoutDv(m)
           d == m.dv
           b == TRUE
           w == Carve(u, d, nb, b).m
<1>1. m.dvsize # 0
  BY DEF Padded
<1>2. /\ HeldOut(u, d) /\ u.head = m.head /\ u.foot = m.foot /\ Taken(u) = Taken(m)
      /\ u.dvsize = 0 /\ m.dvsize = m.head[d].size
  BY <1>1, VictimHolds
<1> HIDE DEF u, d, b
<1>3. nb <= u.head[d].size /\ u.dvsize < 256 /\ b \in BOOLEAN
  BY <1>2 DEF b
<1>4. Given(u, w, d, nb)
  BY <1>2, <1>3, CarveGives
<1> HIDE DEF w
<1>5. Given(m, w, d, nb)
  BY <1>2, <1>4, GivenThrough
<1> QED
  BY <1>5 DEF UseDv, u, d, w, b

(* ... and taking the start of top.                                         *)
LEMMA SplitTopGives ==
    ASSUME NEW m, Sound(m), MaxSize < Pow(30), NEW nb, Padded(nb), nb < m.topsize, NEW otherwise
    PROVE  LET got == SplitTop(m, nb, otherwise) IN
           got.mem = chunk2mem(m.top) /\ Given(m, got.m, m.top, nb)
<1> DEFINE a == m.top
           x == a + nb
           v == set_size_and_pinuse_of_inuse_chunk(SetHead(m, x, m.topsize - nb, TRUE, FALSE), a, nb)
           w == [v EXCEPT !.top = @ + nb, !.topsize = @ - nb]
<1>1. Phys(m) /\ DvFits(m) /\ Bins(m, DvSet(m))
  BY DEF Sound
<1>2. /\ Layout(m.head, m.top) /\ m.topsize = m.head[a].size
  BY <1>1 DEF Phys
<1>3. a \in DOMAIN m.head /\ a # End /\ EndOf(m.head, a) = End /\ ~m.head[a].cinuse
      /\ m.head[Base].cinuse
  BY <1>2 DEF Layout
<1>4. a \in Nat /\ End \in Nat /\ a >= Base /\ Base \in Nat /\ a % 16 = 0 /\ End % 16 = 0
      /\ m.topsize \in Nat /\ m.head[a].cinuse = FALSE /\ m.head[a].pinuse = TRUE
      /\ m.topsize = End - a
  <2>1. /\ a \in Nat /\ End \in Nat /\ a >= Base /\ Base \in Nat /\ a % 16 = 0 /\ End % 16 = 0
        /\ m.topsize \in Nat /\ m.head[a].cinuse \in BOOLEAN /\ m.head[a].pinuse \in BOOLEAN
        /\ ChunkFits(m.head, m.top, a)
    BY <1>2, <1>3, ChunkOf, AreaEnds
  <2>2. m.head[a].pinuse
    BY <1>3, <2>1 DEF ChunkFits
  <2> QED
    BY <1>2, <1>3, <2>1, <2>2 DEF EndOf
<1>5. a # Base /\ a > Base
  BY <1>3, <1>4
<1>6. /\ x \in Nat /\ x % 16 = 0 /\ a + 32 <= x /\ x + 16 <= End /\ a < x /\ x < End
      /\ nb = x - a /\ m.topsize - nb = End - x
  BY <1>4, SMT DEF Padded
<1>7.
        SplitTop(m, nb, otherwise) = Result(w, a)
  BY DEF SplitTop, TopHolds
<1> HIDE DEF a, x
<1>8. CutsAt(m, a, x) /\ EndOf(m.head, a) = End
  BY <1>3, <1>4, <1>6 DEF CutsAt
<1>9. Divides(m, v, a, x)
  <2> DEFINE s == m.topsize - nb
  <2>1. s = EndOf(m.head, a) - x
    BY <1>6, <1>8
  <2> HIDE DEF s
  <2>2. Divides(m, set_size_and_pinuse_of_inuse_chunk(SetHead(m, x, s, TRUE, FALSE), a, nb), a, x)
    BY <1>1, <1>4, <1>6, <1>8, <2>1, DivideTop
  <2> QED
    BY <2>2 DEF s
<1> HIDE DEF v
<1>10. /\ Fields \subseteq DOMAIN v /\ \A f \in BinFields : v[f] = m[f]
       /\ v.top = m.top /\ v.topsize = m.topsize /\ v.dv = m.dv /\ v.dvsize = m.dvsize
  BY <1>1, <1>9, HeadsOnly DEF Divides
<1>11. /\ Fields \subseteq DOMAIN w /\ \A f \in BinFields : w[f] = m[f]
       /\ w.head = v.head /\ w.foot = v.foot /\ w.dv = m.dv /\ w.dvsize = m.dvsize
       /\ w.top = a + nb /\ w.topsize = m.topsize - nb
  BY <1>10 DEF Fields, BinFields, a
<1> HIDE DEF w
<1>12. w.top = x /\ w.topsize = End - x
  BY <1>4, <1>6, <1>11 DEF x
<1>13. Divided(m.head, w.head, a, x) /\ FeetOutside(m, w, a, EndOf(m.head, a))
  BY <1>9, <1>11, Zenon DEF Divides, FeetOutside
<1>14. a \notin FreeOnes(m) /\ a \notin Taken(m)
  BY <1>3 DEF FreeOnes, Taken, a
<1>15. /\ w.top = IF a = m.top THEN x ELSE m.top
       /\ w.topsize = IF a = m.top THEN End - x ELSE m.topsize
  BY <1>12 DEF a
<1>16. /\ Phys(w)
       /\ FreeOnes(w) = (FreeOnes(m) \ {a}) \cup (IF a \in FreeOnes(m) THEN {x} ELSE {})
       /\ Taken(w) = Taken(m) \cup {a} \cup (IF a \in Taken(m) THEN {x} ELSE {})
       /\ Keeps(m, w, Taken(m) \ {a}) /\ Keeps(m, w, FreeOnes(m) \ {a})
       /\ w.head[a].size = x - a
  <2>1. a # m.top => x + 32 <= EndOf(m.head, a)
    BY DEF a
  <2>2. x + 16 <= EndOf(m.head, a)
    BY <1>6, <1>8
  <2>3. a \in FreeOnes(m) => LET e == EndOf(m.head, a) IN e \in DOMAIN w.foot /\ w.foot[e] = e - x
    BY <1>14
  <2>4. /\ Phys(m) /\ Fields \subseteq DOMAIN w /\ a \in DOMAIN m.head /\ a # End
        /\ x \in Nat /\ x % 16 = 0 /\ a + 32 <= x
    BY <1>1, <1>3, <1>6, <1>11
  <2>5. Phys(w)
    BY <1>13, <1>15, <2>1, <2>2, <2>3, <2>4, DivideChunk
  <2>6. FreeOnes(w) = (FreeOnes(m) \ {a}) \cup (IF a \in FreeOnes(m) THEN {x} ELSE {})
    BY <1>13, <1>15, <2>1, <2>2, <2>3, <2>4, DivideChunk
  <2>7. Taken(w) = Taken(m) \cup {a} \cup (IF a \in Taken(m) THEN {x} ELSE {})
    BY <1>13, <1>15, <2>1, <2>2, <2>3, <2>4, DivideChunk
  <2>8. Keeps(m, w, Taken(m) \ {a}) /\ Keeps(m, w, FreeOnes(m) \ {a})
    BY <1>13, <1>15, <2>1, <2>2, <2>3, <2>4, DivideChunk
  <2>9. w.head[a].size = x - a
    <3>1. w.head[a] = [size |-> x - a, pinuse |-> m.head[a].pinuse, cinuse |-> TRUE]
      BY <1>13, Zenon DEF Divided
    <3> QED
      BY <3>1
  <2> QED
    BY <2>5, <2>6, <2>7, <2>8, <2>9
<1>17. /\ FreeOnes(w) = FreeOnes(m) /\ Taken(w) = Taken(m) \cup {a}
       /\ Keeps(m, w, Taken(m)) /\ Keeps(m, w, FreeOnes(m))
  <2>1. Taken(m) \ {a} = Taken(m) /\ FreeOnes(m) \ {a} = FreeOnes(m)
    BY <1>14
  <2> QED
    BY <1>14, <1>16, <2>1
<1>18. DvSet(m) \subseteq FreeOnes(m)
  BY <1>1, DvFacts
<1>19. DvFits(w) /\ DvSet(w) = DvSet(m)
  BY <1>1, <1>11, <1>17, <1>18, DvStays
<1>20. Keeps(m, w, FreeOnes(m) \ DvSet(m))
  BY <1>17, Zenon DEF Keeps
<1>21. Bins(w, DvSet(m))
  BY <1>1, <1>11, <1>16, <1>17, <1>18, <1>20, WriteBins
<1>22. w.head[a].size = nb /\ a # NULL
  BY <1>4, <1>5, <1>6, <1>16 DEF NULL
<1>23. nb \in Nat
  BY DEF Padded
<1>24. Given(m, w, a, nb)
  BY <1>5, <1>14, <1>16, <1>17, <1>19, <1>21, <1>22, <1>23 DEF Given, Sound
<1>25. Result(w, a).m = w /\ Result(w, a).mem = chunk2mem(a)
  BY <1>22 DEF Result
<1>26. SplitTop(m, nb, otherwise) = Result(w, a)
  BY <1>7 DEF w, v, a, x
<1> QED
  BY <1>24, <1>25, <1>26 DEF a

(* What the bins have is free, and not the victim.                          *)
LEMMA BinnedAreFree ==
    ASSUME NEW m, Sound(m), MaxSize < Pow(30)
    PROVE  /\ \A p \in Binned(m) : p \in FreeOnes(m) /\ p # m.dv
           /\ \A p \in FreeOnes(m) : p \in Binned(m) \/ (p = m.dv /\ m.dvsize # 0 /\ m.dvsize = m.head[p].size)
<1>1. Phys(m) /\ DvFits(m) /\ Binned(m) = FreeOnes(m) \ DvSet(m)
  BY DEF Sound, Bins
<1> QED
  BY <1>1, DvFacts

(* The first chunk of a small bin has its size.                             *)
LEMMA SmallFirst ==
    ASSUME NEW m, Sound(m), MaxSize < Pow(30), NEW i \in m.smallmap
    PROVE  LET p == FirstOfSmallbin(m, i) IN
           p \in FreeOnes(m) /\ p # m.dv /\ m.head[p].size = 8 * i /\ i \in Nat
<1> DEFINE a == m.smallbin[i]
<1>1. SmallsFit(m)
  BY DEF Sound, Bins, BinsFit
<1>2. i \in 0 .. 31 /\ a # <<>> /\ a \in Seq(Int)
  BY <1>1 DEF SmallsFit, RingFits
<1>3. FirstOfSmallbin(m, i) = a[1] /\ a[1] \in MembersOf(a)
  BY <1>2 DEF FirstOfSmallbin, MembersOf
<1>4. a[1] \in SmallBinned(m) /\ ChunkSize(m, a[1]) = 8 * i
  BY <1>1, <1>2, <1>3, SmallMembers
<1>5. a[1] \in FreeOnes(m) /\ a[1] # m.dv
  BY <1>4, BinnedAreFree DEF Binned
<1>7. i \in Nat
  <2>1. i \in 0 .. 31
    BY <1>1 DEF SmallsFit
  <2> QED
    BY <2>1
<1> HIDE DEF a
<1>6. m.head[a[1]].size = 8 * i
  BY <1>4, Zenon DEF ChunkSize
<1> QED
  BY <1>3, <1>5, <1>6, <1>7, Zenon

(* The small chunks by their bins.                                          *)
LEMMA SmallSizes ==
    ASSUME NEW m, Sound(m), NEW p \in SmallBinned(m)
    PROVE  \E i \in m.smallmap : i \in 0 .. 31 /\ m.head[p].size = 8 * i
<1>1. SmallsFit(m)
  BY DEF Sound, Bins, BinsFit
<1>2. PICK i \in 0 .. 31 : p \in MembersOf(m.smallbin[i])
  BY <1>1, SmallMembers
<1>3. m.head[p].size = 8 * i
  BY <1>1, <1>2, SmallMembers DEF ChunkSize
<1>4. m.smallbin[i] # <<>>
  BY <1>2 DEF MembersOf
<1>5. i \in m.smallmap
  BY <1>1, <1>4 DEF SmallsFit
<1> QED
  BY <1>3, <1>5

(* What the searches of the trees find.                                     *)
LEMMA TreesTell ==
    ASSUME NEW m, Sound(m), MaxSize < Pow(30)
    PROVE  /\ m.treemap = {} => Nodes(m) = {}
           /\ m.treemap # {} => LET p == least_chunk(m) IN
                 p \in FreeOnes(m) /\ p # m.dv /\ m.head[p].size >= 256
           /\ \A nb \in Sizes : LET p == best_fit(m, nb) IN
                 IF p = NULL THEN \A x \in Nodes(m) : m.head[x].size < nb
                 ELSE p \in FreeOnes(m) /\ p # m.dv /\ m.head[p].size >= nb
<1>1. PICK q : Fit(m, q)
  BY DEF Sound, Bins, BinsFit
<1>2. PICK d, top : TreesFit(m, d, top)
  BY <1>1 DEF Fit
<1>3. RingsFit(m, q)
  BY <1>1 DEF Fit
<1>4. \A x \in Nodes(m) : x \in FreeOnes(m) /\ x # m.dv
  BY BinnedAreFree DEF Binned
<1>5. \A x \in Nodes(m) : ChunkSize(m, x) = m.head[x].size /\ m.head[x].size \in Nat
                          /\ m.head[x].size >= 256 /\ x # NULL
  BY <1>2, BinOfANode, SizesAreBounded DEF ChunkSize
<1>6. ASSUME m.treemap = {} PROVE Nodes(m) = {}
  <2>1. ASSUME NEW x \in Nodes(m) PROVE FALSE
    <3>1. tree_find(m, x)
      BY <1>2, <1>3, EveryNodeIsFound
    <3> QED
      BY <1>6, <3>1 DEF tree_find
  <2> QED
    BY <2>1
<1>7. ASSUME m.treemap # {}
      PROVE  least_chunk(m) \in Nodes(m)
  <2>1. Nodes(m) # {}
    <3>1. PICK i \in m.treemap : TRUE
      BY <1>7
    <3>2. BinsTyped(m)
      BY <1>2 DEF TreesFit
    <3>3. i \in 0 .. 31 /\ m.treebin[i] # NULL
      BY <3>1, <3>2 DEF BinsTyped
    <3>4. m.treebin[i] \in Nodes(m) \cup {NULL}
      BY <3>2, <3>3 DEF BinsTyped
    <3> QED
      BY <3>3, <3>4
  <2>2. BestOf(m, Nodes(m), least_chunk(m))
    BY <1>2, <1>3, <2>1, LeastChunkFits
  <2> QED
    BY <2>1, <2>2 DEF BestOf
<1>8. ASSUME NEW nb \in Sizes
      PROVE  IF best_fit(m, nb) = NULL THEN \A x \in Nodes(m) : m.head[x].size < nb
             ELSE best_fit(m, nb) \in Nodes(m) /\ m.head[best_fit(m, nb)].size >= nb
  <2> DEFINE p == best_fit(m, nb)
             H == Holders(m, nb)
  <2>1. BestOf(m, H, p)
    BY <1>2, <1>3, BestFitFits
  <2> HIDE DEF p
  <2>2. p = NULL => H = {}
    <3>1. NULL \notin H
      BY <1>5 DEF Holders
    <3> QED
      BY <2>1, <3>1 DEF BestOf
  <2>3. p # NULL => p \in H
    BY <2>1 DEF BestOf
  <2>4. nb \in Nat
    BY SizesAreBounded
  <2>5. p = NULL => \A x \in Nodes(m) : m.head[x].size < nb
    BY <1>5, <2>2, <2>4 DEF Holders
  <2>6. p # NULL => p \in Nodes(m) /\ m.head[p].size >= nb
    BY <1>5, <2>3 DEF Holders
  <2> QED
    BY <2>5, <2>6 DEF p
<1> QED
  BY <1>4, <1>5, <1>6, <1>7, <1>8
-----------------------------------------------------------------------------
(* There is no chunk for a request.                                         *)
Lacks(m, nb) == m.topsize <= nb /\ \A p \in FreeOnes(m) : m.head[p].size < nb

(* What a request of nb bytes comes to.                                     *)
Serves(m, got, nb) ==
    \/ got.mem = NULL /\ got.m = m /\ (MaxSize <= MAX_REQUEST => Lacks(m, nb))
    \/ \E p : p # NULL /\ got.mem = chunk2mem(p) /\ Given(m, got.m, p, nb)

(* When neither bins nor victim have a chunk, top or nothing serves.        *)
LEMMA TopServes ==
    ASSUME NEW m, Sound(m), Limited(m), MaxSize < Pow(30), NEW nb, Padded(nb), NEW sys,
           m.dvsize < nb, \A p \in Binned(m) : m.head[p].size < nb
    PROVE  Serves(m, SplitTop(m, nb, sys_alloc(m, nb, sys)), nb)
<1>1. Phys(m)
  BY DEF Sound
<1>2. m.topsize \in Nat /\ nb \in Nat
  BY <1>1, ChunkOf DEF Phys, Layout, Padded
<1>3. CASE nb < m.topsize
  <2> DEFINE got == SplitTop(m, nb, sys_alloc(m, nb, sys))
  <2>1. got.mem = chunk2mem(m.top) /\ Given(m, got.m, m.top, nb)
    BY <1>3, SplitTopGives
  <2> HIDE DEF got
  <2>2. Serves(m, got, nb)
    BY <2>1 DEF Serves, Given
  <2> QED
    BY <2>2 DEF got
<1>4. CASE ~(nb < m.topsize)
  <2>1. SplitTop(m, nb, sys_alloc(m, nb, sys)) = sys_alloc(m, nb, sys)
    BY <1>4 DEF SplitTop, TopHolds
  <2>2. sys_alloc(m, nb, sys) = Result(m, NULL)
    <3>1. MaxSize \in Nat \ {0}
      BY AreaEnds
    <3> QED
      BY <1>2, <3>1, NothingIsMapped DEF Limited
  <2>3. Result(m, NULL).m = m /\ Result(m, NULL).mem = NULL
    BY DEF Result
  <2>4. Lacks(m, nb)
    <3>1. \A p \in FreeOnes(m) : m.head[p].size < nb
      BY BinnedAreFree
    <3>2. m.topsize <= nb
      BY <1>2, <1>4
    <3> QED
      BY <3>1, <3>2 DEF Lacks
  <2> QED
    BY <2>1, <2>2, <2>3, <2>4 DEF Serves
<1> QED
  BY <1>3, <1>4

(* A number of a set that is the least.                                     *)
LEMMA MinOfNats ==
    ASSUME NEW S \in SUBSET Nat, S # {}
    PROVE  Min(S) \in S
<1>1. \E x \in S : \A y \in S : x <= y
  BY LeastNat
<1> QED
  BY <1>1 DEF Min

(* The sizes of small and of large requests.                                *)
LEMMA RequestSizes ==
    ASSUME NEW bytes \in Nat
    PROVE  /\ Padded(request2size(bytes)) /\ request2size(bytes) > bytes
           /\ bytes <= MAX_SMALL_REQUEST => request2size(bytes) < 256
           /\ bytes > MAX_SMALL_REQUEST => /\ request2size(bytes) >= 256
                                           /\ pad_request(bytes) = request2size(bytes)
<1> DEFINE nb == request2size(bytes)
<1>1. /\ nb % 16 = 0 /\ nb >= 32 /\ nb >= bytes + 8 /\ (nb = 32 \/ nb < bytes + 24)
  BY RequestsArePadded, SMT DEF MALLOC_ALIGNMENT, MIN_CHUNK_SIZE, CHUNK_OVERHEAD, SIZE_T_SIZE
<1>2. nb \in Nat
  BY SizesAreNat
<1>3. MAX_SMALL_REQUEST = 232
  BY PowersOfTwo, SMT DEF MAX_SMALL_REQUEST, MIN_LARGE_SIZE, TREEBIN_SHIFT, MALLOC_ALIGNMENT,
     CHUNK_OVERHEAD, SIZE_T_SIZE
<1>4. bytes > 232 => pad_request(bytes) = nb
  BY SMT DEF request2size, MIN_REQUEST, MIN_CHUNK_SIZE, CHUNK_OVERHEAD, SIZE_T_SIZE
<1> HIDE DEF nb
<1>5. nb > bytes
  BY <1>1, <1>2
<1>6. bytes <= 232 => nb < 256
  BY <1>1, <1>2, SMT
<1>7. bytes > 232 => nb >= 256
  BY <1>1, <1>2, SMT
<1>8. Padded(nb)
  BY <1>1, <1>2 DEF Padded
<1> QED
  BY <1>3, <1>4, <1>5, <1>6, <1>7, <1>8 DEF nb

(* What is given is served.                                                 *)
LEMMA GivenServes ==
    ASSUME NEW m, NEW w, NEW p, NEW nb, Given(m, w, p, nb)
    PROVE  Serves(m, Result(w, p), nb)
<1>1. p # NULL
  BY DEF Given
<1>2. Result(w, p).m = w /\ Result(w, p).mem = chunk2mem(p)
  BY <1>1 DEF Result
<1> QED
  BY <1>1, <1>2 DEF Serves

(* Carve returns what it carves.                                            *)
LEMMA CarveServes ==
    ASSUME NEW m, NEW u, NEW p, NEW nb, NEW asDv, Given(m, Carve(u, p, nb, asDv).m, p, nb)
    PROVE  Serves(m, Carve(u, p, nb, asDv), nb)
<1> DEFINE w == Carve(u, p, nb, asDv).m
<1>1. Carve(u, p, nb, asDv) = Result(w, p)
  BY DEF Carve, Result
<1> HIDE DEF w
<1>2. Given(m, w, p, nb)
  BY DEF w
<1> QED
  BY <1>1, <1>2, GivenServes

(* A small request is served from a bin of its size, the victim, the        *)
(* smallest larger bin, the trees or top.                                   *)
LEMMA SmallServes ==
    ASSUME NEW m, Sound(m), Limited(m), MaxSize < Pow(30), NEW bytes \in Nat,
           bytes <= MAX_SMALL_REQUEST, NEW sys
    PROVE  Serves(m, malloc_small(m, bytes, sys), request2size(bytes))
<1> DEFINE nb     == request2size(bytes)
           idx    == small_index(nb)
           exact  == {idx, idx + 1} \cap m.smallmap
           larger == {i \in m.smallmap : i > idx}
<1>1. Padded(nb) /\ nb < 256 /\ nb \in Nat /\ nb > 0
  BY RequestSizes DEF Padded
<1>2. malloc_small(m, bytes, sys) =
        IF exact # {}
        THEN LET p == FirstOfSmallbin(m, Min(exact)) IN
             Result(set_inuse_and_pinuse(Take(m, p), p, ChunkSize(m, p)), p)
        ELSE IF nb <= m.dvsize THEN UseDv(m, nb)
        ELSE IF larger # {}
        THEN LET p == FirstOfSmallbin(m, Min(larger)) IN
             Carve(Take(m, p), p, nb, TRUE)
        ELSE IF m.treemap # {} THEN tmalloc_small(m, nb, least_chunk(m))
        ELSE SplitTop(m, nb, sys_alloc(m, nb, sys))
  BY DEF malloc_small
<1> HIDE DEF nb
<1>3. idx \in Nat /\ nb = 8 * idx
  <2>1. nb % 8 = 0
    BY <1>1, SMT DEF Padded
  <2>2. idx \in 0 .. 31 /\ nb = 8 * idx
    BY <1>1, <2>1, SmallOrLarge
  <2> HIDE DEF idx
  <2> QED
    BY <2>2
<1> HIDE DEF idx
<1>4. m.smallmap \in SUBSET Nat
  <2>1. SmallsFit(m)
    BY DEF Sound, Bins, BinsFit
  <2>2. m.smallmap \subseteq 0 .. 31
    BY <2>1 DEF SmallsFit
  <2>3. \A i \in 0 .. 31 : i \in Nat
    OBVIOUS
  <2> QED
    BY <2>2, <2>3, Zenon
<1>5. m.dvsize \in Nat
  <2>1. Phys(m) /\ DvFits(m)
    BY DEF Sound
  <2> QED
    BY <2>1, FreeSizes DEF DvFits, SizeFits
<1>6. CASE exact # {}
  <2> DEFINE i == Min(exact)
             p == FirstOfSmallbin(m, i)
             s == ChunkSize(m, p)
  <2>1. i \in exact
    BY <1>4, <1>6, MinOfNats
  <2> HIDE DEF i
  <2>2. i \in m.smallmap /\ i \in Nat /\ (i = idx \/ i = idx + 1)
    BY <1>4, <2>1
  <2>3. p \in FreeOnes(m) /\ p # m.dv /\ m.head[p].size = 8 * i
    BY <2>2, SmallFirst
  <2> HIDE DEF p
  <2>4. s = m.head[p].size /\ s = 8 * i
    BY <2>3, Zenon DEF ChunkSize
  <2> HIDE DEF s, exact
  <2>5. nb <= s /\ s < nb + 32
    BY <1>3, <2>2, <2>4
  <2>6. Given(m, set_inuse_and_pinuse(Take(m, p), p, s), p, nb)
    BY <1>1, <2>3, <2>4, <2>5, WholeTaken
  <2>7. malloc_small(m, bytes, sys) = Result(set_inuse_and_pinuse(Take(m, p), p, s), p)
    BY <1>2, <1>6, Zenon DEF p, s, i
  <2>8. Serves(m, Result(set_inuse_and_pinuse(Take(m, p), p, s), p), nb)
    BY <2>6, GivenServes
  <2> QED
    BY <2>7, <2>8, Zenon DEF nb
<1>7. CASE exact = {} /\ nb <= m.dvsize
  <2>1. Given(m, UseDv(m, nb).m, m.dv, nb)
    BY <1>1, <1>7, UseDvGives
  <2>2. UseDv(m, nb) = Carve(WithoutDv(m), m.dv, nb, TRUE)
    BY DEF UseDv
  <2>3. Serves(m, UseDv(m, nb), nb)
    BY <2>1, <2>2, CarveServes
  <2>4. malloc_small(m, bytes, sys) = UseDv(m, nb)
    BY <1>2, <1>7, Zenon
  <2> QED
    BY <2>3, <2>4, Zenon DEF nb
<1>8. CASE exact = {} /\ ~(nb <= m.dvsize) /\ larger # {}
  <2> DEFINE i == Min(larger)
             p == FirstOfSmallbin(m, i)
             b == TRUE
  <2>1. i \in larger
    BY <1>4, <1>8, MinOfNats
  <2> HIDE DEF i
  <2>2. i \in m.smallmap /\ i \in Nat /\ i > idx
    BY <1>4, <2>1
  <2>3. p \in FreeOnes(m) /\ p # m.dv /\ m.head[p].size = 8 * i
    BY <2>2, SmallFirst
  <2> HIDE DEF p, exact, larger, b
  <2>4. nb <= m.head[p].size
    BY <1>3, <2>2, <2>3
  <2>5. b \in BOOLEAN /\ m.dvsize < 256
    BY <1>1, <1>5, <1>8 DEF b
  <2>6. Given(m, Carve(Take(m, p), p, nb, b).m, p, nb)
    BY <1>1, <2>3, <2>4, <2>5, TakeGives
  <2>7. Serves(m, Carve(Take(m, p), p, nb, b), nb)
    BY <2>6, CarveServes
  <2>8. malloc_small(m, bytes, sys) = Carve(Take(m, p), p, nb, b)
    BY <1>2, <1>8, Zenon DEF p, i, b
  <2> QED
    BY <2>7, <2>8, Zenon DEF nb
<1>9. CASE exact = {} /\ ~(nb <= m.dvsize) /\ larger = {} /\ m.treemap # {}
  <2> DEFINE p == least_chunk(m)
             b == TRUE
  <2>1. p \in FreeOnes(m) /\ p # m.dv /\ m.head[p].size >= 256
    BY <1>9, TreesTell
  <2> HIDE DEF p, b, exact, larger
  <2>2. nb <= m.head[p].size /\ b \in BOOLEAN /\ m.dvsize < 256
    <3>1. m.head[p].size \in Nat
      BY <2>1, FreeSizes DEF Sound, SizeFits
    <3> QED
      BY <1>1, <1>5, <1>9, <2>1, <3>1 DEF b
  <2>3. Given(m, Carve(Take(m, p), p, nb, b).m, p, nb)
    BY <1>1, <2>1, <2>2, TakeGives
  <2>4. Serves(m, Carve(Take(m, p), p, nb, b), nb)
    BY <2>3, CarveServes
  <2>5. malloc_small(m, bytes, sys) = Carve(Take(m, p), p, nb, b)
    BY <1>2, <1>9, Zenon DEF p, b, tmalloc_small
  <2> QED
    BY <2>4, <2>5, Zenon DEF nb
<1>10. CASE exact = {} /\ ~(nb <= m.dvsize) /\ larger = {} /\ m.treemap = {}
  <2>1. m.dvsize < nb
    BY <1>1, <1>5, <1>10
  <2>2. ASSUME NEW p \in Binned(m) PROVE m.head[p].size < nb
    <3>1. Nodes(m) = {}
      BY <1>10, TreesTell
    <3>2. p \in SmallBinned(m)
      BY <3>1 DEF Binned
    <3>3. PICK i \in m.smallmap : i \in 0 .. 31 /\ m.head[p].size = 8 * i
      BY <3>2, SmallSizes
    <3>4. ~(i > idx) /\ i # idx
      BY <1>10, <3>3
    <3> QED
      BY <1>3, <3>3, <3>4
  <2>3. Serves(m, SplitTop(m, nb, sys_alloc(m, nb, sys)), nb)
    BY <1>1, <2>1, <2>2, TopServes
  <2>4. malloc_small(m, bytes, sys) = SplitTop(m, nb, sys_alloc(m, nb, sys))
    BY <1>2, <1>10, Zenon
  <2> QED
    BY <2>3, <2>4, Zenon DEF nb
<1> QED
  BY <1>6, <1>7, <1>8, <1>9, <1>10, Zenon DEF nb

(* A large request is served from the trees, the victim or top.             *)
LEMMA LargeServes ==
    ASSUME NEW m, Sound(m), Limited(m), MaxSize < Pow(30), NEW nb \in Sizes, Padded(nb), NEW sys,
           NEW v, v = IF m.treemap = {} THEN NULL ELSE best_fit(m, nb)
    PROVE  Serves(m, tmalloc_large(m, nb, v, DvOrTop(m, nb, sys)), nb)
<1>1. nb \in Nat /\ nb >= 256
  BY SizesAreBounded
<1>2. m.dvsize \in Nat
  <2>1. Phys(m) /\ DvFits(m)
    BY DEF Sound
  <2> QED
    BY <2>1, FreeSizes DEF DvFits, SizeFits
<1>3. /\ v = NULL => \A x \in Nodes(m) : m.head[x].size < nb
      /\ v # NULL => v \in FreeOnes(m) /\ v # m.dv /\ m.head[v].size >= nb
  <2>1. CASE m.treemap = {}
    BY <2>1, TreesTell
  <2>2. CASE m.treemap # {}
    <3> DEFINE p == best_fit(m, nb)
    <3>1. IF p = NULL THEN \A x \in Nodes(m) : m.head[x].size < nb
          ELSE p \in FreeOnes(m) /\ p # m.dv /\ m.head[p].size >= nb
      BY TreesTell
    <3>2. v = p
      BY <2>2
    <3> HIDE DEF p
    <3> QED
      BY <3>1, <3>2
  <2> QED
    BY <2>1, <2>2
<1>4. CASE BetterThanDv(m, v, nb)
  <2> DEFINE b == FALSE
  <2>1. v # NULL
    BY <1>4 DEF BetterThanDv
  <2>2. v \in FreeOnes(m) /\ v # m.dv /\ m.head[v].size >= nb
    BY <1>3, <2>1
  <2> HIDE DEF b
  <2>3. nb <= m.head[v].size /\ b \in BOOLEAN /\ (b => m.dvsize < 256)
    <3>1. m.head[v].size \in Nat
      BY <2>2, FreeSizes DEF Sound, SizeFits
    <3> QED
      BY <1>1, <2>2, <3>1 DEF b
  <2>4. Given(m, Carve(Take(m, v), v, nb, b).m, v, nb)
    BY <2>2, <2>3, TakeGives
  <2>5. Serves(m, Carve(Take(m, v), v, nb, b), nb)
    BY <2>4, CarveServes
  <2>6. tmalloc_large(m, nb, v, DvOrTop(m, nb, sys)) = Carve(Take(m, v), v, nb, b)
    BY <1>4, Zenon DEF tmalloc_large, b
  <2> QED
    BY <2>5, <2>6
<1>5. CASE ~BetterThanDv(m, v, nb) /\ nb <= m.dvsize
  <2>1. Given(m, UseDv(m, nb).m, m.dv, nb)
    BY <1>5, UseDvGives
  <2>2. UseDv(m, nb) = Carve(WithoutDv(m), m.dv, nb, TRUE)
    BY DEF UseDv
  <2>3. Serves(m, UseDv(m, nb), nb)
    BY <2>1, <2>2, CarveServes
  <2>4. tmalloc_large(m, nb, v, DvOrTop(m, nb, sys)) = UseDv(m, nb)
    BY <1>5, Zenon DEF tmalloc_large, DvOrTop
  <2> QED
    BY <2>3, <2>4
<1>6. CASE ~BetterThanDv(m, v, nb) /\ ~(nb <= m.dvsize)
  <2>1. m.dvsize < nb
    BY <1>1, <1>2, <1>6
  <2>2. v = NULL
    BY <1>1, <1>2, <1>6, <2>1 DEF BetterThanDv
  <2>3. ASSUME NEW p \in Binned(m) PROVE m.head[p].size < nb
    <3>1. CASE p \in Nodes(m)
      BY <1>3, <2>2, <3>1
    <3>2. CASE p \in SmallBinned(m)
      <4>1. PICK i \in m.smallmap : i \in 0 .. 31 /\ m.head[p].size = 8 * i
        BY <3>2, SmallSizes
      <4> QED
        BY <1>1, <4>1
    <3> QED
      BY <3>1, <3>2 DEF Binned
  <2>4. Serves(m, SplitTop(m, nb, sys_alloc(m, nb, sys)), nb)
    BY <2>1, <2>3, TopServes
  <2>5. tmalloc_large(m, nb, v, DvOrTop(m, nb, sys)) = SplitTop(m, nb, sys_alloc(m, nb, sys))
    BY <1>6, Zenon DEF tmalloc_large, DvOrTop
  <2> QED
    BY <2>4, <2>5
<1> QED
  BY <1>4, <1>5, <1>6

(* No chunk is as large as the area.                                        *)
LEMMA SizesInArea ==
    ASSUME NEW m, Phys(m), NEW s \in Nat, MaxSize <= s
    PROVE  Lacks(m, s)
<1>1. Layout(m.head, m.top) /\ m.topsize = m.head[m.top].size
  BY DEF Phys
<1>2. ASSUME NEW p \in DOMAIN m.head, p # End
      PROVE  m.head[p].size \in Nat /\ m.head[p].size < s
  <2>1. /\ p \in Nat /\ p >= Base /\ m.head[p].size \in Nat /\ EndOf(m.head, p) <= End
    BY <1>1, <1>2, ChunkOf
  <2>2. /\ Base \in Nat /\ End \in Nat /\ MaxSize \in Nat /\ End + 80 = Base + MaxSize
    BY AreaEnds
  <2> QED
    BY <2>1, <2>2 DEF EndOf
<1>3. m.top \in DOMAIN m.head /\ m.top # End
  BY <1>1 DEF Layout
<1>4. m.topsize <= s
  BY <1>1, <1>2, <1>3
<1>5. \A p \in FreeOnes(m) : m.head[p].size < s
  BY <1>2 DEF FreeOnes
<1> QED
  BY <1>4, <1>5 DEF Lacks

(* What mspace_malloc comes to.                                             *)
LEMMA MallocServes ==
    ASSUME NEW m, Sound(m), Limited(m), MaxSize < Pow(30), NEW bytes \in Nat, NEW sys,
           request2size(bytes) < Pow(30)
    PROVE  Serves(m, mspace_malloc(m, bytes, sys), request2size(bytes))
<1> DEFINE nb == request2size(bytes)
           v == IF m.treemap = {} THEN NULL ELSE best_fit(m, nb)
<1>1. /\ Padded(nb) /\ nb > bytes /\ nb \in Nat
      /\ bytes > MAX_SMALL_REQUEST => nb >= 256 /\ pad_request(bytes) = nb
  BY RequestSizes DEF Padded
<1>2. MAX_SMALL_REQUEST \in Nat /\ MAX_REQUEST \in Nat /\ MaxSize \in Nat
  <2>1. MAX_SMALL_REQUEST = 232
    BY PowersOfTwo, SMT DEF MAX_SMALL_REQUEST, MIN_LARGE_SIZE, TREEBIN_SHIFT, MALLOC_ALIGNMENT,
       CHUNK_OVERHEAD, SIZE_T_SIZE
  <2> QED
    BY <2>1, AreaEnds, MspaceAssumption
<1>3. CASE bytes <= MAX_SMALL_REQUEST
  BY <1>3, SmallServes, Zenon DEF mspace_malloc
<1>4. CASE ~(bytes <= MAX_SMALL_REQUEST) /\ bytes >= MAX_REQUEST
  <2>1. mspace_malloc(m, bytes, sys) = Result(m, NULL)
    BY <1>4, Zenon DEF mspace_malloc
  <2>2. MaxSize <= MAX_REQUEST => MaxSize <= nb
    <3> HIDE DEF nb
    <3> QED
      BY <1>1, <1>2, <1>4
  <2>3. MaxSize <= MAX_REQUEST => Lacks(m, nb)
    BY <1>1, <2>2, SizesInArea DEF Sound
  <2>4. Result(m, NULL).m = m /\ Result(m, NULL).mem = NULL
    BY DEF Result
  <2> QED
    BY <2>1, <2>3, <2>4 DEF Serves
<1>5. CASE ~(bytes <= MAX_SMALL_REQUEST) /\ ~(bytes >= MAX_REQUEST)
  <2>1. bytes > MAX_SMALL_REQUEST
    BY <1>2, <1>5
  <2>2. nb \in Sizes
    <3> HIDE DEF nb
    <3> QED
      BY <1>1, <2>1, SmallOrLarge DEF nb
  <2>3. pad_request(bytes) = nb
    BY <1>1, <2>1
  <2>4. mspace_malloc(m, bytes, sys) = tmalloc_large(m, nb, v, DvOrTop(m, nb, sys))
    <3> HIDE DEF nb
    <3> QED
      BY <1>5, <2>3, Zenon DEF mspace_malloc
  <2>5. Serves(m, tmalloc_large(m, nb, v, DvOrTop(m, nb, sys)), nb)
    BY <1>1, <2>2, LargeServes
  <2> QED
    BY <2>4, <2>5, Zenon
<1> QED
  BY <1>3, <1>4, <1>5

(* A chunk in use is cut in two that are in use, of which neither is yet    *)
(* given up.                                                                *)
Cut2(m, w, a, x) ==
    /\ Sound(w) /\ x \notin DOMAIN m.head /\ Taken(w) = Taken(m) \cup {x}
    /\ Keeps(m, w, Taken(m) \ {a})
    /\ w.head[a].size = x - a /\ w.head[x].size = EndOf(m.head, a) - x

(* So it is after the two heads are written, in either order.               *)
LEMMA CutIsSound ==
    ASSUME NEW m, Sound(m), MaxSize < Pow(30), NEW a \in Taken(m), NEW x \in Nat, x % 16 = 0,
           a + 32 <= x, x + 32 <= EndOf(m.head, a), NEW w, Divides(m, w, a, x)
    PROVE  Cut2(m, w, a, x)
<1>1. Phys(m) /\ DvFits(m) /\ Bins(m, DvSet(m))
  BY DEF Sound
<1>2. /\ a \in DOMAIN m.head /\ a # End /\ a # m.top /\ a \in Nat /\ a \notin FreeOnes(m)
      /\ EndOf(m.head, a) \in Nat
  BY <1>1, UsedChunk
<1>3. /\ Fields \subseteq DOMAIN w /\ \A f \in BinFields : w[f] = m[f]
      /\ w.top = m.top /\ w.topsize = m.topsize /\ w.dv = m.dv /\ w.dvsize = m.dvsize
  BY <1>1, HeadsOnly DEF Divides
<1>4. Divided(m.head, w.head, a, x) /\ FeetOutside(m, w, a, EndOf(m.head, a))
  BY DEF Divides
<1>5. /\ Phys(w)
      /\ FreeOnes(w) = (FreeOnes(m) \ {a}) \cup (IF a \in FreeOnes(m) THEN {x} ELSE {})
      /\ Taken(w) = Taken(m) \cup {a} \cup (IF a \in Taken(m) THEN {x} ELSE {})
      /\ Keeps(m, w, Taken(m) \ {a}) /\ Keeps(m, w, FreeOnes(m) \ {a})
      /\ x \notin DOMAIN m.head
      /\ w.head[a].size = x - a /\ w.head[x].size = EndOf(m.head, a) - x
  <2>1. x + 16 <= EndOf(m.head, a)
    BY <1>2
  <2>2. /\ w.top = IF a = m.top THEN x ELSE m.top
        /\ w.topsize = IF a = m.top THEN End - x ELSE m.topsize
    BY <1>2, <1>3
  <2>3. a \in FreeOnes(m) => LET e == EndOf(m.head, a) IN e \in DOMAIN w.foot /\ w.foot[e] = e - x
    BY <1>2
  <2>4. Fields \subseteq DOMAIN w
    BY <1>3
  <2>5. Phys(w)
    BY <1>1, <1>2, <1>4, <2>1, <2>2, <2>3, <2>4, DivideChunk
  <2>6. FreeOnes(w) = (FreeOnes(m) \ {a}) \cup (IF a \in FreeOnes(m) THEN {x} ELSE {})
    BY <1>1, <1>2, <1>4, <2>1, <2>2, <2>3, <2>4, DivideChunk
  <2>7. Taken(w) = Taken(m) \cup {a} \cup (IF a \in Taken(m) THEN {x} ELSE {})
    BY <1>1, <1>2, <1>4, <2>1, <2>2, <2>3, <2>4, DivideChunk
  <2>8. Keeps(m, w, Taken(m) \ {a}) /\ Keeps(m, w, FreeOnes(m) \ {a})
    BY <1>1, <1>2, <1>4, <2>1, <2>2, <2>3, <2>4, DivideChunk
  <2>9. x \notin DOMAIN m.head
    BY <1>1, <1>2, <1>4, <2>1, <2>2, <2>3, <2>4, DivideChunk
  <2>10. w.head[a].size = x - a
    <3>1. w.head[a] = [size |-> x - a, pinuse |-> m.head[a].pinuse, cinuse |-> TRUE]
      BY <1>4, Zenon DEF Divided
    <3> QED
      BY <3>1
  <2>11. w.head[x].size = EndOf(m.head, a) - x
    <3>1. w.head[x] = [size |-> EndOf(m.head, a) - x, pinuse |-> TRUE, cinuse |-> m.head[a].cinuse]
      BY <1>4, Zenon DEF Divided
    <3> QED
      BY <3>1
  <2> QED
    BY <2>5, <2>6, <2>7, <2>8, <2>9, <2>10, <2>11
<1>6. FreeOnes(w) = FreeOnes(m) /\ Taken(w) = Taken(m) \cup {x} /\ Keeps(m, w, FreeOnes(m))
  <2>1. FreeOnes(m) \ {a} = FreeOnes(m)
    BY <1>2
  <2> QED
    BY <1>2, <1>5, <2>1
<1>7. DvSet(m) \subseteq FreeOnes(m)
  BY <1>1, DvFacts
<1>8. DvFits(w) /\ DvSet(w) = DvSet(m)
  BY <1>1, <1>3, <1>6, <1>7, DvStays
<1>9. Keeps(m, w, FreeOnes(m) \ DvSet(m))
  BY <1>6, Zenon DEF Keeps
<1>10. Bins(w, DvSet(m))
  BY <1>1, <1>3, <1>5, <1>6, <1>7, <1>9, WriteBins
<1> QED
  BY <1>5, <1>6, <1>8, <1>10 DEF Cut2, Sound

(* Where a chunk is cut.                                                    *)
LEMMA CutIsAt ==
    ASSUME NEW m, Phys(m), NEW a \in Taken(m), NEW x \in Nat, a < x, x < EndOf(m.head, a)
    PROVE  CutsAt(m, a, x) /\ m.head[a].cinuse = TRUE
<1>1. a \in DOMAIN m.head /\ a # End
  BY UsedChunk
<1>2. m.head[a].cinuse \in BOOLEAN /\ m.head[a].cinuse
  BY <1>1, ChunkOf DEF Taken, Phys
<1> QED
  BY <1>1, <1>2 DEF CutsAt

(* The end of a chunk is given up: ...                                      *)
LEMMA GiveUpEndGives ==
    ASSUME NEW m, Sound(m), MaxSize < Pow(30), NEW p \in Taken(m), p # Base,
           NEW nb, Padded(nb), nb + 32 <= m.head[p].size
    PROVE  LET w == GiveUpEnd(m, p, nb) IN
           /\ Sound(w) /\ Taken(w) = Taken(m) /\ Keeps(m, w, Taken(m) \ {p})
           /\ w.head[p].size = nb
<1> DEFINE x == p + nb
           rest == ChunkSize(m, p) - nb
           v == set_inuse(set_inuse(m, p, nb), x, rest)
           w == Consolidate(v, x, rest).m
<1>1. GiveUpEnd(m, p, nb) = w
  BY DEF GiveUpEnd, dispose_chunk
<1>2. Phys(m)
  BY DEF Sound
<1>3. p \in Nat /\ m.head[p].size \in Nat /\ p % 16 = 0 /\ p >= Base /\ p \in DOMAIN m.head
      /\ EndOf(m.head, p) = p + m.head[p].size
  BY <1>2, UsedChunk DEF EndOf
<1>4. /\ x \in Nat /\ x % 16 = 0 /\ p + 32 <= x /\ x + 32 <= EndOf(m.head, p)
      /\ p < x /\ x < EndOf(m.head, p) /\ nb = x - p /\ rest = EndOf(m.head, p) - x /\ x # Base
  BY <1>3, AreaEnds, SMT DEF Padded, ChunkSize
<1> HIDE DEF x, rest
<1>5. CutsAt(m, p, x) /\ m.head[p].cinuse = TRUE
  BY <1>2, <1>4, CutIsAt
<1>6. Divides(m, v, p, x)
  BY <1>2, <1>4, <1>5, DivideFromStart
<1> HIDE DEF v
<1>7. Cut2(m, v, p, x)
  BY <1>4, <1>6, CutIsSound
<1>8. /\ Sound(v) /\ x \notin DOMAIN m.head /\ Taken(v) = Taken(m) \cup {x}
      /\ Keeps(m, v, Taken(m) \ {p}) /\ v.head[p].size = x - p
      /\ v.head[x].size = rest
  BY <1>4, <1>7 DEF Cut2
<1>9. Freed(v, w, x)
  BY <1>4, <1>8, Consolidates
<1> HIDE DEF w
<1>10. x \notin Taken(m)
  BY <1>8 DEF Taken
<1>11. Sound(w) /\ Taken(w) = Taken(m) /\ Keeps(v, w, Taken(m))
  BY <1>8, <1>9, <1>10 DEF Freed
<1>12. Keeps(m, w, Taken(m) \ {p})
  <2>1. (Taken(m) \ {p}) \cap Taken(m) = Taken(m) \ {p}
    OBVIOUS
  <2>2. Keeps(m, w, (Taken(m) \ {p}) \cap Taken(m))
    BY <1>8, <1>11, KeepsThrough
  <2> QED
    BY <2>1, <2>2
<1>13. w.head[p].size = nb
  <2>1. w.head[p].size = v.head[p].size
    BY <1>11, Zenon DEF Keeps
  <2> QED
    BY <1>4, <1>8, <2>1
<1> QED
  BY <1>1, <1>11, <1>12, <1>13

(* ... or its start is.                                                     *)
LEMMA MoveStartGives ==
    ASSUME NEW m, Sound(m), MaxSize < Pow(30), NEW p \in Taken(m), p # Base,
           NEW x \in Nat, x % 16 = 0, p + 32 <= x, x + 32 <= EndOf(m.head, p)
    PROVE  LET w == MoveStart(m, p, x) IN
           /\ Sound(w) /\ Taken(w) = (Taken(m) \ {p}) \cup {x} /\ Keeps(m, w, Taken(m) \ {p})
           /\ w.head[x].size = EndOf(m.head, p) - x /\ x \notin DOMAIN m.head
<1> DEFINE lead == x - p
           size == ChunkSize(m, p) - lead
           v == set_inuse(set_inuse(m, x, size), p, lead)
           w == Consolidate(v, p, lead).m
<1>1. Phys(m)
  BY DEF Sound
<1>2. p \in Nat /\ m.head[p].size \in Nat /\ p % 16 = 0 /\ p >= Base /\ p \in DOMAIN m.head
      /\ EndOf(m.head, p) = p + m.head[p].size
  BY <1>1, UsedChunk DEF EndOf
<1>3. /\ p < x /\ x < EndOf(m.head, p) /\ size = EndOf(m.head, p) - x /\ x # p
  BY <1>2 DEF ChunkSize
<1>4. MoveStart(m, p, x) = w
  <2>1. m.head[p].cinuse
    BY DEF Taken
  <2> QED
    BY <1>3, <2>1 DEF MoveStart, dispose_chunk, is_mmapped, cinuse
<1> HIDE DEF lead, size
<1>5. CutsAt(m, p, x) /\ m.head[p].cinuse = TRUE
  BY <1>1, <1>3, CutIsAt
<1>6. Divides(m, v, p, x)
  BY <1>1, <1>3, <1>5, DivideFromEnd DEF lead
<1> HIDE DEF v
<1>7. Cut2(m, v, p, x)
  BY <1>6, CutIsSound
<1>8. /\ Sound(v) /\ x \notin DOMAIN m.head /\ Taken(v) = Taken(m) \cup {x}
      /\ Keeps(m, v, Taken(m) \ {p}) /\ v.head[p].size = lead
      /\ v.head[x].size = EndOf(m.head, p) - x
  BY <1>7 DEF Cut2, lead
<1>9. Freed(v, w, p)
  <2>1. p \in Taken(v)
    BY <1>8
  <2> QED
    BY <1>8, <2>1, Consolidates
<1> HIDE DEF w
<1>10. Sound(w) /\ Taken(w) = (Taken(m) \ {p}) \cup {x} /\ Keeps(v, w, Taken(w))
  BY <1>3, <1>8, <1>9 DEF Freed
<1>11. Keeps(m, w, Taken(m) \ {p})
  <2>1. (Taken(m) \ {p}) \cap Taken(w) = Taken(m) \ {p}
    BY <1>10
  <2>2. Keeps(m, w, (Taken(m) \ {p}) \cap Taken(w))
    BY <1>8, <1>10, KeepsThrough
  <2> QED
    BY <2>1, <2>2
<1>12. w.head[x].size = EndOf(m.head, p) - x
  <2>1. x \in Taken(w)
    BY <1>10
  <2>2. w.head[x].size = v.head[x].size
    BY <1>10, <2>1, Zenon DEF Keeps
  <2> QED
    BY <1>8, <2>2
<1> QED
  BY <1>4, <1>8, <1>10, <1>11, <1>12

-----------------------------------------------------------------------------
(* What is a multiple leaves no rest, ...                                   *)
LEMMA MultiplesDivide ==
    ASSUME NEW q \in Nat, NEW a \in Nat \ {0}
    PROVE  (q * a) % a = 0
<1> DEFINE x == q * a
           d == x \div a
           r == x % a
<1>1. x \in Nat
  OBVIOUS
<1>2. d \in Nat /\ r \in 0 .. a - 1 /\ x = a * d + r
  <2> HIDE DEF x
  <2> QED
    BY <1>1
<1> HIDE DEF d, r
<1>3. r = a * (q - d)
  <2>1. a * (q - d) = a * q - a * d
    BY <1>2
  <2> QED
    BY <1>2, <2>1 DEF x
<1>4. q - d \in Int /\ (q - d >= 1 \/ q - d = 0 \/ q - d <= -1)
  BY <1>2
<1> DEFINE y == q - d
<1> HIDE DEF y
<1>5. y \in Int /\ (y >= 1 \/ y = 0 \/ y <= -1) /\ r = a * y
  BY <1>3, <1>4 DEF y
<1>6. CASE y >= 1
  <2>1. a * y >= a
    BY <1>5, <1>6
  <2> QED
    BY <1>2, <1>5, <2>1
<1>7. CASE y <= -1
  <2>1. a * y <= -a
    BY <1>5, <1>7
  <2> QED
    BY <1>2, <1>5, <2>1
<1>8. CASE y = 0
  <2>1. r = 0
    BY <1>5, <1>8
  <2> QED
    BY <2>1 DEF r, x
<1> QED
  BY <1>5, <1>6, <1>7, <1>8

(* Sixteen divides the powers of two from 32 on.                            *)
LEMMA PowersOfSixteen ==
    ASSUME NEW k \in 5 .. 29
    PROVE  /\ Pow(k) \in Nat /\ Pow(k) >= 32 /\ Pow(k) <= 536870912
           /\ \E b \in Nat : Pow(k) = b * 16
<1>1. k - 4 \in 0 .. 29 /\ k - 3 \in 0 .. 29 /\ k - 2 \in 0 .. 29 /\ k - 1 \in 0 .. 29
      /\ k \in 0 .. 30 /\ 5 \in 0 .. 30 /\ 29 \in 0 .. 30 /\ 5 <= k /\ k <= 29
  OBVIOUS
<1>2. Pow(k - 4) \in Nat /\ Pow(k) \in Nat
  BY <1>1, PowDoubles
<1>3. /\ Pow((k - 4) + 1) = 2 * Pow(k - 4) /\ Pow((k - 3) + 1) = 2 * Pow(k - 3)
      /\ Pow((k - 2) + 1) = 2 * Pow(k - 2) /\ Pow((k - 1) + 1) = 2 * Pow(k - 1)
  BY <1>1, PowDoubles
<1>4. (k - 4) + 1 = k - 3 /\ (k - 3) + 1 = k - 2 /\ (k - 2) + 1 = k - 1 /\ (k - 1) + 1 = k
  OBVIOUS
<1>5. Pow(k) = Pow(k - 4) * 16
  <2>1. /\ Pow(k - 3) = 2 * Pow(k - 4) /\ Pow(k - 2) = 2 * Pow(k - 3)
        /\ Pow(k - 1) = 2 * Pow(k - 2) /\ Pow(k) = 2 * Pow(k - 1)
    BY <1>3, <1>4, Zenon
  <2> QED
    BY <1>2, <2>1
<1>6. Pow(5) = 32 /\ Pow(29) = 536870912
  BY SMT DEF Pow
<1>7. Pow(5) <= Pow(k)
  BY <1>1, PowGrows
<1>8. Pow(k) <= Pow(29)
  BY <1>1, PowGrows
<1>9. Pow(k) >= 32 /\ Pow(k) <= 536870912
  BY <1>2, <1>6, <1>7, <1>8, SMT
<1> QED
  BY <1>2, <1>5, <1>9

(* What the alignment of a request is made.                                 *)
LEMMA PowerIs ==
    ASSUME NEW align \in Nat, align <= 2 ^ 29
    PROVE  \E k \in 5 .. 29 : PowerOfTwo(align) = Pow(k) /\ Pow(k) >= align
                              /\ (k = 5 \/ ~(Pow(k - 1) >= align))
<1> DEFINE Enough(k) == 2 ^ k >= align
           Least(k) == Enough(k) /\ (k = 5 \/ ~Enough(k - 1))
           S == {k \in 5 .. 29 : Pow(k) >= align}
<1>1. S \in SUBSET Nat /\ 29 \in S
  <2>1. Pow(29) >= align
    BY DEF Pow
  <2> QED
    BY <2>1
<1>5. IsWellFoundedOn(OpToRel(<, Nat), Nat)
  BY NatLessThanWellFounded
<1>6. PICK k \in S : \A j \in S : ~ (<<j, k>> \in OpToRel(<, Nat))
  <2>1. S \subseteq Nat /\ S # {}
    BY <1>1
  <2> HIDE DEF S
  <2> QED
    BY <1>5, <2>1, WFMin
<1>7. k \in 5 .. 29 /\ Pow(k) >= align /\ (k # 5 => k - 1 \in 5 .. 29)
  <2>1. k \in 5 .. 29 /\ Pow(k) >= align
    OBVIOUS
  <2>2. k # 5 => k - 1 \in 5 .. 29
    BY <2>1
  <2> QED
    BY <2>1, <2>2
<1>8. k = 5 \/ ~(Pow(k - 1) >= align)
  <2>1. \A j \in S : ~(j < k)
    BY <1>1, <1>6 DEF OpToRel
  <2>2. k - 1 < k
    BY <1>7
  <2> QED
    BY <1>7, <2>1, <2>2
<1>9. \A j : Least(j) <=> (Pow(j) >= align /\ (j = 5 \/ ~(Pow(j - 1) >= align)))
  BY Zenon DEF Pow
<1>10. Least(k)
  BY <1>7, <1>8, <1>9
<1>11. PowerOfTwo(align) = Pow(CHOOSE j \in 5 .. 29 : Least(j))
  BY Zenon DEF PowerOfTwo, Pow
<1> HIDE DEF Least
<1>12. (CHOOSE j \in 5 .. 29 : Least(j)) \in 5 .. 29 /\ Least(CHOOSE j \in 5 .. 29 : Least(j))
  BY <1>7, <1>10, Zenon
<1> QED
  BY <1>9, <1>11, <1>12

(* A power of two is not made another.                                      *)
LEMMA PowerStays ==
    ASSUME NEW j \in 5 .. 29
    PROVE  PowerOfTwo(Pow(j)) = Pow(j)
<1>1. Pow(j) \in Nat /\ Pow(j) <= 536870912 /\ 2 ^ 29 = 536870912
  BY PowersOfSixteen
<1>2. Pow(j) <= 2 ^ 29
  BY <1>1, SMT
<1>3. PICK k \in 5 .. 29 : /\ PowerOfTwo(Pow(j)) = Pow(k) /\ Pow(k) >= Pow(j)
                           /\ (k = 5 \/ ~(Pow(k - 1) >= Pow(j)))
  BY <1>1, <1>2, PowerIs
<1>4. k \in 0 .. 30 /\ j \in 0 .. 30 /\ Pow(k) \in Nat /\ (k # 5 => k - 1 \in 0 .. 30)
  BY PowersOfSixteen
<1>5. CASE k <= j
  <2>1. Pow(k) <= Pow(j)
    BY <1>4, <1>5, PowGrows
  <2> QED
    BY <1>1, <1>3, <1>4, <2>1
<1>6. CASE ~(k <= j)
  <2>1. k # 5 /\ j <= k - 1
    BY <1>6
  <2>2. Pow(j) <= Pow(k - 1)
    BY <1>4, <2>1, PowGrows
  <2>3. Pow(k - 1) \in Nat
    BY <1>4, <2>1, PowDoubles
  <2>4. Pow(k - 1) >= Pow(j)
    BY <1>1, <2>2, <2>3
  <2> QED
    BY <1>3, <2>1, <2>4
<1> QED
  BY <1>5, <1>6

(* Where the aligned chunk in a chunk starts.                               *)
StartFits(p, x, a) ==
    /\ x \in Nat /\ x % 16 = 0 /\ chunk2mem(x) % a = 0
    /\ x = p \/ p + 32 <= x
    /\ x <= p + a + 16

(* It is so for every chunk and every power of two.                         *)
LEMMA AlignedStarts ==
    ASSUME NEW p \in Nat, p % 16 = 0, NEW k \in 5 .. 29
    PROVE  StartFits(p, AlignedStart(p, Pow(k)), Pow(k))
<1> DEFINE a == Pow(k)
           mem == p + 16
           q == (mem + a - 1) \div a
           up == AlignUp(mem, a)
           br == up - 16
           x == AlignedStart(p, a)
<1>1. a \in Nat \ {0} /\ a >= 32 /\ mem \in Nat
  BY PowersOfSixteen
<1>2. PICK b \in Nat : a = b * 16
  BY PowersOfSixteen
<1> HIDE DEF a
<1>3. q \in Nat
  BY <1>1
<1>4. up = q * a
  BY DEF AlignUp
<1>5. up \in Nat /\ up >= mem /\ up < mem + a
  BY <1>1, AlignUpBounds
<1>6. chunk2mem(p) = mem
  BY DEF chunk2mem, SIZE_T_SIZE
<1>7. mem2chunk(up) = br
  BY DEF mem2chunk, SIZE_T_SIZE
<1>8. MIN_CHUNK_SIZE = 32
  BY DEF MIN_CHUNK_SIZE, SIZE_T_SIZE
<1> HIDE DEF q, up, mem
<1>9. x = IF mem % a = 0 THEN p ELSE IF br - p >= 32 THEN br ELSE br + a
  BY <1>6, <1>7, <1>8, Zenon DEF AlignedStart, up
<1> HIDE DEF x, br
<1>10. br = up - 16 /\ mem = p + 16
  BY DEF br, mem
<1>11. up % 16 = 0
  <2>1. up = (q * b) * 16 /\ q * b \in Nat
    BY <1>2, <1>3, <1>4
  <2> DEFINE c == q * b
  <2> HIDE DEF c
  <2>2. up = c * 16 /\ c \in Nat
    BY <2>1 DEF c
  <2> QED
    BY <2>2
<1>12. up % a = 0
  BY <1>1, <1>3, <1>4, MultiplesDivide
<1>13. (up + a) % a = 0
  <2>1. up + a = (q + 1) * a
    BY <1>1, <1>3, <1>4
  <2>2. q + 1 \in Nat
    BY <1>3
  <2>3. ((q + 1) * a) % a = 0
    BY <1>1, <2>2, MultiplesDivide
  <2> QED
    BY <2>1, <2>3, Zenon
<1>14. a % 16 = 0
  BY <1>2
<1>15. br \in Nat /\ br % 16 = 0 /\ br >= p /\ br < p + a /\ br + 16 = up
  BY <1>1, <1>5, <1>10, <1>11
<1>16. /\ chunk2mem(br) = up /\ chunk2mem(br + a) = up + a
  BY <1>1, <1>15, SMT DEF chunk2mem, SIZE_T_SIZE
<1>17. CASE mem % a = 0
  <2>1. x = p
    BY <1>9, <1>17
  <2>2. chunk2mem(x) % a = 0
    BY <1>6, <1>17, <2>1, Zenon
  <2>3. p <= p + a + 16
    BY <1>1
  <2> QED
    BY <2>1, <2>2, <2>3, Zenon DEF StartFits, a, x
<1>18. CASE mem % a # 0 /\ br - p >= 32
  <2>1. x = br
    BY <1>9, <1>18
  <2>2. chunk2mem(x) % a = 0
    BY <1>12, <1>16, <2>1, Zenon
  <2>3. p + 32 <= br /\ br <= p + a + 16
    BY <1>1, <1>15, <1>18
  <2> QED
    BY <1>15, <2>1, <2>2, <2>3, Zenon DEF StartFits, a, x
<1>19. CASE mem % a # 0 /\ ~(br - p >= 32)
  <2>1. x = br + a
    BY <1>9, <1>19
  <2>2. chunk2mem(x) % a = 0
    BY <1>13, <1>16, <2>1, Zenon
  <2>3. br - p <= 16
    BY <1>15, <1>19
  <2>4. p + 32 <= br + a /\ br + a <= p + a + 16 /\ br + a \in Nat
    BY <1>1, <1>15, <2>3
  <2>5. (br + a) % 16 = 0
    BY <1>1, <1>14, <1>15
  <2> QED
    BY <2>1, <2>2, <2>4, <2>5, Zenon DEF StartFits, a, x
<1> QED
  BY <1>17, <1>18, <1>19

(* From m to w, chunk p is taken from what is free and nothing else is.     *)
Gets(m, w, p) ==
    /\ Sound(w) /\ p \notin Taken(m) /\ p # Base /\ p # NULL
    /\ Taken(w) = Taken(m) \cup {p}
    /\ Keeps(m, w, Taken(m))

(* The numbers of a chunk in use.                                           *)
LEMMA TakenIs ==
    ASSUME NEW m, Sound(m), NEW p \in Taken(m)
    PROVE  /\ p \in Nat /\ p % 16 = 0 /\ p >= Base /\ p \in DOMAIN m.head
           /\ m.head[p].size \in Nat /\ EndOf(m.head, p) = p + m.head[p].size
           /\ m.head[p].size % 16 = 0 /\ m.head[p].size >= 32
           /\ EndOf(m.head, p) <= m.top /\ m.top \in Nat /\ m.top < End
           /\ m.head[p].cinuse /\ ~is_mmapped(m, p)
<1>1. Phys(m) /\ p \in DOMAIN m.head /\ m.head[p].cinuse
  BY DEF Sound, Taken
<1>2. Layout(m.head, m.top)
  BY <1>1 DEF Phys
<1>3. ~m.head[m.top].cinuse /\ ~m.head[End].cinuse /\ m.top \in DOMAIN m.head /\ m.top # End
  BY <1>2 DEF Layout
<1>4. p # m.top /\ p # End
  BY <1>1, <1>3
<1>5. /\ p \in Nat /\ p % 16 = 0 /\ p >= Base /\ m.head[p].size \in Nat
  BY <1>1, <1>2, ChunkOf
<1>6. ChunkFits(m.head, m.top, p) /\ EndOf(m.head, p) <= End /\ EndOf(m.head, p) \in Nat
  BY <1>1, <1>2, <1>4, ChunkOf
<1>7. m.top \in Nat /\ m.top <= End
  BY <1>2, <1>3, ChunkOf
<1>8. m.head[p].size % 16 = 0 /\ m.head[p].size >= 32 /\ EndOf(m.head, p) = p + m.head[p].size
  BY <1>4, <1>6 DEF ChunkFits, EndOf
<1>9. EndOf(m.head, p) <= m.top
  <2>1. m.top <= p \/ EndOf(m.head, p) <= m.top
    BY <1>3, <1>6 DEF ChunkFits
  <2>2. ChunkFits(m.head, m.top, m.top) /\ EndOf(m.head, m.top) = End
    BY <1>2, <1>3, ChunkOf DEF Layout
  <2>3. p <= m.top \/ End <= p
    BY <1>1, <2>2 DEF ChunkFits
  <2>4. p <= End
    BY <1>1, <1>2, ChunkOf
  <2>5. End \in Nat
    BY AreaEnds
  <2> QED
    BY <1>4, <1>5, <1>7, <2>1, <2>3, <2>4, <2>5
<1>10. End \in Nat
  BY AreaEnds
<1>11. m.top < End
  BY <1>3, <1>7, <1>10
<1>12. ~is_mmapped(m, p)
  BY <1>1 DEF is_mmapped, cinuse
<1> QED
  BY <1>1, <1>5, <1>7, <1>8, <1>9, <1>11, <1>12

(* The start of what was got is given up, so that it is aligned.            *)
LEMMA StartIsMoved ==
    ASSUME NEW m, NEW l, NEW p, Gets(m, l, p), MaxSize < Pow(30),
           NEW nb, Padded(nb), NEW a \in Nat, nb + a + 32 <= l.head[p].size,
           NEW x, StartFits(p, x, a)
    PROVE  Gets(m, MoveStart(l, p, x), x) /\ nb <= MoveStart(l, p, x).head[x].size
<1> DEFINE s == l.head[p].size
           w == MoveStart(l, p, x)
<1>1. Sound(l) /\ p \in Taken(l)
  BY DEF Gets
<1>2. /\ p \in Nat /\ p \in DOMAIN l.head /\ s \in Nat /\ EndOf(l.head, p) = p + s
  BY <1>1, TakenIs
<1>3. nb \in Nat /\ nb >= 32
  BY DEF Padded
<1>4. x \in Nat /\ x % 16 = 0 /\ (x = p \/ p + 32 <= x) /\ x <= p + a + 16
  BY DEF StartFits
<1> HIDE DEF s
<1>5. CASE x = p
  <2>1. w = l
    BY <1>5 DEF MoveStart
  <2>2. nb <= s
    BY <1>2, <1>3 DEF s
  <2> QED
    BY <1>5, <2>1, <2>2, Zenon DEF s, w
<1>6. CASE x # p
  <2>1. p + 32 <= x
    BY <1>4, <1>6
  <2>2. x + 32 <= p + s /\ nb <= p + s - x
    BY <1>2, <1>3, <1>4 DEF s
  <2>3. x + 32 <= EndOf(l.head, p)
    BY <1>2, <2>2, Zenon
  <2>4. p # Base
    BY DEF Gets
  <2>a. x % 16 = 0 /\ p \in Taken(l) /\ x \in Nat /\ Sound(l)
    BY <1>1, <1>4
  <2> HIDE DEF w
  <2>5. /\ Sound(w) /\ Taken(w) = (Taken(l) \ {p}) \cup {x} /\ Keeps(l, w, Taken(l) \ {p})
        /\ w.head[x].size = EndOf(l.head, p) - x /\ x \notin DOMAIN l.head
    BY <2>a, <2>1, <2>3, <2>4, MoveStartGives DEF w
  <2>6. nb <= w.head[x].size
    <3> DEFINE e == EndOf(l.head, p)
               z == w.head[x].size
    <3>1. z = e - x /\ e = p + s
      BY <1>2, <2>5
    <3> HIDE DEF e, z
    <3>2. nb <= z
      BY <1>2, <1>3, <1>4, <2>2, <3>1
    <3> QED
      BY <3>2 DEF z
  <2>7. /\ p \notin Taken(m) /\ Taken(l) = Taken(m) \cup {p} /\ Keeps(m, l, Taken(m))
    BY DEF Gets
  <2>8. x \notin Taken(l)
    BY <2>5 DEF Taken
  <2>9. Taken(w) = Taken(m) \cup {x} /\ x \notin Taken(m)
    BY <2>5, <2>7, <2>8, Zenon
  <2>10. Taken(m) \cap (Taken(l) \ {p}) = Taken(m)
    BY <2>7
  <2>11. Keeps(m, w, Taken(m) \cap (Taken(l) \ {p}))
    BY <2>5, <2>7, KeepsThrough
  <2>12. Keeps(m, w, Taken(m))
    BY <2>10, <2>11, Zenon
  <2>13. x # NULL
    BY <1>2, <2>1 DEF NULL
  <2>14. x # Base
    <3>1. Layout(l.head, l.top)
      BY <1>1 DEF Sound, Phys
    <3>2. Base \in DOMAIN l.head
      BY <3>1 DEF Layout
    <3> QED
      BY <2>5, <3>2
  <2>15. Gets(m, w, x)
    BY <2>5, <2>9, <2>12, <2>13, <2>14, Zenon DEF Gets
  <2> QED
    BY <2>6, <2>15 DEF w
<1> QED
  BY <1>5, <1>6

(* The end of what was got is given up, so that little is wasted.           *)
LEMMA EndIsGivenUp ==
    ASSUME NEW m, NEW l, NEW p, Gets(m, l, p), MaxSize < Pow(30),
           NEW nb, Padded(nb), nb <= l.head[p].size
    PROVE  LET got == WithoutSpare(l, p, nb) IN
           /\ got.mem = chunk2mem(p) /\ Gets(m, got.m, p)
           /\ nb <= got.m.head[p].size /\ got.m.head[p].size <= nb + 32
<1> DEFINE s == l.head[p].size
           got == WithoutSpare(l, p, nb)
           w == GiveUpEnd(l, p, nb)
<1>1. Sound(l) /\ p \in Taken(l)
  BY DEF Gets
<1>2. s \in Nat /\ ~is_mmapped(l, p)
  BY <1>1, TakenIs
<1>3. nb \in Nat /\ nb >= 32
  BY DEF Padded
<1>4. ChunkSize(l, p) = s
  BY Zenon DEF ChunkSize
<1>5. MIN_CHUNK_SIZE = 32
  BY DEF MIN_CHUNK_SIZE, SIZE_T_SIZE
<1>6. got = Result(IF s > nb + 32 THEN w ELSE l, p)
  BY <1>2, <1>4, <1>5, Zenon DEF WithoutSpare
<1>7. p # NULL
  BY DEF Gets
<1> HIDE DEF s, w, got
<1>8. got.mem = chunk2mem(p) /\ got.m = IF s > nb + 32 THEN w ELSE l
  BY <1>6, <1>7 DEF Result
<1>9. CASE s > nb + 32
  <2>1. nb + 32 <= l.head[p].size
    BY <1>2, <1>3, <1>9 DEF s
  <2>2. p # Base
    BY DEF Gets
  <2>3. /\ Sound(w) /\ Taken(w) = Taken(l) /\ Keeps(l, w, Taken(l) \ {p})
        /\ w.head[p].size = nb
    BY <1>1, <2>1, <2>2, GiveUpEndGives DEF w
  <2>4. /\ p \notin Taken(m) /\ Taken(l) = Taken(m) \cup {p} /\ Keeps(m, l, Taken(m))
    BY DEF Gets
  <2>5. Taken(m) \cap (Taken(l) \ {p}) = Taken(m)
    BY <2>4
  <2>6. Keeps(m, w, Taken(m) \cap (Taken(l) \ {p}))
    BY <2>3, <2>4, KeepsThrough
  <2>7. Keeps(m, w, Taken(m))
    BY <2>5, <2>6, Zenon
  <2>8. Gets(m, w, p)
    BY <1>7, <2>2, <2>3, <2>4, <2>7, Zenon DEF Gets
  <2>9. got.m = w
    BY <1>8, <1>9
  <2>10. nb <= nb /\ nb <= nb + 32
    BY <1>3
  <2> QED
    BY <1>8, <2>3, <2>8, <2>9, <2>10, Zenon DEF got
<1>10. CASE ~(s > nb + 32)
  <2>1. got.m = l
    BY <1>8, <1>10
  <2>2. s <= nb + 32
    BY <1>2, <1>3, <1>10
  <2> QED
    BY <1>8, <2>1, <2>2, Zenon DEF got, s
<1> QED
  BY <1>9, <1>10

(* What a request for an aligned block comes to: it changes nothing and     *)
(* there is no chunk of need bytes, or it gets one for nb bytes.            *)
Yields(m, got, need, nb, align) ==
    \/ got.mem = NULL /\ got.m = m /\ (MaxSize <= MAX_REQUEST => Lacks(m, need))
    \/ \E p : /\ got.mem = chunk2mem(p) /\ got.mem # NULL /\ Gets(m, got.m, p)
              /\ nb <= got.m.head[p].size /\ got.m.head[p].size <= nb + 32
              /\ chunk2mem(p) % align = 0

(* A chunk and its memory.                                                  *)
LEMMA MemoryOf ==
    ASSUME NEW p \in Nat
    PROVE  /\ chunk2mem(p) = p + 16 /\ chunk2mem(p) # NULL /\ mem2chunk(chunk2mem(p)) = p
  BY DEF chunk2mem, mem2chunk, SIZE_T_SIZE, NULL

(* The aligned block is cut out of the chunk that was got.                  *)
LEMMA AlignedYields ==
    ASSUME NEW m, Sound(m), MaxSize < Pow(30), NEW k \in 5 .. 29,
           NEW nb, Padded(nb), NEW need, need = nb + Pow(k) + 32,
           NEW got, Serves(m, got, need)
    PROVE  Yields(m, Aligned(got, nb, Pow(k)), need, nb, Pow(k))
<1> DEFINE a == Pow(k)
<1>1. a \in Nat
  BY PowersOfSixteen
<1> HIDE DEF a
<1>2. CASE got.mem = NULL /\ got.m = m /\ (MaxSize <= MAX_REQUEST => Lacks(m, need))
  <2>1. Aligned(got, nb, a) = got
    BY <1>2 DEF Aligned
  <2> QED
    BY <1>2, <2>1, Zenon DEF Yields, a
<1>3. ASSUME NEW p, p # NULL, got.mem = chunk2mem(p), Given(m, got.m, p, need)
      PROVE  Yields(m, Aligned(got, nb, a), need, nb, a)
  <2> DEFINE l == got.m
             x == AlignedStart(p, a)
             w == MoveStart(l, p, x)
             done == WithoutSpare(w, x, nb)
  <2>1. Gets(m, l, p) /\ need <= l.head[p].size
    BY <1>3, Zenon DEF Given, Gets
  <2>2. Sound(l) /\ p \in Taken(l)
    BY <2>1 DEF Gets
  <2> HIDE DEF l
  <2>3. p \in Nat /\ p % 16 = 0
    BY <2>2, TakenIs
  <2>4. StartFits(p, x, a)
    BY <2>3, AlignedStarts DEF a
  <2>5. nb + a + 32 <= l.head[p].size
    BY <2>1, Zenon DEF a
  <2> HIDE DEF x
  <2>6. Gets(m, w, x) /\ nb <= w.head[x].size
    BY <1>1, <2>1, <2>4, <2>5, StartIsMoved
  <2> HIDE DEF w
  <2>7. /\ done.mem = chunk2mem(x) /\ Gets(m, done.m, x)
        /\ nb <= done.m.head[x].size /\ done.m.head[x].size <= nb + 32
    BY <2>6, EndIsGivenUp
  <2>8. mem2chunk(got.mem) = p /\ got.mem # NULL
    <3>1. chunk2mem(p) # NULL /\ mem2chunk(chunk2mem(p)) = p
      BY <2>3, MemoryOf
    <3> QED
      BY <1>3, <3>1, Zenon
  <2>9. Aligned(got, nb, a) = done
    BY <2>8, Zenon DEF Aligned, done, w, x, l
  <2> HIDE DEF done
  <2>10. chunk2mem(x) % a = 0 /\ x \in Nat
    BY <2>4 DEF StartFits
  <2>11. done.mem # NULL
    <3>1. chunk2mem(x) # NULL
      BY <2>10, MemoryOf
    <3> QED
      BY <2>7, <3>1, Zenon
  <2>12. Yields(m, done, need, nb, a)
    BY <2>7, <2>10, <2>11, Zenon DEF Yields
  <2> QED
    BY <2>9, <2>12, Zenon
<1> QED
  BY <1>2, <1>3, Zenon DEF Serves, a

(* A block of the alignment all chunks have is got from mspace_malloc.      *)
LEMMA PlainYields ==
    ASSUME NEW m, Sound(m), NEW nb, Padded(nb), NEW got, Serves(m, got, nb),
           NEW align, align \in {1, 2, 4, 8, 16}
    PROVE  Yields(m, got, nb, nb, align)
<1>1. CASE got.mem = NULL /\ got.m = m /\ (MaxSize <= MAX_REQUEST => Lacks(m, nb))
  BY <1>1, Zenon DEF Yields
<1>2. ASSUME NEW p, p # NULL, got.mem = chunk2mem(p), Given(m, got.m, p, nb)
      PROVE  Yields(m, got, nb, nb, align)
  <2> DEFINE s == got.m.head[p].size
  <2>1. Gets(m, got.m, p) /\ nb <= s /\ s <= nb + 16
    BY <1>2, Zenon DEF Given, Gets
  <2>2. Sound(got.m) /\ p \in Taken(got.m)
    BY <2>1 DEF Gets
  <2>3. p \in Nat /\ p % 16 = 0 /\ s \in Nat
    BY <2>2, TakenIs
  <2> HIDE DEF s
  <2>4. chunk2mem(p) % align = 0
    <3>1. (p + 16) % 16 = 0 /\ p + 16 \in Nat
      BY <2>3
    <3> DEFINE y == p + 16
    <3> HIDE DEF y
    <3>2. y % 16 = 0 /\ y \in Nat
      BY <3>1 DEF y
    <3>3. y % align = 0
      BY <3>2
    <3>4. chunk2mem(p) = y
      BY <2>3, MemoryOf DEF y
    <3> QED
      BY <3>3, <3>4, Zenon
  <2>5. s <= nb + 32
    BY <2>1, <2>3 DEF Padded
  <2>6. got.mem # NULL
    <3>1. chunk2mem(p) # NULL
      BY <2>3, MemoryOf
    <3> QED
      BY <1>2, <3>1, Zenon
  <2> QED
    BY <1>2, <2>1, <2>4, <2>5, <2>6, Zenon DEF Yields, s
<1> QED
  BY <1>1, <1>2, Zenon DEF Serves

(* The size that an aligned request asks for at first.                      *)
LEMMA PaddedSizes ==
    ASSUME NEW bytes \in Nat, NEW k \in 5 .. 29
    PROVE  LET nb == request2size(bytes)
               asked == PaddedRequest(Pow(k), bytes) IN
           /\ Padded(nb) /\ nb > bytes /\ asked \in Nat /\ asked = nb + Pow(k) + 24
           /\ request2size(asked) = nb + Pow(k) + 32
<1> DEFINE nb == request2size(bytes)
           a == Pow(k)
           asked == PaddedRequest(a, bytes)
<1>1. Padded(nb) /\ nb > bytes
  BY RequestSizes
<1>2. a \in Nat /\ a >= 32
  BY PowersOfSixteen
<1>3. PICK b \in Nat : a = b * 16
  BY PowersOfSixteen
<1>4. MIN_CHUNK_SIZE = 32 /\ CHUNK_OVERHEAD = 8 /\ MALLOC_ALIGNMENT = 16 /\ MIN_REQUEST = 23
  BY DEF MIN_CHUNK_SIZE, CHUNK_OVERHEAD, SIZE_T_SIZE, MALLOC_ALIGNMENT, MIN_REQUEST
<1> HIDE DEF nb, a
<1>5. nb \in Nat /\ nb % 16 = 0 /\ nb >= 32
  BY <1>1 DEF Padded
<1>6. asked = nb + a + 32 - 8
  BY <1>4, Zenon DEF PaddedRequest, nb
<1> HIDE DEF asked
<1>7. asked = nb + a + 24 /\ asked \in Nat /\ ~(asked < 23)
  BY <1>2, <1>5, <1>6
<1>8. request2size(asked) = ((asked + 8 + 16 - 1) \div 16) * 16
  BY <1>4, <1>7, Zenon DEF request2size, pad_request, AlignUp
<1>9. ((asked + 8 + 16 - 1) \div 16) * 16 = nb + a + 32
  <2>1. asked = nb + b * 16 + 24
    BY <1>3, <1>7
  <2>2. nb + b * 16 + 32 = nb + a + 32
    BY <1>3
  <2> QED
    BY <1>3, <1>5, <2>1, <2>2
<1>10. request2size(asked) = nb + a + 32
  BY <1>8, <1>9, Zenon
<1> QED
  BY <1>1, <1>7, <1>10, Zenon DEF nb, a, asked

(* mspace_memalign, for any alignment.                                      *)
LEMMA MemalignYields ==
    ASSUME NEW m, Sound(m), Limited(m), MaxSize < Pow(30),
           NEW align \in Nat, align <= 2 ^ 29, NEW bytes \in Nat, NEW sys,
           ChunkFor(align, bytes) < Pow(30),
           NEW d, align <= 16 => d \in {1, 2, 4, 8, 16}, ~(align <= 16) => d = PowerOfTwo(align)
    PROVE  Yields(m, mspace_memalign(m, align, bytes, sys), ChunkFor(align, bytes),
                  request2size(bytes), d)
<1>1. MALLOC_ALIGNMENT = 16
  BY DEF MALLOC_ALIGNMENT
<1>2. CASE align <= 16
  <2>1. ChunkFor(align, bytes) = request2size(bytes)
    BY <1>1, <1>2, Zenon DEF ChunkFor
  <2>2. mspace_memalign(m, align, bytes, sys) = mspace_malloc(m, bytes, sys)
    BY <1>1, <1>2, Zenon DEF mspace_memalign
  <2>3. request2size(bytes) < Pow(30)
    BY <2>1, Zenon
  <2> DEFINE got == mspace_malloc(m, bytes, sys)
             nb == request2size(bytes)
  <2>4. Serves(m, got, nb)
    BY <2>3, MallocServes
  <2>5. Padded(nb)
    BY RequestSizes
  <2> HIDE DEF got, nb
  <2>6. Yields(m, got, nb, nb, d)
    BY <1>2, <2>4, <2>5, PlainYields
  <2> QED
    BY <2>1, <2>2, <2>6, Zenon DEF got, nb
<1>3. CASE ~(align <= 16)
  <2> DEFINE a == PowerOfTwo(align)
             asked == PaddedRequest(a, bytes)
             nb == request2size(bytes)
             need == request2size(asked)
             got == mspace_malloc(m, asked, sys)
  <2>1. PICK k \in 5 .. 29 : a = Pow(k)
    BY PowerIs
  <2> HIDE DEF a
  <2>2. /\ Padded(nb) /\ nb > bytes /\ asked \in Nat /\ need = nb + Pow(k) + 32
    <3>1. LET nn == request2size(bytes)
              as == PaddedRequest(Pow(k), bytes) IN
          /\ Padded(nn) /\ nn > bytes /\ as \in Nat /\ request2size(as) = nn + Pow(k) + 32
      BY PaddedSizes
    <3> QED
      BY <2>1, <3>1, Zenon
  <2> HIDE DEF asked, nb
  <2>3. ChunkFor(align, bytes) = need
    BY <1>1, <1>3, Zenon DEF ChunkFor, need, asked, a
  <2>4. need < Pow(30)
    BY <2>3, Zenon
  <2>5. mspace_memalign(m, align, bytes, sys) =
          IF bytes >= MAX_REQUEST - a THEN Result(m, NULL) ELSE Aligned(got, nb, a)
    BY <1>1, <1>3, Zenon DEF mspace_memalign, internal_memalign, got, nb, asked, a
  <2>6. CASE bytes >= MAX_REQUEST - a
    <3>1. Result(m, NULL).mem = NULL /\ Result(m, NULL).m = m
      BY DEF Result
    <3>2. ASSUME MaxSize <= MAX_REQUEST PROVE Lacks(m, need)
      <4>1. MAX_REQUEST \in Nat /\ MaxSize \in Nat
        BY MspaceAssumption, AreaEnds
      <4>2. Pow(k) \in Nat /\ nb \in Nat
        BY <2>2, PowersOfSixteen DEF Padded
      <4>3. need \in Nat /\ MAX_REQUEST - Pow(k) <= bytes
        BY <2>1, <2>2, <2>6, <4>1, <4>2
      <4> HIDE DEF need
      <4>4. MaxSize <= need
        BY <2>2, <3>2, <4>1, <4>2, <4>3
      <4> QED
        BY <4>3, <4>4, SizesInArea DEF Sound
    <3>3. Yields(m, Result(m, NULL), need, nb, d)
      BY <3>1, <3>2, Zenon DEF Yields
    <3> QED
      BY <2>3, <2>5, <2>6, <3>3, Zenon DEF nb
  <2>7. CASE ~(bytes >= MAX_REQUEST - a)
    <3>1. Serves(m, got, need)
      BY <2>2, <2>4, MallocServes
    <3> HIDE DEF got, need
    <3>2. Yields(m, Aligned(got, nb, Pow(k)), need, nb, Pow(k))
      BY <2>2, <3>1, AlignedYields
    <3>3. d = Pow(k)
      BY <1>3, <2>1, Zenon DEF a
    <3> QED
      BY <2>1, <2>3, <2>5, <2>7, <3>2, <3>3, Zenon DEF nb
  <2> QED
    BY <2>6, <2>7
<1> QED
  BY <1>2, <1>3

-----------------------------------------------------------------------------
(* Trees with no chunk are sound.                                           *)
LEMMA EmptyTreesFit ==
    ASSUME NEW m, {"head", "node", "treemap", "treebin"} \subseteq DOMAIN m,
           m.node = [p \in {} |-> NewNode(NULL, NULL, NULL, 0)], m.treemap = {},
           m.treebin = [i \in 0 .. 31 |-> NULL]
    PROVE  /\ Nodes(m) = {} /\ \E q : Fit(m, q) /\ DOMAIN q = Sizes
<1> DEFINE d == [x \in {} |-> 0]
           q == [s \in Sizes |-> <<>>]
<1>1. Nodes(m) = {} /\ m.node = [p \in {} |-> NewNode(NULL, NULL, NULL, 0)]
  BY DEF Nodes
<1>2. BinsTyped(m)
  <2>1. m.treebin \in [0 .. 31 -> Nodes(m) \cup {NULL}]
    BY <1>1
  <2>2. m.node \in [Nodes(m) -> NodeType(Nodes(m))]
    BY <1>1
  <2>3. m.treemap = {i \in 0 .. 31 : m.treebin[i] # NULL}
    OBVIOUS
  <2> QED
    BY <1>1, <2>1, <2>2, <2>3 DEF BinsTyped
<1>3. TreesFit(m, d, 0)
  <2>1. d \in [Nodes(m) -> 0 .. 0]
    BY <1>1
  <2> HIDE DEF d
  <2> QED
    BY <1>1, <1>2, <2>1 DEF TreesFit
<1>4. RingsFit(m, q)
  BY <1>1 DEF RingsFit
<1>5. DOMAIN q = Sizes
  OBVIOUS
<1> HIDE DEF d, q
<1> QED
  BY <1>1, <1>3, <1>4, <1>5 DEF Fit

(* Small bins with no chunk are.                                            *)
LEMMA EmptySmallsFit ==
    ASSUME NEW m, {"head", "smallmap", "smallbin"} \subseteq DOMAIN m,
           m.smallmap = {}, m.smallbin = [i \in 0 .. 31 |-> <<>>]
    PROVE  SmallsFit(m) /\ SmallBinned(m) = {}
<1>1. SmallBinned(m) = {}
  BY DEF SmallBinned
<1>2. ASSUME NEW i \in 0 .. 31 PROVE RingFits(m, m.smallbin[i], i)
  <2>1. m.smallbin[i] = <<>>
    OBVIOUS
  <2>2. RingFits(m, <<>>, i)
    BY DEF RingFits
  <2> QED
    BY <2>1, <2>2, Zenon
<1> QED
  BY <1>1, <1>2 DEF SmallsFit

(* A new mspace is the chunk of its state and top.                          *)
NewTags(h) ==
    /\ DOMAIN h = {Base, Base + 944, End}
    /\ h[Base] = [size |-> 944, pinuse |-> TRUE, cinuse |-> TRUE]
    /\ h[Base + 944] = [size |-> End - (Base + 944), pinuse |-> TRUE, cinuse |-> FALSE]
    /\ h[End] = [size |-> 80, pinuse |-> FALSE, cinuse |-> FALSE]

(* That is a layout.                                                        *)
LEMMA NewLayout ==
    ASSUME NEW h, NewTags(h)
    PROVE  Layout(h, Base + 944)
<1> DEFINE t == Base + 944
<1>1. /\ Base \in Nat /\ End \in Nat /\ Base % 16 = 0 /\ End % 16 = 0 /\ t + 16 <= End
  BY AreaEnds
<1>2. t \in Nat /\ t % 16 = 0 /\ Base < t /\ t < End /\ t # Base
  BY <1>1
<1>3. /\ DOMAIN h = {Base, t, End}
      /\ h[Base] = [size |-> 944, pinuse |-> TRUE, cinuse |-> TRUE]
      /\ h[t] = [size |-> End - t, pinuse |-> TRUE, cinuse |-> FALSE]
      /\ h[End] = [size |-> 80, pinuse |-> FALSE, cinuse |-> FALSE]
  BY DEF NewTags
<1> HIDE DEF t
<1>4. \A p \in DOMAIN h : h[p] \in HeadType /\ p \in Base .. End /\ p % 16 = 0
  <2>1. h[Base] \in HeadType
    BY <1>3 DEF HeadType
  <2>2. End - t \in Nat
    BY <1>1, <1>2
  <2>3. h[t] \in HeadType
    BY <1>3, <2>2 DEF HeadType
  <2>4. h[End] \in HeadType
    BY <1>3 DEF HeadType
  <2>5. Base \in Base .. End /\ t \in Base .. End /\ End \in Base .. End
    BY <1>1, <1>2
  <2> QED
    BY <1>1, <1>2, <1>3, <2>1, <2>3, <2>4, <2>5, Zenon
<1>5. EndOf(h, Base) = t /\ EndOf(h, t) = End
  <2>1. EndOf(h, Base) = Base + 944
    BY <1>3 DEF EndOf
  <2>2. EndOf(h, t) = t + (End - t)
    BY <1>3 DEF EndOf
  <2>3. t + (End - t) = End
    BY <1>1, <1>2
  <2>4. EndOf(h, Base) = t
    BY <2>1 DEF t
  <2>5. EndOf(h, t) = End
    BY <2>2, <2>3, Zenon
  <2> QED
    BY <2>4, <2>5
<1>6. ChunkFits(h, t, Base)
  <2>1. h[Base].size = 944 /\ h[Base].cinuse = TRUE /\ h[t].pinuse = TRUE
    BY <1>3
  <2>2. h[Base].size % 16 = 0 /\ h[Base].size >= 32 /\ h[Base].size >= 16
    BY <2>1
  <2>3. \A q \in DOMAIN h : q <= Base \/ t <= q
    BY <1>1, <1>2, <1>3
  <2>4. t \in DOMAIN h
    BY <1>3
  <2> QED
    BY <1>5, <2>1, <2>2, <2>3, <2>4, Zenon DEF ChunkFits
<1>7. ChunkFits(h, t, t)
  <2>1. h[t].size = End - t /\ h[t].cinuse = FALSE /\ h[t].pinuse = TRUE /\ h[End].pinuse = FALSE
    BY <1>3
  <2>2. (End - t) % 16 = 0 /\ End - t >= 16
    BY <1>1, <1>2
  <2>3. \A q \in DOMAIN h : q <= t \/ End <= q
    BY <1>1, <1>2, <1>3
  <2>4. End \in DOMAIN h
    BY <1>3
  <2> QED
    BY <1>5, <2>1, <2>2, <2>3, <2>4, Zenon DEF ChunkFits
<1>8. h[Base].cinuse /\ h[Base].pinuse /\ ~h[t].cinuse /\ ~h[End].cinuse /\ h[End].size > 0
  BY <1>3
<1>9. Layout(h, t)
  <2>1. \A p \in DOMAIN h : p # End => ChunkFits(h, t, p)
    BY <1>3, <1>6, <1>7, Zenon
  <2>2. {Base, End, t} \subseteq DOMAIN h /\ t # End
    BY <1>1, <1>2, <1>3
  <2> QED
    BY <1>4, <1>5, <1>8, <2>1, <2>2, Zenon DEF Layout
<1> QED
  BY <1>9 DEF t

(* What a new mspace is made of.                                            *)
FirstState ==
    LET base == Base
        size == MaxSize
        extern == TRUE
        msize == pad_request(STATE_SIZE)
    IN   [head            |-> [p \in {base} |-> [size |-> msize, pinuse |-> TRUE,
                                                     cinuse |-> TRUE]],
              foot            |-> [p \in {} |-> 0],
              smallmap        |-> {},
              smallbin        |-> [i \in 0 .. NSMALLBINS - 1 |-> <<>>],
              treemap         |-> {},
              treebin         |-> [i \in 0 .. NTREEBINS - 1 |-> NULL],
              node            |-> [p \in {} |-> NewNode(NULL, NULL, NULL, 0)],
              dv              |-> NULL,
              dvsize          |-> 0,
              top             |-> NULL,
              topsize         |-> 0,
              trim_check      |-> 0,
              release_checks  |-> ReleaseRate,
              segs            |-> <<[base |-> base, size |-> size,
                                     extern |-> extern,
                                     record |-> chunk2mem(base)]>>,
              footprint       |-> size,
              footprint_limit |-> 0,
              least_addr      |-> base]

(* Its fields that no head is in.                                           *)
FirstFields(m) ==
    /\ Fields \subseteq DOMAIN m
    /\ m.smallmap = {} /\ m.smallbin = [i \in 0 .. 31 |-> <<>>]
    /\ m.treemap = {} /\ m.treebin = [i \in 0 .. 31 |-> NULL]
    /\ m.node = [p \in {} |-> NewNode(NULL, NULL, NULL, 0)]
    /\ m.dv = NULL /\ m.dvsize = 0

(* The fields there are.                                                    *)
LEMMA FieldNames ==
    /\ {"head", "foot", "node", "treemap", "treebin", "smallmap", "smallbin",
        "top", "topsize", "dv", "dvsize"} = Fields
  BY DEF Fields, BinFields

(* A new mspace by its fields.                                              *)
LEMMA NewFields ==
    LET m == NewMspace IN
    /\ FirstFields(m) /\ NewTags(m.head)
    /\ m.top = Base + 944 /\ m.topsize = End - (Base + 944)
<1> DEFINE f == FirstState
           p == Base + 944
           s == End - p
           k == TOP_FOOT_SIZE
           yes == TRUE
           no == FALSE
           first == [size |-> 944, pinuse |-> TRUE, cinuse |-> TRUE]
           rest == [size |-> s, pinuse |-> yes, cinuse |-> no]
           last == [size |-> k, pinuse |-> no, cinuse |-> no]
           e == SetHead(f, End, k, no, no)
           t == SetHead(e, p, s, yes, no)
           w == [t EXCEPT !.top = p, !.topsize = s, !.trim_check = TrimThreshold]
           limit == IF MaxSize = MAX_SIZE_T THEN 0 ELSE granularity_align(MaxSize)
           m == [w EXCEPT !.footprint_limit = limit]
<1>1. pad_request(STATE_SIZE) = 944 /\ TOP_FOOT_SIZE = 80
  BY DEF pad_request, AlignUp, STATE_SIZE, TOP_FOOT_SIZE, SEGMENT_SIZE, CHUNK_OVERHEAD,
         MALLOC_ALIGNMENT, MIN_CHUNK_SIZE, SIZE_T_SIZE
<1>2. /\ Base \in Nat /\ End \in Nat /\ MaxSize \in Nat
      /\ Base + 944 + 16 <= End /\ End + 80 = Base + MaxSize
  BY AreaEnds
<1>3. p \in Nat /\ s \in Nat /\ s > 0 /\ p + s = End /\ MaxSize - 944 - 80 = s
      /\ Base < p /\ p < End /\ k \in Nat /\ k = 80
  BY <1>1, <1>2
<1>a. /\ Base + pad_request(STATE_SIZE) = p
      /\ MaxSize - pad_request(STATE_SIZE) - TOP_FOOT_SIZE = s
  BY <1>1, <1>3
<1>6. f.head = [x \in {Base} |-> first]
  BY <1>1 DEF FirstState
<1>b. last = [size |-> 80, pinuse |-> FALSE, cinuse |-> FALSE]
  BY <1>3
<1>c. p = Base + 944 /\ s = End - (Base + 944) /\ yes = TRUE /\ no = FALSE
  OBVIOUS
<1> HIDE DEF p, s, first, rest, last
<1>4. NewMspace = m
  <2>1. init_user_mstate(Base, MaxSize, TRUE) =
          init_top(f, Base + pad_request(STATE_SIZE), MaxSize - pad_request(STATE_SIZE) - TOP_FOOT_SIZE)
    BY Zenon DEF init_user_mstate, FirstState
  <2> HIDE DEF f
  <2>2. init_user_mstate(Base, MaxSize, TRUE) = init_top(f, p, s)
    BY <1>a, <2>1, Zenon
  <2>3. init_top(f, p, s) = w
    <3>1. p + s = End
      BY <1>3
    <3>2. init_top(f, p, s) =
            [SetHead(SetHead(f, p + s, TOP_FOOT_SIZE, FALSE, FALSE), p, s, TRUE, FALSE) EXCEPT
               !.top = p, !.topsize = s, !.trim_check = TrimThreshold]
      BY Zenon DEF init_top
    <3> QED
      BY <3>1, <3>2, Zenon
  <2> HIDE DEF w
  <2>4. create_mspace_with_base(Base, MaxSize) = w
    BY <2>2, <2>3, Zenon DEF create_mspace_with_base
  <2>5. mspace_set_footprint_limit(w, MaxSize) = m
    BY Zenon DEF mspace_set_footprint_limit
  <2> QED
    BY <2>4, <2>5, Zenon DEF NewMspace
<1>5. FirstFields(f) /\ {"trim_check", "footprint_limit"} \subseteq DOMAIN f
  BY DEF FirstState, FirstFields, Fields, BinFields, NSMALLBINS, NTREEBINS
<1> HIDE DEF f, k, yes, no
<1>7. Writable(f)
  <2>1. {"head", "foot"} \subseteq DOMAIN f
    BY <1>5, FieldNames DEF FirstFields
  <2>2. DOMAIN f.head = {Base}
    BY <1>6
  <2> QED
    BY <1>2, <2>1, <2>2 DEF Writable
<1>8. /\ OnlyHeads(f, e) /\ Writable(e) /\ HeadSet(f, e, End, End + k, last)
  <2> DEFINE a == End
  <2>1. a \in Int /\ k \in Nat
    BY <1>2, <1>3
  <2>2. e = SetHead(f, a, k, no, no)
    OBVIOUS
  <2> HIDE DEF a, e
  <2>3. /\ OnlyHeads(f, e) /\ Writable(e) /\ HeadSet(f, e, a, a + k, last)
    BY <1>7, <2>1, <2>2, SetHeadDoes DEF last
  <2> QED
    BY <2>3 DEF a
<1> HIDE DEF e
<1>9. /\ OnlyHeads(e, t) /\ Writable(t) /\ HeadSet(e, t, p, p + s, rest)
  BY <1>3, <1>8, SetHeadDoes DEF rest
<1> HIDE DEF t
<1>10. DOMAIN e.head = {Base, End} /\ e.head[End] = last /\ e.head[Base] = first
  <2>1. DOMAIN f.head = {Base} /\ Base <= End /\ Base # End
    BY <1>2, <1>6
  <2>2. DOMAIN e.head = {Base, End}
    BY <1>8, <2>1 DEF HeadSet
  <2>3. e.head[Base] = f.head[Base]
    BY <1>8, <2>1, <2>2 DEF HeadSet
  <2> QED
    BY <1>6, <1>8, <2>2, <2>3 DEF HeadSet
<1>11. NewTags(t.head)
  <2>0. p + s = End
    BY <1>3
  <2>1. DOMAIN t.head = {Base, p, End}
    <3>1. DOMAIN t.head = {x \in DOMAIN e.head : x <= p \/ End <= x} \cup {p}
      BY <1>9, <2>0, Zenon DEF HeadSet
    <3>2. Base <= p /\ End <= End
      BY <1>2, <1>3
    <3>3. {x \in DOMAIN e.head : x <= p \/ End <= x} = DOMAIN e.head
      BY <1>10, <3>2, Zenon
    <3> QED
      BY <1>10, <3>1, <3>3
  <2>2. p # Base /\ p # End
    BY <1>2, <1>3
  <2>3. t.head[Base] = e.head[Base] /\ t.head[End] = e.head[End]
    BY <1>9, <2>1, <2>2 DEF HeadSet
  <2>4. t.head[p] = rest
    BY <1>9 DEF HeadSet
  <2>5. t.head[Base] = [size |-> 944, pinuse |-> TRUE, cinuse |-> TRUE]
    BY <1>10, <2>3 DEF first
  <2>6. t.head[Base + 944] = [size |-> End - (Base + 944), pinuse |-> TRUE, cinuse |-> FALSE]
    <3>1. rest = [size |-> End - (Base + 944), pinuse |-> TRUE, cinuse |-> FALSE]
      BY <1>c DEF rest
    <3> DEFINE r == [size |-> End - (Base + 944), pinuse |-> TRUE, cinuse |-> FALSE]
    <3>2. t.head[p] = r /\ p = Base + 944
      BY <1>c, <2>4, <3>1
    <3> HIDE DEF r
    <3>3. t.head[Base + 944] = r
      BY <3>2
    <3> QED
      BY <3>3 DEF r
  <2>7. t.head[End] = [size |-> 80, pinuse |-> FALSE, cinuse |-> FALSE]
    BY <1>b, <1>10, <2>3
  <2> QED
    BY <1>c, <2>1, <2>5, <2>6, <2>7, SMT DEF NewTags
<1>12. DOMAIN t = DOMAIN f /\ \A x \in DOMAIN f : x \notin {"head", "foot"} => t[x] = f[x]
  BY <1>8, <1>9 DEF OnlyHeads
<1> HIDE DEF limit
<1>13. DOMAIN m = DOMAIN f /\ m.head = t.head
       /\ \A x \in DOMAIN f :
            x \notin {"head", "foot", "top", "topsize", "trim_check", "footprint_limit"} => m[x] = f[x]
  BY <1>5, <1>12 DEF FirstFields, Fields
<1>14. m.top = p /\ m.topsize = s
  BY <1>5, <1>12 DEF FirstFields, Fields
<1> HIDE DEF m
<1>15. FirstFields(m)
  BY <1>5, <1>13 DEF FirstFields, Fields, BinFields
<1>16. NewTags(m.head)
  BY <1>11, <1>13, Zenon
<1> QED
  BY <1>4, <1>14, <1>15, <1>16, Zenon DEF p, s

(* A new mspace is sound, and only its state is in use.                     *)
LEMMA NewIsSound ==
    /\ Sound(NewMspace) /\ Taken(NewMspace) = {Base}
    /\ NewMspace.head[Base].size = 944
<1> DEFINE m == NewMspace
           t == Base + 944
<1>1. /\ FirstFields(m) /\ NewTags(m.head) /\ m.top = t /\ m.topsize = End - t
  BY NewFields
<1> HIDE DEF m
<1>2. Layout(m.head, m.top)
  <2>1. Layout(m.head, t)
    BY <1>1, NewLayout
  <2> HIDE DEF t
  <2> QED
    BY <1>1, <2>1, Zenon
<1>3. /\ DOMAIN m.head = {Base, m.top, End} /\ m.head[Base].cinuse /\ m.head[Base].size = 944
      /\ m.head[m.top].size = m.topsize /\ ~m.head[m.top].cinuse /\ ~m.head[End].cinuse
  BY <1>1 DEF NewTags
<1>4. FreeOnes(m) = {} /\ Taken(m) = {Base}
  BY <1>3 DEF FreeOnes, Taken
<1>5. Phys(m)
  <2>1. FeetFit(m)
    BY <1>4 DEF FeetFit
  <2> QED
    BY <1>1, <1>2, <1>3, <2>1 DEF Phys, FirstFields
<1>6. {"head", "node", "treemap", "treebin", "smallmap", "smallbin"} \subseteq DOMAIN m
  BY <1>1 DEF FirstFields, Fields, BinFields
<1>a. /\ m.smallmap = {} /\ m.smallbin = [i \in 0 .. 31 |-> <<>>]
      /\ m.treemap = {} /\ m.treebin = [i \in 0 .. 31 |-> NULL]
      /\ m.node = [p \in {} |-> NewNode(NULL, NULL, NULL, 0)]
  BY <1>1 DEF FirstFields
<1>b. /\ {"head", "smallmap", "smallbin"} \subseteq DOMAIN m
      /\ {"head", "node", "treemap", "treebin"} \subseteq DOMAIN m
  BY <1>6
<1>7. Nodes(m) = {} /\ \E q : Fit(m, q) /\ DOMAIN q = Sizes
  BY <1>a, <1>b, EmptyTreesFit
<1>8. SmallsFit(m) /\ SmallBinned(m) = {}
  BY <1>a, <1>b, EmptySmallsFit
<1>9. BinsFit(m) /\ Binned(m) = {}
  BY <1>7, <1>8 DEF BinsFit, Binned
<1>10. DvSet(m) = {} /\ DvFits(m)
  BY <1>1 DEF DvSet, DvFits, FirstFields
<1>11. Sound(m)
  BY <1>4, <1>5, <1>9, <1>10 DEF Sound, Bins
<1> QED
  BY <1>3, <1>4, <1>11 DEF m

(* Two chunks do not end at one place.                                      *)
LEMMA EndsDiffer ==
    ASSUME NEW m, Phys(m), NEW p \in DOMAIN m.head, NEW q \in DOMAIN m.head, p # q,
           p # End, q # End
    PROVE  EndOf(m.head, p) # EndOf(m.head, q)
<1>1. Layout(m.head, m.top)
  BY DEF Phys
<1>2. /\ p \in Nat /\ q \in Nat
      /\ EndOf(m.head, p) \in Nat /\ EndOf(m.head, p) > p
      /\ EndOf(m.head, q) \in Nat /\ EndOf(m.head, q) > q
      /\ ChunkFits(m.head, m.top, p) /\ ChunkFits(m.head, m.top, q)
  BY <1>1, ChunkOf
<1>3. (q <= p \/ EndOf(m.head, p) <= q) /\ (p <= q \/ EndOf(m.head, q) <= p)
  BY <1>2 DEF ChunkFits
<1> QED
  BY <1>2, <1>3

(* The size of a block is that of its chunk but for the head.               *)
LEMMA UsableSize ==
    ASSUME NEW m, Sound(m), NEW p \in Taken(m)
    PROVE  /\ mspace_usable_size(m, chunk2mem(p)) = m.head[p].size - 8
           /\ TagWord(m, chunk2mem(p)) = EndOf(m.head, p)
<1> DEFINE s == m.head[p].size
<1>1. /\ p \in Nat /\ s \in Nat /\ s >= 32 /\ EndOf(m.head, p) = p + s
      /\ m.head[p].cinuse /\ ~is_mmapped(m, p)
  BY TakenIs
<1>2. chunk2mem(p) = p + 16 /\ chunk2mem(p) # NULL /\ mem2chunk(chunk2mem(p)) = p
  BY <1>1, MemoryOf
<1>3. is_inuse(m, p) /\ overhead_for(m, p) = 8
  BY <1>1 DEF is_inuse, cinuse, overhead_for, CHUNK_OVERHEAD, SIZE_T_SIZE
<1>4. ChunkSize(m, p) = s
  BY DEF ChunkSize
<1>5. mspace_usable_size(m, chunk2mem(p)) = s - 8
  BY <1>2, <1>3, <1>4, Zenon DEF mspace_usable_size
<1>6. SIZE_T_SIZE = 8
  BY DEF SIZE_T_SIZE
<1>7. TagWord(m, chunk2mem(p)) = chunk2mem(p) + (s - 8) - 8
  BY <1>5, <1>6, Zenon DEF TagWord
<1> HIDE DEF s
<1>8. TagWord(m, chunk2mem(p)) = p + s
  BY <1>1, <1>2, <1>7
<1> QED
  BY <1>1, <1>5, <1>8 DEF s

(* The tag is written into the word behind a chunk in use, which no other   *)
(* chunk reads.                                                             *)
TagSet(m, w, p, r) ==
    LET e == EndOf(m.head, p) IN
    /\ Sound(w) /\ Taken(w) = Taken(m) /\ w.head = m.head /\ w.top = m.top
    /\ w.topsize = m.topsize /\ FreeOnes(w) = FreeOnes(m)
    /\ e \in DOMAIN w.foot /\ w.foot[e] = TagOf(r)
    /\ \A k \in DOMAIN m.foot : k # e => k \in DOMAIN w.foot /\ w.foot[k] = m.foot[k]

(* So it does.                                                              *)
LEMMA TagIsSet ==
    ASSUME NEW m, Sound(m), NEW p \in Taken(m), NEW r
    PROVE  TagSet(m, Tagged(m, chunk2mem(p), r), p, r)
<1> DEFINE e == EndOf(m.head, p)
           w == Tagged(m, chunk2mem(p), r)
           F == Put(m.foot, e, TagOf(r))
<1>1. Phys(m) /\ Bins(m, DvSet(m)) /\ DvFits(m)
  BY DEF Sound
<1>2. Fields \subseteq DOMAIN m
  BY <1>1 DEF Phys
<1>3. w = [m EXCEPT !.foot = F]
  <2>1. TagWord(m, chunk2mem(p)) = e
    BY UsableSize
  <2> QED
    BY <2>1, Zenon DEF Tagged
<1>4. /\ e \in DOMAIN F /\ F[e] = TagOf(r)
      /\ \A k \in DOMAIN m.foot : k # e => k \in DOMAIN F /\ F[k] = m.foot[k]
  BY DEF Put
<1> HIDE DEF e, F, w
<1>5. "foot" \in DOMAIN m
  BY <1>2 DEF Fields
<1>6. w.foot = F /\ DOMAIN w = DOMAIN m /\ \A f \in DOMAIN m : f # "foot" => w[f] = m[f]
  BY <1>3, <1>5
<1>7. /\ w.head = m.head /\ w.top = m.top /\ w.topsize = m.topsize
      /\ w.dv = m.dv /\ w.dvsize = m.dvsize /\ \A f \in BinFields : w[f] = m[f]
  BY <1>2, <1>6 DEF Fields, BinFields
<1>8. FreeOnes(w) = FreeOnes(m) /\ Taken(w) = Taken(m) /\ DvSet(w) = DvSet(m)
  BY <1>7 DEF FreeOnes, Taken, DvSet
<1>9. ASSUME NEW x \in FreeOnes(m) PROVE EndOf(m.head, x) # e
  <2>1. /\ p \in DOMAIN m.head /\ m.head[p].cinuse /\ x \in DOMAIN m.head /\ ~m.head[x].cinuse
        /\ x # End
    BY DEF Taken, FreeOnes
  <2>2. p # End
    BY <1>1, <2>1 DEF Phys, Layout
  <2> QED
    BY <1>1, <2>1, <2>2, EndsDiffer DEF e
<1>10. Phys(w)
  <2>1. FeetFit(w)
    <3>1. SUFFICES ASSUME NEW x \in FreeOnes(m)
                   PROVE  /\ EndOf(m.head, x) \in DOMAIN w.foot
                          /\ w.foot[EndOf(m.head, x)] = m.head[x].size
      BY <1>7, <1>8, Zenon DEF FeetFit
    <3>2. EndOf(m.head, x) \in DOMAIN m.foot /\ m.foot[EndOf(m.head, x)] = m.head[x].size
      BY <1>1 DEF Phys, FeetFit
    <3> QED
      BY <1>4, <1>6, <1>9, <3>2
  <2> QED
    BY <1>1, <1>2, <1>6, <1>7, <2>1, Zenon DEF Phys
<1>11. Keeps(m, w, FreeOnes(m) \ DvSet(m))
  <2>1. \A x \in FreeOnes(m) : x \in DOMAIN m.head
    BY DEF FreeOnes
  <2> QED
    BY <1>4, <1>6, <1>7, <1>9, <2>1, Zenon DEF Keeps
<1>12. Bins(w, DvSet(w))
  <2>1. DvSet(m) \subseteq FreeOnes(w)
    BY <1>1, <1>8 DEF Bins
  <2>2. FreeOnes(w) \ DvSet(m) = FreeOnes(m) \ DvSet(m)
    BY <1>8
  <2>3. Bins(w, DvSet(m))
    BY <1>1, <1>7, <1>10, <1>11, <2>1, <2>2, WriteBins
  <2> QED
    BY <1>8, <2>3
<1>13. DvFits(w)
  BY <1>1, <1>7, <1>8, Zenon DEF DvFits
<1>14. Sound(w)
  BY <1>10, <1>12, <1>13 DEF Sound
<1> QED
  BY <1>4, <1>6, <1>7, <1>8, <1>14, Zenon DEF TagSet, e, w

-----------------------------------------------------------------------------
(* What this is proved for: the mspace has a limit, and its area and all    *)
(* that is asked of it stay below 2^30 bytes, as the sizes of Chunks do.    *)
AreaIsBounded ==
    /\ MaxSize # MAX_SIZE_T /\ MaxSize < Pow(30)
    /\ \A r \in Requests : ChunkFor(r.align, Bytes(r)) < Pow(30)

(* A block of the program has a chunk that is in use, and its tag.          *)
BlockFits(m, b, r) ==
    LET p == mem2chunk(b)
        e == EndOf(m.head, p) IN
    /\ p \in Taken(m) /\ p # Base /\ b = chunk2mem(p)
    /\ e \in DOMAIN m.foot /\ m.foot[e] = TagOf(r)
    /\ r \in Requests /\ r.size + 16 <= m.head[p].size

(* The mspace is sound, and what is in use is its state and the blocks of   *)
(* the program.                                                             *)
HeapFits(m, blocks) ==
    /\ Sound(m) /\ m.head[Base].size = 944
    /\ Taken(m) = {Base} \cup {mem2chunk(b) : b \in DOMAIN blocks}
    /\ \A b \in DOMAIN blocks : BlockFits(m, b, blocks[b])

(* A block stays one where its chunk is kept.                               *)
LEMMA BlockStays ==
    ASSUME NEW m, NEW b, NEW r, BlockFits(m, b, r), NEW w, NEW S, Keeps(m, w, S),
           mem2chunk(b) \in S
    PROVE  BlockFits(w, b, r)
<1> DEFINE p == mem2chunk(b)
           e == EndOf(m.head, p)
           f == EndOf(w.head, p)
<1>1. /\ p \in Taken(m) /\ p # Base /\ b = chunk2mem(p)
      /\ e \in DOMAIN m.foot /\ m.foot[e] = TagOf(r)
      /\ r \in Requests /\ r.size + 16 <= m.head[p].size
  BY Zenon DEF BlockFits
<1> HIDE DEF p
<1>2. /\ p \in DOMAIN w.head /\ w.head[p].size = m.head[p].size
      /\ w.head[p].cinuse = m.head[p].cinuse /\ e \in DOMAIN w.foot /\ w.foot[e] = m.foot[e]
  BY <1>1, Zenon DEF Keeps, p
<1>3. f = e
  BY <1>2, Zenon DEF EndOf
<1>4. p \in Taken(w)
  BY <1>1, <1>2 DEF Taken
<1> HIDE DEF e, f
<1>5. f \in DOMAIN w.foot /\ w.foot[f] = TagOf(r) /\ r.size + 16 <= w.head[p].size
  BY <1>1, <1>2, <1>3, Zenon
<1> QED
  BY <1>1, <1>4, <1>5, Zenon DEF BlockFits, p, f

(* So does the chunk of the state.                                          *)
LEMMA BaseStays ==
    ASSUME NEW m, Sound(m), NEW w, NEW S, Keeps(m, w, S), Base \in S, m.head[Base].size = 944
    PROVE  w.head[Base].size = 944
  BY Zenon DEF Keeps

(* The state of the mspace is in use.                                       *)
LEMMA BaseIsTaken ==
    ASSUME NEW m, Sound(m)
    PROVE  Base \in Taken(m)
<1>1. Layout(m.head, m.top)
  BY DEF Sound, Phys
<1> QED
  BY <1>1 DEF Layout, Taken

(* A block that is given is one more.                                       *)
LEMMA GivenFits ==
    ASSUME NEW m, NEW blocks, HeapFits(m, blocks), NEW l, NEW p, Gets(m, l, p),
           NEW r \in Requests, r.size + 16 <= l.head[p].size
    PROVE  LET b == chunk2mem(p) IN HeapFits(Tagged(l, b, r), Put(blocks, b, r))
<1> DEFINE b == chunk2mem(p)
           w == Tagged(l, b, r)
           more == Put(blocks, b, r)
           e == EndOf(l.head, p)
<1>1. /\ Sound(l) /\ p \notin Taken(m) /\ p # Base /\ Taken(l) = Taken(m) \cup {p}
      /\ Keeps(m, l, Taken(m)) /\ p \in Taken(l)
  BY DEF Gets
<1>2. /\ Sound(m) /\ m.head[Base].size = 944
      /\ Taken(m) = {Base} \cup {mem2chunk(c) : c \in DOMAIN blocks}
      /\ \A c \in DOMAIN blocks : BlockFits(m, c, blocks[c])
  BY DEF HeapFits
<1>3. TagSet(l, w, p, r)
  BY <1>1, TagIsSet
<1>4. mem2chunk(b) = p
  <2>1. p \in Nat
    BY <1>1, TakenIs
  <2> QED
    BY <2>1, MemoryOf
<1> HIDE DEF b, w, more, e
<1>5. DOMAIN more = DOMAIN blocks \cup {b} /\ more[b] = r
      /\ \A c \in DOMAIN blocks : c # b => more[c] = blocks[c]
  BY DEF Put, more
<1>6. /\ Sound(w) /\ Taken(w) = Taken(l) /\ w.head = l.head
      /\ e \in DOMAIN w.foot /\ w.foot[e] = TagOf(r)
      /\ \A k \in DOMAIN l.foot : k # e => k \in DOMAIN w.foot /\ w.foot[k] = l.foot[k]
  BY <1>3, Zenon DEF TagSet, e
<1>7. Taken(w) = {Base} \cup {mem2chunk(c) : c \in DOMAIN more}
  BY <1>1, <1>2, <1>4, <1>5, <1>6
<1>8. b \notin DOMAIN blocks
  BY <1>1, <1>2, <1>4
<1>9. ASSUME NEW c \in DOMAIN blocks PROVE BlockFits(w, c, more[c])
  <2> DEFINE q == mem2chunk(c)
  <2>1. more[c] = blocks[c]
    BY <1>5, <1>8
  <2>2. q \in Taken(m)
    BY <1>2
  <2>3. BlockFits(l, c, blocks[c])
    BY <1>1, <1>2, <2>2, BlockStays
  <2> HIDE DEF q
  <2>4. Keeps(l, w, {q})
    <3>1. q \in DOMAIN l.head /\ p \in DOMAIN l.head /\ q # p /\ q # End /\ p # End
      <4>1. q \in Taken(l) /\ q # p
        BY <1>1, <2>2
      <4>2. Layout(l.head, l.top)
        BY <1>1 DEF Sound, Phys
      <4> QED
        BY <1>1, <4>1, <4>2 DEF Taken, Layout
    <3>2. EndOf(l.head, q) # e
      BY <1>1, <3>1, EndsDiffer DEF Sound, e
    <3> DEFINE f == EndOf(l.head, q)
    <3>3. f # e /\ EndOf(l.head, q) = f
      BY <3>2
    <3> HIDE DEF f
    <3>4. f \in DOMAIN l.foot => f \in DOMAIN w.foot /\ w.foot[f] = l.foot[f]
      BY <1>6, <3>3
    <3>5. /\ q \in DOMAIN w.head /\ w.head[q].size = l.head[q].size
          /\ w.head[q].cinuse = l.head[q].cinuse
      BY <1>6, <3>1, Zenon
    <3> QED
      BY <3>1, <3>3, <3>4, <3>5 DEF Keeps
  <2>5. BlockFits(w, c, blocks[c])
    <3>1. q \in {q}
      OBVIOUS
    <3>2. mem2chunk(c) \in {q}
      BY <3>1 DEF q
    <3> QED
      BY <2>3, <2>4, <3>2, BlockStays
  <2> QED
    BY <2>1, <2>5, Zenon
<1>10. BlockFits(w, b, r)
  <2>1. EndOf(w.head, p) = e
    BY <1>6, Zenon DEF e
  <2>2. r.size + 16 <= w.head[p].size
    BY <1>6, Zenon
  <2>3. p \in Taken(w) /\ b = chunk2mem(p)
    BY <1>1, <1>6 DEF b
  <2> QED
    BY <1>1, <1>4, <1>6, <2>1, <2>2, <2>3, Zenon DEF BlockFits
<1>11. w.head[Base].size = 944
  <2>1. Base \in Taken(m)
    BY <1>2, BaseIsTaken
  <2>2. l.head[Base].size = 944
    BY <1>1, <1>2, <2>1, BaseStays
  <2> QED
    BY <1>6, <2>2, Zenon
<1>12. \A c \in DOMAIN more : BlockFits(w, c, more[c])
  BY <1>5, <1>9, <1>10, Zenon
<1> QED
  BY <1>6, <1>7, <1>11, <1>12, Zenon DEF HeapFits, w, more, b

(* A block that is given back is one less.                                  *)
LEMMA FreedFits ==
    ASSUME NEW m, NEW blocks, HeapFits(m, blocks), NEW b \in DOMAIN blocks,
           NEW w, Freed(m, w, mem2chunk(b))
    PROVE  HeapFits(w, Restrict(blocks, DOMAIN blocks \ {b}))
<1> DEFINE p == mem2chunk(b)
           less == Restrict(blocks, DOMAIN blocks \ {b})
<1>1. /\ Sound(m) /\ m.head[Base].size = 944
      /\ Taken(m) = {Base} \cup {mem2chunk(c) : c \in DOMAIN blocks}
      /\ \A c \in DOMAIN blocks : BlockFits(m, c, blocks[c])
  BY DEF HeapFits
<1>2. Sound(w) /\ Taken(w) = Taken(m) \ {p} /\ Keeps(m, w, Taken(w))
  BY DEF Freed
<1>3. \A c \in DOMAIN blocks : c = chunk2mem(mem2chunk(c)) /\ mem2chunk(c) # Base
                              /\ mem2chunk(c) \in Taken(m)
  BY <1>1 DEF BlockFits
<1>4. DOMAIN less = DOMAIN blocks \ {b} /\ \A c \in DOMAIN less : less[c] = blocks[c]
  BY DEF Restrict
<1> HIDE DEF less
<1>5. \A c \in DOMAIN less : mem2chunk(c) # p
  BY <1>3, <1>4, Zenon
<1> HIDE DEF p
<1>6. p # Base
  BY <1>3 DEF p
<1>7. Taken(w) = {Base} \cup {mem2chunk(c) : c \in DOMAIN less}
  <2>1. \A q \in Taken(w) : q = Base \/ \E c \in DOMAIN less : q = mem2chunk(c)
    BY <1>1, <1>2, <1>4 DEF p
  <2>2. Base \in Taken(w) /\ \A c \in DOMAIN less : mem2chunk(c) \in Taken(w)
    BY <1>1, <1>2, <1>3, <1>4, <1>5, <1>6
  <2> QED
    BY <2>1, <2>2
<1>8. ASSUME NEW c \in DOMAIN less PROVE BlockFits(w, c, less[c])
  <2>1. mem2chunk(c) \in Taken(w) /\ c \in DOMAIN blocks
    BY <1>4, <1>7
  <2>2. BlockFits(w, c, blocks[c])
    BY <1>1, <1>2, <2>1, BlockStays
  <2> QED
    BY <1>4, <2>2
<1>9. w.head[Base].size = 944
  BY <1>1, <1>2, <1>7, BaseStays
<1> QED
  BY <1>2, <1>7, <1>8, <1>9 DEF HeapFits, less

(* What a call of mspace_memalign for a request comes to.                   *)
LEMMA RequestYields ==
    ASSUME NEW m, Sound(m), Limited(m), AreaIsBounded, NEW r \in Requests, NEW sys,
           NEW d, r.align <= 16 => d \in {1, 2, 4, 8, 16},
           ~(r.align <= 16) => d = PowerOfTwo(r.align)
    PROVE  Yields(m, Memalign(m, r, sys), ChunkFor(r.align, Bytes(r)),
                  request2size(Bytes(r)), d)
<1> DEFINE align == r.align
           bytes == Bytes(r)
<1>1. /\ r.size \in Nat /\ align \in Nat /\ align <= 2 ^ 29
  BY HeapMspaceAssumption
<1>2. bytes \in Nat
  BY <1>1 DEF Bytes, SIZE_T_SIZE
<1>3. ChunkFor(align, bytes) < Pow(30) /\ MaxSize < Pow(30)
  BY DEF AreaIsBounded
<1>4. (align <= 16 => d \in {1, 2, 4, 8, 16}) /\ (~(align <= 16) => d = PowerOfTwo(align))
  OBVIOUS
<1> HIDE DEF align, bytes
<1>5. Yields(m, mspace_memalign(m, align, bytes, sys), ChunkFor(align, bytes),
             request2size(bytes), d)
  BY <1>1, <1>2, <1>3, <1>4, MemalignYields
<1> QED
  BY <1>5, Zenon DEF Memalign, align, bytes

(* The sizes a request needs.                                               *)
LEMMA RequestNeeds ==
    ASSUME NEW r \in Requests
    PROVE  /\ r.size \in Nat /\ request2size(Bytes(r)) \in Nat
           /\ r.size + 16 <= request2size(Bytes(r))
           /\ request2size(Bytes(r)) <= 32 \/ request2size(Bytes(r)) <= r.size + 31
<1>1. r.size \in Nat
  BY HeapMspaceAssumption
<1>2. Bytes(r) = r.size + 8 /\ Bytes(r) \in Nat
  BY <1>1 DEF Bytes, SIZE_T_SIZE
<1> DEFINE nb == request2size(Bytes(r))
<1>3. /\ nb >= Bytes(r) + CHUNK_OVERHEAD
      /\ nb = MIN_CHUNK_SIZE \/ nb < Bytes(r) + CHUNK_OVERHEAD + MALLOC_ALIGNMENT
  BY <1>2, RequestsArePadded
<1>4. nb \in Nat
  BY <1>2, SizesAreNat
<1> HIDE DEF nb
<1>5. r.size + 16 <= nb /\ (nb <= 32 \/ nb <= r.size + 31)
  BY <1>1, <1>2, <1>3, <1>4, SMT DEF CHUNK_OVERHEAD, MIN_CHUNK_SIZE, MALLOC_ALIGNMENT, SIZE_T_SIZE
<1> QED
  BY <1>1, <1>4, <1>5 DEF nb

(* What Allocate gives.                                                     *)
Served(r, p, l) ==
    /\ Gets(ms, l, p) /\ r.size + 16 <= l.head[p].size
    /\ ms' = Tagged(l, chunk2mem(p), r)
    /\ used' = used + mspace_usable_size(l, chunk2mem(p))
    /\ held' = Put(held, chunk2mem(p), r)

(* The two ways it ends.                                                    *)
LEMMA AllocateEnds ==
    ASSUME Sound(ms), Limited(ms), AreaIsBounded, NEW r \in Requests, NEW sys, Allocate(r, sys),
           NEW d, r.align <= 16 => d \in {1, 2, 4, 8, 16},
           ~(r.align <= 16) => d = PowerOfTwo(r.align)
    PROVE  \/ UNCHANGED vars
           \/ \E p, l : /\ Served(r, p, l) /\ chunk2mem(p) % d = 0
                        /\ l.head[p].size <= request2size(Bytes(r)) + 32
<1> DEFINE got == Memalign(ms, r, sys)
           need == ChunkFor(r.align, Bytes(r))
           nb == request2size(Bytes(r))
<1>1. Yields(ms, got, need, nb, d)
  BY RequestYields
<1>2. IF got.mem = NULL
      THEN ms' = got.m /\ UNCHANGED <<used, held>>
      ELSE /\ ms' = Tagged(got.m, got.mem, r)
           /\ used' = used + Charged(got.m, got.mem, r)
           /\ held' = Put(held, got.mem, r)
  BY DEF Allocate
<1>3. r.size \in Nat /\ nb \in Nat /\ r.size + 16 <= nb
  BY RequestNeeds
<1> HIDE DEF got, need, nb
<1>4. CASE got.mem = NULL /\ got.m = ms /\ (MaxSize <= MAX_REQUEST => Lacks(ms, need))
  BY <1>2, <1>4 DEF vars
<1>5. ASSUME NEW p, got.mem = chunk2mem(p), got.mem # NULL, Gets(ms, got.m, p),
             nb <= got.m.head[p].size, got.m.head[p].size <= nb + 32, chunk2mem(p) % d = 0
      PROVE  Served(r, p, got.m)
  <2> DEFINE s == got.m.head[p].size
  <2>1. s \in Nat
    BY <1>5, TakenIs DEF Gets
  <2>2. nb <= s
    BY <1>5
  <2> HIDE DEF s
  <2>3. r.size + 16 <= s
    BY <1>3, <2>1, <2>2
  <2> QED
    BY <1>2, <1>5, <2>3, Zenon DEF Served, Charged, s
<1> QED
  BY <1>1, <1>4, <1>5, Zenon DEF Yields, nb

(* A call of Allocate keeps the heap sound, ...                             *)
LEMMA AllocateFits ==
    ASSUME HeapFits(ms, held), Limited(ms), AreaIsBounded, NEW r \in Requests, NEW sys,
           Allocate(r, sys)
    PROVE  HeapFits(ms', held')
<1>1. Sound(ms)
  BY DEF HeapFits
<1> DEFINE d == IF r.align <= 16 THEN 1 ELSE PowerOfTwo(r.align)
<1>2. (r.align <= 16 => d \in {1, 2, 4, 8, 16}) /\ (~(r.align <= 16) => d = PowerOfTwo(r.align))
  OBVIOUS
<1> HIDE DEF d
<1>3. \/ UNCHANGED vars
      \/ \E p, l : Served(r, p, l)
  BY <1>1, <1>2, AllocateEnds
<1>4. CASE UNCHANGED vars
  BY <1>4 DEF vars
<1>5. ASSUME NEW p, NEW l, Served(r, p, l) PROVE HeapFits(ms', held')
  <2>1. /\ Gets(ms, l, p) /\ r.size + 16 <= l.head[p].size
        /\ ms' = Tagged(l, chunk2mem(p), r) /\ held' = Put(held, chunk2mem(p), r)
    BY <1>5 DEF Served
  <2>2. HeapFits(Tagged(l, chunk2mem(p), r), Put(held, chunk2mem(p), r))
    BY <2>1, GivenFits
  <2> QED
    BY <2>1, <2>2, Zenon
<1> QED
  BY <1>3, <1>4, <1>5

(* ... as does one of Free ...                                              *)
LEMMA FreeFits ==
    ASSUME HeapFits(ms, held), Limited(ms), AreaIsBounded, NEW b \in DOMAIN held, Free(b)
    PROVE  HeapFits(ms', held') /\ Freed(ms, ms', mem2chunk(b))
<1> DEFINE p == mem2chunk(b)
<1>1. Sound(ms) /\ BlockFits(ms, b, held[b])
  BY DEF HeapFits
<1>2. p \in Taken(ms) /\ p # Base /\ b = chunk2mem(p)
  BY <1>1 DEF BlockFits
<1>3. b # NULL
  BY <1>1, <1>2, TakenIs, MemoryOf
<1>4. MaxSize < Pow(30)
  BY DEF AreaIsBounded
<1>5. Freed(ms, mspace_free(ms, b, FALSE), p)
  BY <1>1, <1>2, <1>3, <1>4, FreeFrees
<1>6. ms' = mspace_free(ms, b, FALSE) /\ held' = Restrict(held, DOMAIN held \ {b})
  BY DEF Free
<1>7. Freed(ms, ms', mem2chunk(b))
  BY <1>5, <1>6
<1>8. HeapFits(ms', Restrict(held, DOMAIN held \ {b}))
  BY <1>7, FreedFits
<1> QED
  BY <1>6, <1>7, <1>8

(* ... and it starts sound, as it does after Clear.                         *)
LEMMA NewFits ==
    HeapFits(NewMspace, NoBlocks)
  BY NewIsSound DEF HeapFits, NoBlocks

-----------------------------------------------------------------------------
(* The walk over the chunks of a segment.                                   *)
ChunkWalkOf(m, seg, g) ==
    g = [q \in Int |->
           IF q = m.top \/ q >= SegmentEnd(seg) \/ q \notin DOMAIN m.head
           THEN {}
           ELSE IF IsFencepost(m, q) THEN {}
           ELSE {q} \cup g[next_chunk(m, q)]]

ChunkWalk(m, seg) == CHOOSE g : ChunkWalkOf(m, seg, g)

(* It ends, since every step goes up.                                       *)
LEMMA ChunkWalkExists ==
    ASSUME NEW m, Phys(m), NEW seg
    PROVE  ChunkWalkOf(m, seg, ChunkWalk(m, seg))
<1> DEFINE D == Int
           R == SUBSET Int
           stop == [q \in D |-> q = m.top \/ q >= SegmentEnd(seg) \/ q \notin DOMAIN m.head
                                \/ IsFencepost(m, q)]
           next == [q \in D |-> next_chunk(m, q)]
           base == [q \in D |-> {}]
           join == [p \in D \X R |-> {p[1]} \cup p[2]]
           high == [q \in D |-> IF q \in DOMAIN m.head THEN End + 1 - q ELSE 0]
<1>1. Layout(m.head, m.top)
  BY DEF Phys
<1>2. \A q \in DOMAIN m.head : q \in Nat /\ q <= End /\ m.head[q].size \in Nat
  BY <1>1, ChunkOf
<1>3. End \in Nat
  BY AreaEnds
<1>4. \A q \in DOMAIN m.head : m.head[q].size > 0
  <2>1. SUFFICES ASSUME NEW q \in DOMAIN m.head PROVE m.head[q].size > 0
    OBVIOUS
  <2>2. CASE q = End
    BY <1>1, <2>2 DEF Layout
  <2>3. CASE q # End
    <3>1. ChunkFits(m.head, m.top, q)
      BY <1>1, <2>3, ChunkOf
    <3>2. m.head[q].size >= 16 /\ m.head[q].size \in Nat
      BY <1>2, <3>1 DEF ChunkFits
    <3> QED
      BY <3>2
  <2> QED
    BY <2>2, <2>3
<1>5. high \in [D -> Nat]
  BY <1>2, <1>3
<1>6. \A q \in D : base[q] \in R
  OBVIOUS
<1>7. \A q \in D : \A e \in R : join[<<q, e>>] \in R
  OBVIOUS
<1>8. ASSUME NEW q \in D, ~stop[q] PROVE next[q] \in D /\ high[next[q]] < high[q]
  <2> DEFINE s == m.head[q].size
             y == q + s
  <2>1. q \in DOMAIN m.head
    BY <1>8
  <2>2. q \in Nat /\ q <= End /\ s \in Nat /\ s > 0
    BY <1>2, <1>4, <2>1
  <2>3. next[q] = y
    BY DEF next_chunk, ChunkSize
  <2>4. y \in Int /\ q < y
    BY <2>2
  <2>5. high[q] = End + 1 - q
    BY <2>1
  <2>6. high[y] = IF y \in DOMAIN m.head THEN End + 1 - y ELSE 0
    BY <2>4
  <2> HIDE DEF high, y, next
  <2>7. high[y] < high[q]
    <3>1. CASE y \in DOMAIN m.head
      BY <1>3, <2>2, <2>4, <2>5, <2>6, <3>1
    <3>2. CASE y \notin DOMAIN m.head
      BY <1>3, <2>2, <2>5, <2>6, <3>2
    <3> QED
      BY <3>1, <3>2
  <2> QED
    BY <2>3, <2>4, <2>7
<1> HIDE DEF high, stop, next, base, join
<1>9. PICK g \in [D -> R] : WalkOf(g, D, stop, next, base, join)
  <2> HIDE DEF D, R
  <2> QED
    BY <1>5, <1>6, <1>7, <1>8, WalksExist
<1>10. ChunkWalkOf(m, seg, g)
  <2>1. ASSUME NEW q \in D
        PROVE  (IF stop[q] THEN base[q] ELSE join[<<q, g[next[q]]>>]) =
               IF q = m.top \/ q >= SegmentEnd(seg) \/ q \notin DOMAIN m.head
               THEN {}
               ELSE IF IsFencepost(m, q) THEN {}
               ELSE {q} \cup g[next_chunk(m, q)]
    <3>1. CASE stop[q]
      BY <3>1 DEF stop, base
    <3>2. CASE ~stop[q]
      <4>1. next[q] \in D /\ next[q] = next_chunk(m, q)
        BY <1>8, <3>2 DEF next
      <4>2. g[next[q]] \in R
        BY <4>1
      <4>3. join[<<q, g[next[q]]>>] = {q} \cup g[next_chunk(m, q)]
        BY <4>1, <4>2 DEF join
      <4> QED
        BY <3>2, <4>3 DEF stop
    <3> QED
      BY <3>1, <3>2
  <2> QED
    BY <1>9, <2>1 DEF WalkOf, ChunkWalkOf
<1> QED
  BY <1>10 DEF ChunkWalk

(* It finds all chunks but top.                                             *)
LEMMA AllAreWalked ==
    ASSUME NEW m, Phys(m), NEW seg, seg.base = Base, seg.size = MaxSize
    PROVE  WalkedFrom(m, seg) = DOMAIN m.head \ {m.top, End}
<1> DEFINE g == ChunkWalk(m, seg)
           From(q) == {x \in DOMAIN m.head : q <= x /\ x < m.top}
           Bad == {n \in Nat : \E q \in DOMAIN m.head :
                                  q <= m.top /\ m.top - q = n /\ g[q] # From(q)}
<1>1. Layout(m.head, m.top)
  BY DEF Phys
<1>2. /\ {Base, End, m.top} \subseteq DOMAIN m.head /\ m.top # End
      /\ EndOf(m.head, m.top) = End
  BY <1>1 DEF Layout
<1>3. \A q \in DOMAIN m.head : q \in Nat /\ q <= End /\ q >= Base
  BY <1>1, ChunkOf
<1>4. End \in Nat /\ Base \in Nat /\ End + 80 = Base + MaxSize
  BY AreaEnds
<1>5. m.top \in Nat /\ m.top < End
  BY <1>2, <1>3, <1>4
<1>6. \A q \in Int : g[q] =
         IF q = m.top \/ q >= SegmentEnd(seg) \/ q \notin DOMAIN m.head
         THEN {}
         ELSE IF IsFencepost(m, q) THEN {}
         ELSE {q} \cup g[next_chunk(m, q)]
  <2>1. ChunkWalkOf(m, seg, g)
    BY ChunkWalkExists
  <2> HIDE DEF g
  <2> QED
    BY <2>1 DEF ChunkWalkOf
<1>7. SegmentEnd(seg) = Base + MaxSize
  BY DEF SegmentEnd
<1>8. Bad = {}
  <2>1. SUFFICES ASSUME Bad # {} PROVE FALSE
    OBVIOUS
  <2>2. PICK n \in Bad : \A k \in Bad : n <= k
    <3>1. Bad \in SUBSET Nat
      OBVIOUS
    <3> HIDE DEF Bad
    <3> QED
      BY <2>1, <3>1, LeastNat
  <2>3. PICK q \in DOMAIN m.head : q <= m.top /\ m.top - q = n /\ g[q] # From(q)
    OBVIOUS
  <2> HIDE DEF g
  <2>4. q \in Nat /\ q >= Base /\ q \in Int
    BY <1>3
  <2>5. CASE q = m.top
    <3>1. g[q] = {}
      BY <1>6, <2>4, <2>5
    <3>2. From(q) = {}
      BY <1>3, <1>5, <2>5
    <3> QED
      BY <2>3, <3>1, <3>2
  <2>6. CASE q # m.top
    <3> DEFINE y == EndOf(m.head, q)
    <3>1. q < m.top /\ q # End
      BY <1>5, <2>3, <2>4, <2>6
    <3>2. ChunkFits(m.head, m.top, q) /\ y \in Nat /\ y > q /\ m.head[q].size \in Nat
      BY <1>1, <3>1, ChunkOf
    <3>3. y \in DOMAIN m.head /\ \A x \in DOMAIN m.head : x <= q \/ y <= x
      BY <3>2 DEF ChunkFits
    <3>4. next_chunk(m, q) = y
      BY DEF next_chunk, ChunkSize, EndOf
    <3> HIDE DEF y
    <3>5. y <= m.top
      BY <1>2, <1>5, <2>4, <3>1, <3>3
    <3>6. ~(q >= SegmentEnd(seg))
      BY <1>4, <1>5, <1>7, <2>4, <3>1
    <3>7. ~IsFencepost(m, q)
      <4>1. m.head[q].size >= 32
        BY <2>6, <3>2 DEF ChunkFits
      <4> QED
        BY <3>2, <4>1 DEF IsFencepost, ChunkSize, SIZE_T_SIZE
    <3>8. g[q] = {q} \cup g[y]
      BY <1>6, <2>4, <2>6, <3>4, <3>6, <3>7
    <3>9. g[y] = From(y)
      <4>1. m.top - y \in Nat /\ m.top - y < n
        BY <1>5, <2>3, <2>4, <3>2, <3>5
      <4>2. m.top - y \notin Bad
        BY <2>2, <4>1
      <4> QED
        BY <3>3, <3>5, <4>1, <4>2
    <3>10. From(q) = {q} \cup From(y)
      <4>1. \A x \in DOMAIN m.head : x \in Nat /\ (q <= x <=> x = q \/ y <= x)
        BY <1>3, <2>4, <3>2, <3>3
      <4> QED
        BY <3>1, <4>1
    <3> QED
      BY <2>3, <3>8, <3>9, <3>10
  <2> QED
    BY <2>5, <2>6
<1>9. g[Base] = From(Base)
  <2>1. Base <= m.top /\ m.top - Base \in Nat
    BY <1>2, <1>3, <1>5, <1>4
  <2>2. m.top - Base \notin Bad
    BY <1>8
  <2> HIDE DEF g
  <2> QED
    BY <1>2, <2>1, <2>2
<1>10. From(Base) = DOMAIN m.head \ {m.top, End}
  <2>1. ASSUME NEW x \in DOMAIN m.head, x # m.top, x # End PROVE x < m.top
    <3>1. ChunkFits(m.head, m.top, m.top)
      BY <1>1, <1>2, ChunkOf
    <3>2. x <= m.top \/ End <= x
      BY <1>2, <3>1 DEF ChunkFits
    <3> QED
      BY <1>3, <1>4, <1>5, <2>1, <3>2
  <2>2. \A x \in DOMAIN m.head : Base <= x /\ (x < m.top => x # m.top /\ x # End)
    BY <1>3, <1>4, <1>5
  <2> QED
    BY <2>1, <2>2
<1>11. WalkedFrom(m, seg) = g[Base]
  BY DEF WalkedFrom, ChunkWalk, ChunkWalkOf
<1> QED
  BY <1>9, <1>10, <1>11

(* The chunks that are walked, and the free ones of them.                   *)
LEMMA WalkedChunks ==
    ASSUME NEW m, Phys(m), Limited(m)
    PROVE  /\ Walked(m) = DOMAIN m.head \ {m.top, End}
           /\ WalkedFrom(m, Head(m.segs)) = Walked(m)
           /\ Head(m.segs).base = Base /\ Head(m.segs).size = MaxSize
           /\ FreeChunks(m) = FreeOnes(m)
<1> DEFINE seg == [base |-> Base, size |-> MaxSize, extern |-> TRUE, record |-> chunk2mem(Base)]
<1>1. m.segs = <<seg>>
  BY DEF Limited
<1>2. seg.base = Base /\ seg.size = MaxSize
  OBVIOUS
<1> HIDE DEF seg
<1>3. WalkedFrom(m, seg) = DOMAIN m.head \ {m.top, End}
  BY <1>2, AllAreWalked
<1>4. Head(m.segs) = seg
  BY <1>1
<1>5. Walked(m) = WalkedFrom(m, seg)
  <2>1. DOMAIN m.segs = {1} /\ m.segs[1] = seg
    BY <1>1
  <2> QED
    BY <2>1 DEF Walked
<1>6. FreeChunks(m) = FreeOnes(m)
  <2>1. ASSUME NEW q \in DOMAIN m.head, q # m.top, q # End
        PROVE  is_inuse(m, q) <=> m.head[q].cinuse
    <3>1. Layout(m.head, m.top)
      BY DEF Phys
    <3>2. ~m.head[q].cinuse => m.head[q].pinuse
      BY <2>1, <3>1, ChunkOf DEF ChunkFits
    <3> QED
      BY <3>2 DEF is_inuse, is_mmapped, cinuse, pinuse
  <2> QED
    BY <1>3, <1>5, <2>1 DEF FreeChunks, FreeOnes
<1> QED
  BY <1>2, <1>3, <1>4, <1>5, <1>6, Zenon

(* What the heads and feet say is so.                                       *)
LEMMA SoundTags ==
    ASSUME NEW m, Phys(m), Limited(m)
    PROVE  TagsAgree(m)
<1> DEFINE seg == Head(m.segs)
<1>1. Layout(m.head, m.top) /\ m.topsize = m.head[m.top].size /\ FeetFit(m)
  BY DEF Phys
<1>2. /\ Walked(m) = DOMAIN m.head \ {m.top, End} /\ WalkedFrom(m, seg) = Walked(m)
      /\ seg.base = Base /\ seg.size = MaxSize
  BY WalkedChunks
<1> HIDE DEF seg
<1>3. ASSUME NEW q \in Walked(m) PROVE NeighboursAgree(m, q)
  <2> DEFINE y == EndOf(m.head, q)
  <2>1. q \in DOMAIN m.head /\ q # m.top /\ q # End
    BY <1>2
  <2>2. q \in Nat /\ q % 16 = 0 /\ ChunkFits(m.head, m.top, q)
    BY <1>1, <2>1, ChunkOf
  <2>3. next_chunk(m, q) = y /\ ChunkSize(m, q) = m.head[q].size
    BY DEF next_chunk, ChunkSize, EndOf
  <2>4. /\ m.head[q].size % 16 = 0 /\ m.head[q].size >= 32 /\ y \in DOMAIN m.head
        /\ m.head[y].pinuse = m.head[q].cinuse
        /\ ~m.head[q].cinuse => m.head[q].pinuse /\ m.head[y].cinuse
    BY <2>1, <2>2 DEF ChunkFits
  <2>5. ~m.head[q].cinuse => m.foot[y] = m.head[q].size
    BY <1>1, <2>1 DEF FeetFit, FreeOnes
  <2>6. chunk2mem(q) % 16 = 0
    BY <2>2, SMT DEF chunk2mem, SIZE_T_SIZE
  <2>7. MALLOC_ALIGNMENT = 16 /\ MIN_CHUNK_SIZE = 32
    BY DEF MALLOC_ALIGNMENT, MIN_CHUNK_SIZE, SIZE_T_SIZE
  <2> HIDE DEF y
  <2> QED
    BY <2>3, <2>4, <2>5, <2>6, <2>7, Zenon DEF NeighboursAgree, pinuse, cinuse
<1>4. TopEndsItsSegment(m)
  <2>1. SegmentEnd(seg) = Base + MaxSize
    BY <1>2 DEF SegmentEnd
  <2>2. /\ End \in Nat /\ Base \in Nat /\ End + 80 = Base + MaxSize /\ TOP_FOOT_SIZE = 80
    BY AreaEnds DEF TOP_FOOT_SIZE, pad_request, AlignUp, SEGMENT_SIZE, CHUNK_OVERHEAD,
         MALLOC_ALIGNMENT, MIN_CHUNK_SIZE, SIZE_T_SIZE
  <2>3. m.top \in DOMAIN m.head /\ m.top # End /\ EndOf(m.head, m.top) = End
        /\ Base \in DOMAIN m.head /\ m.head[Base].cinuse /\ ~m.head[m.top].cinuse
    BY <1>1 DEF Layout
  <2>4. /\ m.top \in Nat /\ m.top >= Base /\ m.top <= End /\ m.head[m.top].size \in Nat
        /\ ChunkFits(m.head, m.top, m.top)
    BY <1>1, <2>3, ChunkOf
  <2>5. m.head[m.top].size >= 16 /\ m.head[m.top].pinuse /\ m.top + m.head[m.top].size = End
    BY <2>3, <2>4 DEF ChunkFits, EndOf
  <2>6. m.top \in Base .. Base + MaxSize - 1
    BY <2>2, <2>4, AreaEnds
  <2>7. m.topsize = ChunkSize(m, m.top) /\ m.topsize > 0
    BY <1>1, <2>4, <2>5 DEF ChunkSize
  <2>8. m.top + m.topsize + TOP_FOOT_SIZE = Base + MaxSize
    BY <1>1, <2>2, <2>5
  <2>9. \E q \in WalkedFrom(m, seg) : next_chunk(m, q) = m.top
    <3>1. m.top # Base
      BY <2>3
    <3>2. PICK q \in DOMAIN m.head : q # End /\ q < m.top /\ EndOf(m.head, q) = m.top
      BY <1>1, <2>3, <3>1, ChunkBefore
    <3>3. q # m.top
      BY <2>4, <3>2
    <3>4. next_chunk(m, q) = m.top
      BY <3>2 DEF next_chunk, ChunkSize, EndOf
    <3> QED
      BY <1>2, <3>2, <3>3, <3>4
  <2>10. pinuse(m, m.top) /\ ~cinuse(m, m.top)
    BY <2>3, <2>5 DEF pinuse, cinuse
  <2>11. m.top \in seg.base .. SegmentEnd(seg) - 1
    BY <1>2, <2>1, <2>2, <2>4, <2>6
  <2> QED
    BY <2>1, <2>7, <2>8, <2>9, <2>10, <2>11, Zenon DEF TopEndsItsSegment, seg
<1> QED
  BY <1>3, <1>4 DEF TagsAgree

(* The free chunks are where they are searched.                             *)
LEMMA SoundBins ==
    ASSUME NEW m, Sound(m), Limited(m), MaxSize < Pow(30)
    PROVE  EveryFreeChunkIsBinned(m)
<1>1. Phys(m) /\ Bins(m, DvSet(m)) /\ DvFits(m)
  BY DEF Sound
<1>2. /\ BinsFit(m) /\ DvSet(m) \subseteq FreeOnes(m) /\ Binned(m) = FreeOnes(m) \ DvSet(m)
  BY <1>1 DEF Bins
<1>3. SmallsFit(m) /\ \E q : Fit(m, q) /\ DOMAIN q = Sizes
  BY <1>2 DEF BinsFit
<1>4. FreeChunks(m) = FreeOnes(m)
  BY <1>1, WalkedChunks
<1>5. Nodes(m) = DOMAIN m.node
  BY DEF Nodes
<1>6. FreeChunks(m) = SmallBinned(m) \cup DOMAIN m.node \cup (IF m.dvsize = 0 THEN {} ELSE {m.dv})
  <2>1. FreeOnes(m) = Binned(m) \cup DvSet(m)
    BY <1>2
  <2> QED
    BY <1>4, <1>5, <2>1, Zenon DEF Binned, DvSet
<1>7. SmallBinned(m) \cap DOMAIN m.node = {}
  <2>1. \A p \in Binned(m) : (p \in SmallBinned(m) <=> is_small(ChunkSize(m, p)))
                             /\ (p \in Nodes(m) <=> ~is_small(ChunkSize(m, p)))
    BY <1>2, BinnedBySize
  <2> QED
    BY <1>5, <2>1 DEF Binned
<1>8. m.dv \notin SmallBinned(m) \cup DOMAIN m.node
  <2>1. CASE m.dvsize = 0
    <3>1. m.dv = NULL
      BY <1>1, <2>1 DEF DvFits
    <3>2. \A p \in FreeOnes(m) : p # NULL
      BY <1>1, FreeSizes
    <3> QED
      BY <1>2, <1>5, <3>1, <3>2 DEF Binned
  <2>2. CASE m.dvsize # 0
    BY <1>2, <1>5, <2>2 DEF Binned, DvSet
  <2> QED
    BY <2>1, <2>2
<1>9. IF m.dvsize = 0 THEN m.dv = NULL ELSE m.dvsize = ChunkSize(m, m.dv)
  BY <1>1 DEF DvFits, ChunkSize
<1>10. ASSUME NEW i \in m.smallmap
       PROVE  /\ m.smallbin[i] # <<>> /\ IsInjective(m.smallbin[i])
              /\ \A p \in Range(m.smallbin[i]) : small_index2size(i) = ChunkSize(m, p)
  <2> DEFINE a == m.smallbin[i]
  <2>1. i \in 0 .. 31
    BY <1>3 DEF SmallsFit
  <2>2. RingFits(m, a, i) /\ a # <<>>
    BY <1>3, <2>1 DEF SmallsFit
  <2> HIDE DEF a
  <2>3. /\ a \in Seq(Int) /\ \A j, k \in 1 .. Len(a) : a[j] = a[k] => j = k
        /\ \A k \in 1 .. Len(a) : ChunkSize(m, a[k]) = 8 * i
    BY <2>2 DEF RingFits
  <2>4. DOMAIN a = 1 .. Len(a)
    BY <2>3
  <2>5. IsInjective(a)
    BY <2>3, <2>4, Zenon DEF IsInjective
  <2>6. small_index2size(i) = 8 * i
    BY <2>1 DEF small_index2size, SMALLBIN_WIDTH
  <2>7. \A p \in Range(a) : small_index2size(i) = ChunkSize(m, p)
    BY <2>3, <2>4, <2>6, Zenon DEF Range
  <2> QED
    BY <2>2, <2>5, <2>7, Zenon DEF a
<1>11. ASSUME NEW p \in DOMAIN m.node PROVE ~is_small(ChunkSize(m, p)) /\ tree_find(m, p)
  <2>1. p \in Nodes(m) /\ p \in Binned(m)
    BY <1>5 DEF Binned
  <2>2. ~is_small(ChunkSize(m, p))
    BY <1>2, <2>1, BinnedBySize
  <2>3. tree_find(m, p)
    <3>1. PICK q : Fit(m, q) /\ DOMAIN q = Sizes
      BY <1>3
    <3>2. PICK d, top : TreesFit(m, d, top)
      BY <3>1 DEF Fit
    <3>3. RingsFit(m, q)
      BY <3>1 DEF Fit
    <3> QED
      BY <2>1, <3>2, <3>3, EveryNodeIsFound
  <2> QED
    BY <2>2, <2>3
<1>12. \A i \in DOMAIN m.treebin : i \in m.treemap <=> m.treebin[i] # NULL
  <2>1. BinsTyped(m)
    BY <1>3 DEF Fit, TreesFit
  <2> QED
    BY <2>1 DEF BinsTyped
<1> QED
  BY <1>6, <1>7, <1>8, <1>9, <1>10, <1>11, <1>12, Zenon DEF EveryFreeChunkIsBinned

-----------------------------------------------------------------------------
HeapIsFit == HeapFits(ms, held)

(* The heap is sound at first, and whatever is done to it keeps it so.      *)
LEMMA StepsFit ==
    ASSUME AreaIsBounded
    PROVE  /\ Init => HeapIsFit
           /\ HeapIsFit /\ Limited(ms) /\ [Next]_vars => HeapIsFit'
<1>1. Init => HeapIsFit
  BY NewFits DEF Init, HeapIsFit
<1>2. ASSUME HeapIsFit, Limited(ms), [Next]_vars PROVE HeapIsFit'
  <2>0. HeapFits(ms, held)
    BY <1>2 DEF HeapIsFit
  <2> SUFFICES HeapFits(ms', held')
    BY DEF HeapIsFit
  <2>1. ASSUME NEW r \in Requests, NEW sys \in Answers, Allocate(r, sys)
        PROVE  HeapFits(ms', held')
    BY <1>2, <2>0, <2>1, AllocateFits
  <2>2. ASSUME NEW b \in DOMAIN held, Free(b) PROVE HeapFits(ms', held')
    BY <1>2, <2>0, <2>2, FreeFits
  <2>3. CASE Clear
    BY <2>3, NewFits DEF Clear
  <2>4. CASE UNCHANGED vars
    BY <2>0, <2>4 DEF vars
  <2> QED
    BY <1>2, <2>1, <2>2, <2>3, <2>4 DEF Next
<1> QED
  BY <1>1, <1>2

(* It is so in every state the heap reaches.                                *)
LEMMA HeapStaysFit ==
    ASSUME AreaIsBounded
    PROVE  Spec => [](HeapIsFit /\ Limited(ms))
<1>1. MaxSize # MAX_SIZE_T
  BY DEF AreaIsBounded
<1>2. Spec => []Limited(ms)
  BY <1>1, AreaIsFixed
<1>3. Init => HeapIsFit
  BY StepsFit
<1>4. HeapIsFit /\ Limited(ms) /\ [Next]_vars => HeapIsFit'
  BY StepsFit
<1> QED
  BY <1>2, <1>3, <1>4, PTL DEF Spec

(* The chunks of the mspace are laid out without a gap, each says of its    *)
(* neighbours what is so, no two free ones are next to each other, and each *)
(* free one is in the one bin a search finds it in, whatever is allocated,  *)
(* freed and cleared, and although the heap writes its tags into the words  *)
(* between the chunks (malloc.c:3441, Heap.cpp:111).                        *)
THEOREM MspaceStaysSound ==
    ASSUME AreaIsBounded
    PROVE  Spec => []MspaceIsSound
<1>1. HeapIsFit /\ Limited(ms) => MspaceIsSound
  <2>1. SUFFICES ASSUME HeapIsFit, Limited(ms) PROVE MspaceIsSound
    OBVIOUS
  <2>2. Sound(ms) /\ Phys(ms) /\ MaxSize < Pow(30)
    BY <2>1 DEF HeapIsFit, HeapFits, Sound, AreaIsBounded
  <2>3. TagsAgree(ms)
    BY <2>1, <2>2, SoundTags
  <2>4. EveryFreeChunkIsBinned(ms)
    BY <2>1, <2>2, SoundBins
  <2> QED
    BY <2>3, <2>4 DEF MspaceIsSound
<1>2. Spec => [](HeapIsFit /\ Limited(ms))
  BY HeapStaysFit
<1> QED
  BY <1>1, <1>2, PTL

(* As long as a block is held, its tag is what Allocate wrote into it, and  *)
(* behind the bytes that were asked for: neither other blocks, nor what the *)
(* mspace notes about free chunks, is ever written over it (Heap.cpp:111).  *)
THEOREM TagsStay ==
    ASSUME AreaIsBounded
    PROVE  Spec => []TagsSurvive
<1>1. HeapIsFit => TagsSurvive
  <2>1. SUFFICES ASSUME HeapIsFit, NEW b \in DOMAIN held
                 PROVE  LET word == TagWord(ms, b) IN
                        /\ word \in DOMAIN ms.foot /\ ms.foot[word] = TagOf(held[b])
                        /\ b + held[b].size <= word
    BY DEF TagsSurvive
  <2> DEFINE p == mem2chunk(b)
             e == EndOf(ms.head, p)
             r == held[b]
             s == ms.head[p].size
  <2>2. Sound(ms) /\ BlockFits(ms, b, r)
    BY <2>1 DEF HeapIsFit, HeapFits
  <2>3. /\ p \in Taken(ms) /\ b = chunk2mem(p) /\ e \in DOMAIN ms.foot /\ ms.foot[e] = TagOf(r)
        /\ r \in Requests /\ r.size + 16 <= s
    BY <2>2 DEF BlockFits
  <2> HIDE DEF p
  <2>4. TagWord(ms, chunk2mem(p)) = e
    BY <2>2, <2>3, UsableSize
  <2>5. TagWord(ms, b) = e
    BY <2>3, <2>4, Zenon
  <2>6. p \in Nat /\ s \in Nat /\ e = p + s
    BY <2>2, <2>3, TakenIs
  <2>7. chunk2mem(p) = p + 16
    BY <2>6, MemoryOf
  <2> HIDE DEF e, r, s
  <2>8. r.size \in Nat
    BY <2>3, HeapMspaceAssumption
  <2>9. b + r.size <= e
    BY <2>3, <2>6, <2>7, <2>8
  <2> QED
    BY <2>3, <2>5, <2>9 DEF r
<1>2. Spec => [](HeapIsFit /\ Limited(ms))
  BY HeapStaysFit
<1> QED
  BY <1>1, <1>2, PTL

(* Where the area is no more than a request may be, Allocate turns to the   *)
(* runtime's allocator only when neither top nor any free chunk is as large *)
(* as the chunk it asks for (Heap.cpp:117).                                 *)
THEOREM NothingIsHidden ==
    ASSUME AreaIsBounded, MaxSize <= MAX_REQUEST
    PROVE  Spec => []FailsOnlyWhenNothingFits
<1>1. HeapIsFit /\ Limited(ms) => FailsOnlyWhenNothingFits
  <2>1. SUFFICES ASSUME HeapIsFit, Limited(ms), NEW r \in Requests,
                        Memalign(ms, r, Refusing).mem = NULL
                 PROVE  /\ ms.topsize <= ChunkFor(r.align, Bytes(r))
                        /\ \A p \in FreeChunks(ms) : ChunkSize(ms, p) < ChunkFor(r.align, Bytes(r))
    BY DEF FailsOnlyWhenNothingFits
  <2> DEFINE d == IF r.align <= 16 THEN 1 ELSE PowerOfTwo(r.align)
             got == Memalign(ms, r, Refusing)
             need == ChunkFor(r.align, Bytes(r))
             nb == request2size(Bytes(r))
  <2>2. (r.align <= 16 => d \in {1, 2, 4, 8, 16}) /\ (~(r.align <= 16) => d = PowerOfTwo(r.align))
    OBVIOUS
  <2> HIDE DEF d
  <2>3. Sound(ms) /\ Phys(ms)
    BY <2>1 DEF HeapIsFit, HeapFits, Sound
  <2>4. Yields(ms, got, need, nb, d)
    BY <2>1, <2>2, <2>3, RequestYields
  <2>5. got.mem = NULL
    BY <2>1
  <2> HIDE DEF got, need, nb
  <2>6. Lacks(ms, need)
    BY <2>4, <2>5, Zenon DEF Yields
  <2>7. FreeChunks(ms) = FreeOnes(ms)
    BY <2>1, <2>3, WalkedChunks
  <2> QED
    BY <2>6, <2>7, Zenon DEF Lacks, ChunkSize, need
<1>2. Spec => [](HeapIsFit /\ Limited(ms))
  BY HeapStaysFit
<1> QED
  BY <1>1, <1>2, PTL

-----------------------------------------------------------------------------
(* An alignment is a power of two, as align_offset takes it to be.          *)
AlignsArePowers == \A r \in Requests : \E j \in 0 .. 29 : r.align = Pow(j)

(* Such an alignment is the one that is asked for.                          *)
LEMMA PowersAreKept ==
    ASSUME NEW j \in 0 .. 29, NEW a, a = Pow(j)
    PROVE  (a <= 16 => a \in {1, 2, 4, 8, 16}) /\ (~(a <= 16) => a = PowerOfTwo(a))
<1>1. CASE j \in 5 .. 29
  <2>1. Pow(j) >= 32 /\ Pow(j) \in Nat
    BY <1>1, PowersOfSixteen
  <2>2. PowerOfTwo(Pow(j)) = Pow(j)
    BY <1>1, PowerStays
  <2> QED
    BY <2>1, <2>2
<1>2. CASE j \notin 5 .. 29
  <2>1. j \in {0, 1, 2, 3, 4}
    BY <1>2
  <2>2. Pow(0) = 1 /\ Pow(1) = 2 /\ Pow(2) = 4 /\ Pow(3) = 8 /\ Pow(4) = 16
    BY SMT DEF Pow
  <2>3. a \in {1, 2, 4, 8, 16}
    BY <2>1, <2>2
  <2>4. a <= 16
    BY <2>3
  <2> QED
    BY <2>3, <2>4
<1> QED
  BY <1>1, <1>2

(* The blocks of the contract.                                              *)
BlockOf(m, b) == [addr |-> b, size |-> mspace_usable_size(m, b)]
BlocksOf(m, S) == {BlockOf(m, b) : b \in S}

(* The numbers of a block.                                                  *)
LEMMA BlockIs ==
    ASSUME NEW m, NEW blocks, HeapFits(m, blocks), NEW b \in DOMAIN blocks
    PROVE  LET p == mem2chunk(b) IN
           /\ p \in Taken(m) /\ b = chunk2mem(p)
           /\ mspace_usable_size(m, b) = m.head[p].size - 8
<1> DEFINE p == mem2chunk(b)
<1>1. Sound(m) /\ BlockFits(m, b, blocks[b])
  BY DEF HeapFits
<1>2. p \in Taken(m) /\ b = chunk2mem(p)
  BY <1>1 DEF BlockFits
<1> HIDE DEF p
<1>3. mspace_usable_size(m, chunk2mem(p)) = m.head[p].size - 8
  BY <1>1, <1>2, UsableSize
<1> QED
  BY <1>2, <1>3, Zenon DEF p

(* Blocks lie in the area, ...                                              *)
LEMMA BlocksInside ==
    ASSUME NEW m, Sound(m), NEW p \in Taken(m), NEW a, a = chunk2mem(p),
           NEW s, s = m.head[p].size - 8
    PROVE  a \in Nat /\ s \in Nat /\ Base < a /\ a + s <= Base + MaxSize
<1>1. /\ p \in Nat /\ p >= Base /\ m.head[p].size \in Nat /\ m.head[p].size >= 32
      /\ EndOf(m.head, p) = p + m.head[p].size /\ EndOf(m.head, p) <= m.top
      /\ m.top \in Nat /\ m.top < End
  BY TakenIs
<1>2. Base \in Nat /\ End \in Nat /\ MaxSize \in Nat /\ End + 80 = Base + MaxSize
  BY AreaEnds
<1>3. a = p + 16
  BY <1>1, MemoryOf
<1> QED
  BY <1>1, <1>2, <1>3

(* ... and apart.                                                           *)
LEMMA BlocksApart ==
    ASSUME NEW m, Sound(m), NEW p \in Taken(m), NEW q \in Taken(m), p # q,
           NEW a, a = chunk2mem(p), NEW s, s = m.head[p].size - 8,
           NEW b, b = chunk2mem(q), NEW t, t = m.head[q].size - 8
    PROVE  a + s <= b \/ b + t <= a
<1>1. /\ p \in Nat /\ q \in Nat /\ p \in DOMAIN m.head /\ q \in DOMAIN m.head
      /\ m.head[p].size \in Nat /\ m.head[q].size \in Nat
      /\ EndOf(m.head, p) = p + m.head[p].size /\ EndOf(m.head, q) = q + m.head[q].size
      /\ m.head[p].cinuse /\ m.head[q].cinuse
  BY TakenIs
<1>2. Layout(m.head, m.top)
  BY DEF Sound, Phys
<1>3. p # End /\ q # End
  BY <1>1, <1>2 DEF Layout
<1>4. /\ p < q => EndOf(m.head, p) <= q
      /\ q < p => EndOf(m.head, q) <= p
  BY <1>1, <1>2, <1>3, ChunksApart
<1>5. a = p + 16 /\ b = q + 16
  BY <1>1, MemoryOf
<1> QED
  BY <1>1, <1>4, <1>5

(* One block more, as the contract has it.                                  *)
GivesOne(B, C, r) ==
    \E b : /\ b \notin B /\ C = B \cup {b}
           /\ b.addr % r.align = 0
           /\ b.size \in r.size + 8 .. r.size + 8 + 47
           /\ Base < b.addr /\ b.addr + b.size <= Base + MaxSize
           /\ \A c \in B : b.addr + b.size <= c.addr \/ c.addr + c.size <= b.addr

(* The blocks there were are the blocks there are.                          *)
LEMMA BlocksStay ==
    ASSUME NEW m, NEW blocks, HeapFits(m, blocks), NEW w, NEW more, HeapFits(w, more),
           NEW S, S \subseteq DOMAIN blocks, S \subseteq DOMAIN more,
           \A b \in S : w.head[mem2chunk(b)].size = m.head[mem2chunk(b)].size
    PROVE  BlocksOf(w, S) = BlocksOf(m, S)
<1>1. \A b \in S : mspace_usable_size(w, b) = mspace_usable_size(m, b)
  <2>1. SUFFICES ASSUME NEW b \in S
                 PROVE  mspace_usable_size(w, b) = mspace_usable_size(m, b)
    OBVIOUS
  <2>2. /\ mspace_usable_size(m, b) = m.head[mem2chunk(b)].size - 8
        /\ mspace_usable_size(w, b) = w.head[mem2chunk(b)].size - 8
    BY BlockIs
  <2> QED
    BY <2>2, Zenon
<1> QED
  BY <1>1, Zenon DEF BlocksOf, BlockOf

(* What is given is as the contract says.                                   *)
LEMMA ServedGives ==
    ASSUME HeapFits(ms, held), HeapFits(ms', held'), NEW r \in Requests,
           NEW p, NEW l, Served(r, p, l), chunk2mem(p) % r.align = 0,
           l.head[p].size <= request2size(Bytes(r)) + 32
    PROVE  GivesOne(BlocksOf(ms, DOMAIN held), BlocksOf(ms', DOMAIN held'), r)
<1> DEFINE b == chunk2mem(p)
           w == ms'
           more == held'
           s == l.head[p].size
           B == BlocksOf(ms, DOMAIN held)
           C == BlocksOf(w, DOMAIN more)
           new == BlockOf(w, b)
<1>1. /\ Gets(ms, l, p) /\ r.size + 16 <= s /\ w = Tagged(l, b, r) /\ more = Put(held, b, r)
  BY DEF Served
<1>2. HeapFits(w, more) /\ s <= request2size(Bytes(r)) + 32 /\ b % r.align = 0
  OBVIOUS
<1> HIDE DEF w, more
<1>3. /\ Sound(l) /\ p \in Taken(l) /\ p \notin Taken(ms) /\ Keeps(ms, l, Taken(ms))
      /\ Taken(l) = Taken(ms) \cup {p}
  BY <1>1 DEF Gets
<1>4. w.head = l.head /\ Taken(w) = Taken(l)
  <2>1. TagSet(l, w, p, r)
    BY <1>1, <1>3, TagIsSet
  <2> QED
    BY <2>1, Zenon DEF TagSet
<1>5. mem2chunk(b) = p
  <2>1. p \in Nat
    BY <1>3, TakenIs
  <2> QED
    BY <2>1, MemoryOf
<1>6. DOMAIN more = DOMAIN held \cup {b}
  BY <1>1 DEF Put
<1>7. \A c \in DOMAIN held : mem2chunk(c) \in Taken(ms)
  BY BlockIs
<1>8. b \notin DOMAIN held
  BY <1>3, <1>5, <1>7
<1>9. BlocksOf(w, DOMAIN held) = B
  <2>1. \A c \in DOMAIN held : w.head[mem2chunk(c)].size = ms.head[mem2chunk(c)].size
    BY <1>3, <1>4, <1>7, Zenon DEF Keeps
  <2>2. DOMAIN held \subseteq DOMAIN held /\ DOMAIN held \subseteq DOMAIN more
    BY <1>6
  <2> QED
    BY <1>2, <2>1, <2>2, BlocksStay
<1>10. C = B \cup {new}
  <2>1. C = BlocksOf(w, DOMAIN held) \cup {new}
    BY <1>6 DEF BlocksOf
  <2> QED
    BY <1>9, <2>1, Zenon
<1>11. new \notin B
  BY <1>8 DEF BlocksOf, BlockOf
<1>12. new.addr = b /\ new.size = s - 8
  <2>1. mspace_usable_size(w, b) = w.head[mem2chunk(b)].size - 8
    BY <1>2, <1>6, BlockIs
  <2>2. new.size = w.head[mem2chunk(b)].size - 8 /\ new.addr = b
    BY <2>1 DEF BlockOf
  <2> HIDE DEF new, b
  <2> QED
    BY <1>4, <1>5, <2>2, Zenon
<1>13. Sound(w) /\ p \in Taken(w)
  BY <1>2, <1>3, <1>4 DEF HeapFits
<1> HIDE DEF new
<1>14. s \in Nat
  BY <1>3, TakenIs
<1>15. new.size \in r.size + 8 .. r.size + 8 + 47
  <2> DEFINE nb == request2size(Bytes(r))
  <2>1. r.size \in Nat /\ nb \in Nat /\ (nb <= 32 \/ nb <= r.size + 31)
    BY RequestNeeds
  <2>2. r.size >= 1
    BY HeapMspaceAssumption
  <2>3. s <= nb + 32 /\ r.size + 16 <= s
    BY <1>1, <1>2
  <2> HIDE DEF nb, s
  <2>4. s - 8 \in r.size + 8 .. r.size + 8 + 47
    BY <1>14, <2>1, <2>2, <2>3
  <2> QED
    BY <1>12, <2>4, Zenon
<1>16. Base < new.addr /\ new.addr + new.size <= Base + MaxSize
  <2>1. new.addr = chunk2mem(p) /\ new.size = w.head[p].size - 8
    BY <1>4, <1>12, Zenon
  <2> QED
    BY <1>13, <2>1, BlocksInside
<1>17. ASSUME NEW c \in B
       PROVE  new.addr + new.size <= c.addr \/ c.addr + c.size <= new.addr
  <2>1. PICK a \in DOMAIN held : c = BlockOf(w, a)
    BY <1>9 DEF BlocksOf
  <2> DEFINE q == mem2chunk(a)
  <2>2. q \in Taken(w) /\ a = chunk2mem(q) /\ mspace_usable_size(w, a) = w.head[q].size - 8
    BY <1>2, <1>6, <2>1, BlockIs
  <2>3. q # p
    BY <1>3, <1>7, <2>1
  <2>4. c.addr = chunk2mem(q) /\ c.size = w.head[q].size - 8
    BY <2>1, <2>2 DEF BlockOf
  <2>5. new.addr = chunk2mem(p) /\ new.size = w.head[p].size - 8
    BY <1>4, <1>12, Zenon
  <2> HIDE DEF q
  <2> QED
    BY <1>13, <2>2, <2>3, <2>4, <2>5, BlocksApart
<1>18. new.addr % r.align = 0
  BY <1>2, <1>12, Zenon
<1> HIDE DEF B, C
<1>19. GivesOne(B, C, r)
  BY <1>10, <1>11, <1>15, <1>16, <1>17, <1>18 DEF GivesOne
<1> QED
  BY <1>19 DEF B, C, w, more

(* What is freed is taken back.                                             *)
LEMMA FreedIsTaken ==
    ASSUME HeapFits(ms, held), HeapFits(ms', held'), NEW b \in DOMAIN held,
           Freed(ms, ms', mem2chunk(b)), held' = Restrict(held, DOMAIN held \ {b})
    PROVE  \E c \in BlocksOf(ms, DOMAIN held) :
              BlocksOf(ms', DOMAIN held') = BlocksOf(ms, DOMAIN held) \ {c}
<1> DEFINE w == ms'
           less == held'
           S == DOMAIN held \ {b}
<1>1. HeapFits(w, less) /\ less = Restrict(held, S) /\ Freed(ms, w, mem2chunk(b))
  OBVIOUS
<1> HIDE DEF w, less
<1>2. DOMAIN less = S
  BY <1>1 DEF Restrict
<1>3. Keeps(ms, w, Taken(w)) /\ \A c \in S : mem2chunk(c) \in Taken(w)
  <2>1. \A c \in S : mem2chunk(c) \in Taken(w)
    BY <1>1, <1>2, BlockIs
  <2> QED
    BY <1>1, <2>1 DEF Freed
<1>4. BlocksOf(w, S) = BlocksOf(ms, S)
  <2>1. \A c \in S : w.head[mem2chunk(c)].size = ms.head[mem2chunk(c)].size
    BY <1>3, Zenon DEF Keeps
  <2>2. S \subseteq DOMAIN held /\ S \subseteq DOMAIN less
    BY <1>2
  <2> HIDE DEF S
  <2> QED
    BY <1>1, <2>1, <2>2, BlocksStay
<1>5. BlocksOf(ms, S) = BlocksOf(ms, DOMAIN held) \ {BlockOf(ms, b)}
  BY DEF BlocksOf, BlockOf
<1>6. BlockOf(ms, b) \in BlocksOf(ms, DOMAIN held)
  BY DEF BlocksOf
<1>7. BlocksOf(w, DOMAIN less) = BlocksOf(ms, DOMAIN held) \ {BlockOf(ms, b)}
  BY <1>2, <1>4, <1>5, Zenon
<1> QED
  BY <1>6, <1>7 DEF w, less

(* The steps of the contract.                                               *)
LEMMA StepsGive ==
    ASSUME AreaIsBounded, AlignsArePowers
    PROVE  /\ Init => Contract!Init
           /\ HeapIsFit /\ HeapIsFit' /\ Limited(ms) /\ [Next]_vars
                => [Contract!Next]_(BlocksOf(ms, DOMAIN held))
<1>1. Init => Contract!Init
  <2>1. DOMAIN NoBlocks = {}
    BY DEF NoBlocks
  <2> QED
    BY <2>1 DEF Init, Contract!Init
<1>2. ASSUME HeapIsFit, HeapIsFit', Limited(ms), [Next]_vars
      PROVE  [Contract!Next]_(BlocksOf(ms, DOMAIN held))
  <2> DEFINE B == BlocksOf(ms, DOMAIN held)
  <2>1. HeapFits(ms, held) /\ HeapFits(ms', held')
    BY <1>2 DEF HeapIsFit
  <2>2. B = {[addr |-> mem, size |-> mspace_usable_size(ms, mem)] : mem \in DOMAIN held}
    BY DEF BlocksOf, BlockOf
  <2>3. B' = BlocksOf(ms', DOMAIN held')
    BY DEF BlocksOf, BlockOf
  <2>4. ASSUME UNCHANGED vars
        PROVE  B' = B
    BY <2>3, <2>4 DEF vars
  <2>5. ASSUME NEW r \in Requests, GivesOne(B, B', r)
        PROVE  Contract!Give(r)
    <3>1. PICK b : /\ b \notin B /\ B' = B \cup {b}
                   /\ b.addr % r.align = 0
                   /\ b.size \in r.size + 8 .. r.size + 8 + 47
                   /\ Base < b.addr /\ b.addr + b.size <= Base + MaxSize
                   /\ \A c \in B : b.addr + b.size <= c.addr \/ c.addr + c.size <= b.addr
      BY <2>5 DEF GivesOne
    <3>2. b \in B' \ B /\ B \subseteq B'
      BY <3>1
    <3>3. Contract!Serves(b, r) /\ Contract!Inside(b)
      BY <3>1 DEF Contract!Serves, Contract!Inside, SIZE_T_SIZE
    <3>4. \A c \in B : Contract!Apart(b, c)
      BY <3>1 DEF Contract!Apart
    <3> QED
      BY <3>1, <3>2, <3>3, <3>4 DEF Contract!Give, BlocksOf, BlockOf
  <2>6. ASSUME NEW r \in Requests, NEW sys \in Answers, Allocate(r, sys)
        PROVE  [Contract!Next]_B
    <3>1. PICK j \in 0 .. 29 : r.align = Pow(j)
      BY DEF AlignsArePowers
    <3> DEFINE d == r.align
    <3>2. (d <= 16 => d \in {1, 2, 4, 8, 16}) /\ (~(d <= 16) => d = PowerOfTwo(d))
      BY <3>1, PowersAreKept
    <3>3. (r.align <= 16 => d \in {1, 2, 4, 8, 16}) /\ (~(r.align <= 16) => d = PowerOfTwo(r.align))
      BY <3>2
    <3> HIDE DEF d
    <3>4. Sound(ms)
      BY <2>1 DEF HeapFits
    <3>5. \/ UNCHANGED vars
          \/ \E p, l : /\ Served(r, p, l) /\ chunk2mem(p) % d = 0
                       /\ l.head[p].size <= request2size(Bytes(r)) + 32
      BY <1>2, <2>6, <3>3, <3>4, AllocateEnds
    <3>6. CASE UNCHANGED vars
      BY <2>4, <3>6
    <3>7. ASSUME NEW p, NEW l, Served(r, p, l), chunk2mem(p) % d = 0,
                 l.head[p].size <= request2size(Bytes(r)) + 32
          PROVE  Contract!Next
      <4>1. chunk2mem(p) % r.align = 0
        BY <3>7 DEF d
      <4>2. GivesOne(BlocksOf(ms, DOMAIN held), BlocksOf(ms', DOMAIN held'), r)
        BY <2>1, <3>7, <4>1, ServedGives
      <4>3. GivesOne(B, B', r)
        BY <2>3, <4>2
      <4> QED
        BY <2>5, <4>3 DEF Contract!Next
    <3> QED
      BY <3>5, <3>6, <3>7
  <2>7. ASSUME NEW b \in DOMAIN held, Free(b)
        PROVE  Contract!Next
    <3>1. Freed(ms, ms', mem2chunk(b))
      BY <1>2, <2>1, <2>7, FreeFits
    <3>2. held' = Restrict(held, DOMAIN held \ {b})
      BY <2>7 DEF Free
    <3>3. \E c \in BlocksOf(ms, DOMAIN held) :
             BlocksOf(ms', DOMAIN held') = BlocksOf(ms, DOMAIN held) \ {c}
      BY <2>1, <3>1, <3>2, FreedIsTaken
    <3>4. \E c \in B : B' = B \ {c}
      BY <2>3, <3>3
    <3>5. Contract!GiveBack
      BY <3>4 DEF Contract!GiveBack, BlocksOf, BlockOf
    <3> QED
      BY <3>5 DEF Contract!Next
  <2>8. ASSUME Clear
        PROVE  Contract!Next
    <3>1. DOMAIN held' = {}
      BY <2>8 DEF Clear, NoBlocks
    <3>2. Contract!Clear
      BY <3>1 DEF Contract!Clear
    <3> QED
      BY <3>2 DEF Contract!Next
  <2> QED
    BY <1>2, <2>4, <2>6, <2>7, <2>8 DEF Next
<1> QED
  BY <1>1, <1>2

(* The heap keeps the contract of its blocks: a call of Allocate hands out  *)
(* one block in the area, at the alignment asked for, with room for the     *)
(* size and the tag and at most 47 bytes more, that overlaps no block that  *)
(* is held; Free takes one back; and no call moves or resizes another       *)
(* (Heap.cpp:107, malloc.c:4605).                                           *)
THEOREM BlocksAreGiven ==
    ASSUME AreaIsBounded, AlignsArePowers
    PROVE  Spec => GivesBlocks
<1>1. Init => Contract!Init
  BY StepsGive
<1>2. HeapIsFit /\ HeapIsFit' /\ Limited(ms) /\ [Next]_vars
         => [Contract!Next]_(BlocksOf(ms, DOMAIN held))
  BY StepsGive
<1>3. HeapIsFit /\ HeapIsFit' /\ Limited(ms) /\ [Next]_vars
         => [Contract!Next]_({[addr |-> mem, size |-> mspace_usable_size(ms, mem)] :
                                 mem \in DOMAIN held})
  BY <1>2 DEF BlocksOf, BlockOf
<1>4. Spec => [](HeapIsFit /\ Limited(ms))
  BY HeapStaysFit
<1> QED
  BY <1>1, <1>3, <1>4, PTL DEF Spec, GivesBlocks, Contract!Spec

(* The chunks below top fill the area up to it.                             *)
LEMMA ChunksAreFinite ==
    ASSUME NEW m, Phys(m)
    PROVE  /\ IsFiniteSet(DOMAIN m.head) /\ \A p \in DOMAIN m.head : m.head[p].size \in Nat
           /\ Taken(m) \subseteq DOMAIN m.head /\ FreeOnes(m) \subseteq DOMAIN m.head
           /\ IsFiniteSet(Taken(m)) /\ IsFiniteSet(FreeOnes(m))
           /\ Total(m.head, Taken(m)) \in Nat /\ Total(m.head, FreeOnes(m)) \in Nat
<1>1. Layout(m.head, m.top)
  BY DEF Phys
<1>2. \A p \in DOMAIN m.head : p \in Base .. End /\ m.head[p].size \in Nat
  <2>1. SUFFICES ASSUME NEW p \in DOMAIN m.head
                 PROVE  p \in Base .. End /\ m.head[p].size \in Nat
    OBVIOUS
  <2>2. m.head[p].size \in Nat
    BY <1>1, ChunkOf
  <2>3. p \in Base .. End
    BY <1>1 DEF Layout
  <2> QED
    BY <2>2, <2>3
<1>3. IsFiniteSet(Base .. End)
  <2>1. Base \in Int /\ End \in Int
    BY AreaEnds
  <2> QED
    BY <2>1, FS_Interval
<1>4. IsFiniteSet(DOMAIN m.head)
  <2>1. DOMAIN m.head \subseteq Base .. End
    BY <1>2
  <2> QED
    BY <1>3, <2>1, FS_Subset
<1>5. Taken(m) \subseteq DOMAIN m.head /\ FreeOnes(m) \subseteq DOMAIN m.head
  BY DEF Taken, FreeOnes
<1>6. IsFiniteSet(Taken(m)) /\ IsFiniteSet(FreeOnes(m))
  BY <1>4, <1>5, FS_Subset
<1>7. Total(m.head, Taken(m)) \in Nat
  BY <1>2, <1>5, <1>6, TotalIs
<1>8. Total(m.head, FreeOnes(m)) \in Nat
  BY <1>2, <1>5, <1>6, TotalIs
<1> QED
  BY <1>2, <1>4, <1>5, <1>6, <1>7, <1>8

(* What is in use and what is free add up to that.                          *)
LEMMA ChunksAddUp ==
    ASSUME NEW m, Phys(m)
    PROVE  Total(m.head, Taken(m)) + Total(m.head, FreeOnes(m)) = m.top - Base
<1> DEFINE h == m.head
           U(q) == {p \in Taken(m) : p < q}
           F(q) == {p \in FreeOnes(m) : p < q}
           Bad == {q \in DOMAIN h : q <= m.top /\ Total(h, U(q)) + Total(h, F(q)) # q - Base}
<1>1. Layout(h, m.top)
  BY DEF Phys
<1>2. \A q \in DOMAIN h : q \in Nat /\ q >= Base /\ q <= End /\ h[q].size \in Nat
  BY <1>1, ChunkOf
<1>3. /\ {Base, End, m.top} \subseteq DOMAIN h /\ m.top # End
      /\ EndOf(h, m.top) = End /\ ChunkFits(h, m.top, m.top)
  BY <1>1 DEF Layout
<1>4. Base \in Nat /\ End \in Nat
  BY AreaEnds
<1>5. m.top \in Nat /\ m.top < End /\ Base <= m.top
  BY <1>2, <1>3, <1>4
<1>6. ASSUME NEW q
      PROVE  /\ IsFiniteSet(U(q)) /\ IsFiniteSet(F(q))
             /\ \A p \in U(q) : h[p].size \in Nat
             /\ \A p \in F(q) : h[p].size \in Nat
  <2>1. IsFiniteSet(Taken(m)) /\ IsFiniteSet(FreeOnes(m))
        /\ Taken(m) \subseteq DOMAIN h /\ FreeOnes(m) \subseteq DOMAIN h
    BY ChunksAreFinite
  <2>2. U(q) \subseteq Taken(m) /\ F(q) \subseteq FreeOnes(m)
    OBVIOUS
  <2>3. IsFiniteSet(U(q)) /\ IsFiniteSet(F(q))
    BY <2>1, <2>2, FS_Subset
  <2> QED
    BY <1>2, <2>1, <2>2, <2>3
<1>7. \A q : Total(h, U(q)) \in Nat /\ Total(h, F(q)) \in Nat
  <2>1. ASSUME NEW q PROVE Total(h, U(q)) \in Nat /\ Total(h, F(q)) \in Nat
    <3> DEFINE S == U(q)
               T == F(q)
    <3>1. IsFiniteSet(S) /\ IsFiniteSet(T)
          /\ (\A p \in S : h[p].size \in Nat) /\ \A p \in T : h[p].size \in Nat
      BY <1>6
    <3> HIDE DEF S, T
    <3>2. Total(h, S) \in Nat /\ Total(h, T) \in Nat
      BY <3>1, TotalIs
    <3> QED
      BY <3>2 DEF S, T
  <2> QED
    BY <2>1
<1>8. Bad = {}
  <2>1. SUFFICES ASSUME Bad # {} PROVE FALSE
    OBVIOUS
  <2>2. PICK q \in Bad : \A k \in Bad : q <= k
    <3>1. Bad \in SUBSET Nat
      BY <1>2
    <3> HIDE DEF Bad
    <3> QED
      BY <2>1, <3>1, LeastNat
  <2>3. q \in DOMAIN h /\ q <= m.top /\ Total(h, U(q)) + Total(h, F(q)) # q - Base
    OBVIOUS
  <2>4. q # Base
    <3>1. SUFFICES ASSUME q = Base PROVE FALSE
      OBVIOUS
    <3>2. U(q) = {} /\ F(q) = {}
      BY <1>2, <1>4, <3>1 DEF Taken, FreeOnes
    <3>3. Total(h, {}) = 0
      BY FS_EmptySet, TotalIs
    <3>4. Total(h, U(q)) = 0 /\ Total(h, F(q)) = 0
      BY <3>2, <3>3, Zenon
    <3> HIDE DEF U, F
    <3> QED
      BY <1>4, <2>3, <3>1, <3>4
  <2>5. PICK p \in DOMAIN h : p # End /\ p < q /\ EndOf(h, p) = q
    BY <1>1, <2>3, <2>4, ChunkBefore
  <2>6. ChunkFits(h, m.top, p) /\ p \in Nat /\ q \in Nat /\ h[p].size \in Nat
    BY <1>1, <1>2, <2>3, <2>5, ChunkOf
  <2>7. q = p + h[p].size
    BY <2>5 DEF EndOf
  <2>8. \A x \in DOMAIN h : x \in Nat /\ (x < q <=> x = p \/ x < p)
    <3>1. \A x \in DOMAIN h : x \in Nat /\ (x <= p \/ q <= x)
      BY <1>2, <2>5, <2>6 DEF ChunkFits
    <3> QED
      BY <2>5, <2>6, <3>1
  <2>9. p # m.top
    BY <1>3, <1>5, <2>3, <2>5, <2>6
  <2>10. p <= m.top
    BY <1>5, <2>3, <2>5, <2>6
  <2> DEFINE S == U(p)
             T == F(p)
             V == U(q)
             W == F(q)
  <2>11. Total(h, S) + Total(h, T) = p - Base
    <3>1. p \notin Bad
      <4> HIDE DEF Bad
      <4> QED
        BY <2>2, <2>5, <2>6
    <3> HIDE DEF U, F
    <3> QED
      BY <2>5, <2>10, <3>1
  <2>12. /\ IsFiniteSet(S) /\ IsFiniteSet(T)
         /\ (\A x \in S : h[x].size \in Nat) /\ (\A x \in T : h[x].size \in Nat)
    BY <1>6
  <2>13. p \notin S /\ p \notin T
    BY <2>6
  <2>14. Total(h, S) \in Nat /\ Total(h, T) \in Nat
    BY <1>7
  <2>15. CASE h[p].cinuse
    <3>1. V = S \cup {p} /\ W = T
      BY <2>5, <2>8, <2>15 DEF Taken, FreeOnes
    <3> HIDE DEF S, T, V, W
    <3>2. Total(h, S \cup {p}) = h[p].size + Total(h, S)
      BY <2>6, <2>12, <2>13, TotalAdds
    <3>3. Total(h, V) = h[p].size + Total(h, S) /\ Total(h, W) = Total(h, T)
      BY <3>1, <3>2, Zenon
    <3>4. Total(h, V) + Total(h, W) # q - Base
      BY <2>3 DEF V, W
    <3> QED
      BY <1>4, <2>6, <2>7, <2>11, <2>14, <3>3, <3>4
  <2>16. CASE ~h[p].cinuse
    <3>1. W = T \cup {p} /\ V = S
      BY <2>5, <2>8, <2>9, <2>16 DEF Taken, FreeOnes
    <3> HIDE DEF S, T, V, W
    <3>2. Total(h, T \cup {p}) = h[p].size + Total(h, T)
      BY <2>6, <2>12, <2>13, TotalAdds
    <3>3. Total(h, W) = h[p].size + Total(h, T) /\ Total(h, V) = Total(h, S)
      BY <3>1, <3>2, Zenon
    <3>4. Total(h, V) + Total(h, W) # q - Base
      BY <2>3 DEF V, W
    <3> QED
      BY <1>4, <2>6, <2>7, <2>11, <2>14, <3>3, <3>4
  <2> QED
    BY <2>15, <2>16
<1>9. Total(h, U(m.top)) + Total(h, F(m.top)) = m.top - Base
  <2> HIDE DEF U, F
  <2> QED
    BY <1>3, <1>5, <1>8
<1>10. U(m.top) = Taken(m) /\ F(m.top) = FreeOnes(m)
  <2>1. \A x \in DOMAIN h : x <= m.top \/ End <= x
    BY <1>3 DEF ChunkFits
  <2>2. ~h[m.top].cinuse /\ ~h[End].cinuse
    BY <1>1 DEF Layout
  <2>3. \A x \in DOMAIN h : x # m.top /\ x # End => x < m.top
    BY <1>2, <1>4, <1>5, <2>1
  <2> QED
    BY <2>2, <2>3 DEF Taken, FreeOnes
<1> QED
  BY <1>9, <1>10, Zenon

(* What the heap was charged, and a word for each block, and the mspace     *)
(* itself, are what the chunks in use hold.                                 *)
UsedFits(m, sum, blocks) ==
    /\ IsFiniteSet(DOMAIN blocks) /\ sum \in Int
    /\ Total(m.head, Taken(m)) = sum + 8 * Cardinality(DOMAIN blocks) + 944

(* That is so at first, ...                                                 *)
LEMMA NewUsed ==
    UsedFits(NewMspace, 0, NoBlocks)
<1> DEFINE h == NewMspace.head
<1>1. Taken(NewMspace) = {Base} /\ h[Base].size = 944 /\ DOMAIN NoBlocks = {}
  BY NewIsSound DEF NoBlocks
<1>2. IsFiniteSet({}) /\ Cardinality({}) = 0
  BY FS_EmptySet
<1> HIDE DEF h
<1>3. Total(h, {} \cup {Base}) = h[Base].size + Total(h, {})
  <2>1. h[Base].size \in Nat
    BY <1>1, SMT
  <2>2. Base \notin {} /\ \A x \in {} : h[x].size \in Nat
    OBVIOUS
  <2> QED
    BY <1>2, <2>1, <2>2, TotalAdds
<1>4. Total(h, {}) = 0
  BY <1>2, TotalIs
<1>5. Taken(NewMspace) = {} \cup {Base}
  BY <1>1
<1>6. Total(h, Taken(NewMspace)) = 944
  BY <1>1, <1>3, <1>4, <1>5
<1>7. Total(h, Taken(NewMspace)) = 0 + 8 * Cardinality({}) + 944
  BY <1>2, <1>6
<1> QED
  BY <1>1, <1>2, <1>7 DEF UsedFits, h

(* ... and a block that is given ...                                        *)
LEMMA GivenUsed ==
    ASSUME HeapFits(ms, held), HeapFits(ms', held'), UsedFits(ms, used, held),
           NEW r \in Requests, NEW p, NEW l, Served(r, p, l)
    PROVE  UsedFits(ms', used', held')
<1> DEFINE b == chunk2mem(p)
           w == ms'
           more == held'
           sum == used'
           h == ms.head
           g == w.head
           s == l.head[p].size
<1>1. /\ Gets(ms, l, p) /\ w = Tagged(l, b, r) /\ more = Put(held, b, r)
      /\ sum = used + mspace_usable_size(l, b)
  BY DEF Served
<1>2. HeapFits(w, more)
  OBVIOUS
<1> HIDE DEF w, more, sum
<1>3. /\ Sound(l) /\ p \in Taken(l) /\ p \notin Taken(ms) /\ Keeps(ms, l, Taken(ms))
      /\ Taken(l) = Taken(ms) \cup {p}
  BY <1>1 DEF Gets
<1>4. w.head = l.head /\ Taken(w) = Taken(l)
  <2>1. TagSet(l, w, p, r)
    BY <1>1, <1>3, TagIsSet
  <2> QED
    BY <2>1, Zenon DEF TagSet
<1>5. mspace_usable_size(l, b) = s - 8 /\ s \in Nat
  BY <1>3, UsableSize, TakenIs
<1>6. mem2chunk(b) = p
  <2>1. p \in Nat
    BY <1>3, TakenIs
  <2> QED
    BY <2>1, MemoryOf
<1>7. DOMAIN more = DOMAIN held \cup {b}
  BY <1>1 DEF Put
<1>8. b \notin DOMAIN held
  <2>1. \A c \in DOMAIN held : mem2chunk(c) \in Taken(ms)
    BY BlockIs
  <2> QED
    BY <1>3, <1>6, <2>1
<1>9. /\ IsFiniteSet(DOMAIN held) /\ used \in Int
      /\ Total(h, Taken(ms)) = used + 8 * Cardinality(DOMAIN held) + 944
  BY DEF UsedFits
<1>10. /\ IsFiniteSet(DOMAIN more) /\ Cardinality(DOMAIN more) = Cardinality(DOMAIN held) + 1
       /\ Cardinality(DOMAIN held) \in Nat
  BY <1>7, <1>8, <1>9, FS_AddElement, FS_CardinalityType
<1>11. IsFiniteSet(Taken(ms)) /\ \A x \in Taken(ms) : h[x].size \in Nat /\ g[x].size = h[x].size
  <2>1. Phys(ms)
    BY DEF HeapFits, Sound
  <2>2. IsFiniteSet(Taken(ms)) /\ \A x \in Taken(ms) : h[x].size \in Nat
    BY <2>1, ChunksAreFinite
  <2>3. \A x \in Taken(ms) : g[x].size = h[x].size
    BY <1>3, <1>4, Zenon DEF Keeps
  <2> QED
    BY <2>2, <2>3
<1>12. g[p].size = s
  BY <1>4, Zenon
<1>13. Taken(w) = Taken(ms) \cup {p}
  BY <1>3, <1>4
<1> HIDE DEF g, h, s, b
<1>14. Total(g, Taken(ms)) = Total(h, Taken(ms))
  BY <1>11, TotalStays
<1>15. Total(g, Taken(ms) \cup {p}) = g[p].size + Total(g, Taken(ms))
  <2>1. \A x \in Taken(ms) : g[x].size \in Nat
    BY <1>11
  <2>2. g[p].size \in Nat
    BY <1>5, <1>12
  <2> QED
    BY <1>3, <1>11, <2>1, <2>2, TotalAdds
<1>16. Total(g, Taken(w)) = s + Total(h, Taken(ms))
  BY <1>12, <1>13, <1>14, <1>15, Zenon
<1>17. sum = used + (s - 8)
  BY <1>1, <1>5
<1> DEFINE n == Cardinality(DOMAIN held)
           k == Cardinality(DOMAIN more)
           t == Total(h, Taken(ms))
           u == Total(g, Taken(w))
<1>18. /\ t = used + 8 * n + 944 /\ u = s + t /\ k = n + 1 /\ n \in Nat /\ used \in Int
       /\ s \in Nat
  BY <1>5, <1>9, <1>10, <1>16
<1> HIDE DEF n, k, t, u
<1>19. u = sum + 8 * k + 944 /\ sum \in Int
  BY <1>17, <1>18, SMT
<1>20. UsedFits(w, sum, more)
  BY <1>10, <1>19 DEF UsedFits, u, k, g
<1> QED
  BY <1>20 DEF w, sum, more

(* ... and one that is freed keep it so.                                    *)
LEMMA FreedUsed ==
    ASSUME HeapFits(ms, held), UsedFits(ms, used, held), NEW b \in DOMAIN held, Free(b),
           Freed(ms, ms', mem2chunk(b))
    PROVE  UsedFits(ms', used', held')
<1> DEFINE p == mem2chunk(b)
           w == ms'
           less == held'
           sum == used'
           h == ms.head
           g == w.head
           s == h[p].size
<1>1. /\ Freed(ms, w, p) /\ less = Restrict(held, DOMAIN held \ {b})
      /\ sum = used - mspace_usable_size(ms, b)
  BY DEF Free
<1> HIDE DEF w, less, sum
<1>2. p \in Taken(ms) /\ mspace_usable_size(ms, b) = s - 8
  BY BlockIs
<1>3. Taken(w) = Taken(ms) \ {p} /\ Keeps(ms, w, Taken(w))
  BY <1>1 DEF Freed
<1>4. IsFiniteSet(Taken(ms)) /\ \A x \in Taken(ms) : h[x].size \in Nat
  <2>1. Phys(ms)
    BY DEF HeapFits, Sound
  <2> QED
    BY <2>1, ChunksAreFinite
<1>5. \A x \in Taken(w) : g[x].size = h[x].size
  BY <1>3, Zenon DEF Keeps
<1>6. DOMAIN less = DOMAIN held \ {b}
  BY <1>1 DEF Restrict
<1>7. /\ IsFiniteSet(DOMAIN held) /\ used \in Int
      /\ Total(h, Taken(ms)) = used + 8 * Cardinality(DOMAIN held) + 944
  BY DEF UsedFits
<1>8. /\ IsFiniteSet(DOMAIN less) /\ Cardinality(DOMAIN less) = Cardinality(DOMAIN held) - 1
      /\ Cardinality(DOMAIN held) \in Nat
  BY <1>6, <1>7, FS_RemoveElement, FS_CardinalityType
<1> HIDE DEF p, g, h
<1>9. IsFiniteSet(Taken(w)) /\ p \notin Taken(w) /\ \A x \in Taken(w) : h[x].size \in Nat
  <2>1. Taken(w) \subseteq Taken(ms)
    BY <1>3
  <2>2. IsFiniteSet(Taken(w))
    BY <1>4, <2>1, FS_Subset
  <2> QED
    BY <1>3, <1>4, <2>1, <2>2
<1>10. Total(g, Taken(w)) = Total(h, Taken(w))
  BY <1>5, <1>9, TotalStays
<1>11. Total(h, Taken(w) \cup {p}) = h[p].size + Total(h, Taken(w))
  BY <1>2, <1>4, <1>9, TotalAdds
<1>12. Taken(w) \cup {p} = Taken(ms)
  BY <1>2, <1>3
<1>13. Total(h, Taken(ms)) = s + Total(g, Taken(w))
  BY <1>10, <1>11, <1>12, Zenon
<1>14. s \in Nat /\ Total(g, Taken(w)) \in Nat
  <2>1. Total(h, Taken(w)) \in Nat
    BY <1>9, TotalIs
  <2> QED
    BY <1>2, <1>4, <1>10, <2>1
<1>15. sum = used - (s - 8)
  BY <1>1, <1>2
<1> HIDE DEF s
<1> DEFINE n == Cardinality(DOMAIN held)
           k == Cardinality(DOMAIN less)
           t == Total(h, Taken(ms))
           u == Total(g, Taken(w))
<1>16. /\ t = used + 8 * n + 944 /\ t = s + u /\ k = n - 1 /\ n \in Nat /\ used \in Int
       /\ s \in Nat /\ u \in Nat
  BY <1>7, <1>8, <1>13, <1>14
<1> HIDE DEF n, k, t, u
<1>17. u = sum + 8 * k + 944 /\ sum \in Int
  BY <1>15, <1>16, SMT
<1>18. UsedFits(w, sum, less)
  BY <1>8, <1>17 DEF UsedFits, u, k, g
<1> QED
  BY <1>18 DEF w, sum, less

(* The two counts agree where that is so.                                   *)
LEMMA CountsAgree ==
    ASSUME Phys(ms), Limited(ms), UsedFits(ms, used, held)
    PROVE  UsedBytesAgree
<1> DEFINE h == ms.head
           f == Total(h, FreeOnes(ms))
           t == Total(h, Taken(ms))
           n == Cardinality(DOMAIN held)
           d == mspace_mallinfo(ms).uordblks
<1>1. FreeChunks(ms) = FreeOnes(ms)
  BY WalkedChunks
<1>2. d = ms.footprint - (ms.topsize + TOP_FOOT_SIZE + f)
  BY <1>1 DEF mspace_mallinfo, Total, ChunkSize
<1>3. /\ t + f = ms.top - Base /\ t \in Nat /\ f \in Nat
  BY ChunksAddUp, ChunksAreFinite
<1>4. ms.footprint = MaxSize
  BY DEF Limited
<1>5. /\ ms.top \in Nat /\ ms.topsize \in Nat /\ ms.top + ms.topsize = End
  <2>1. Layout(h, ms.top) /\ ms.topsize = h[ms.top].size
    BY DEF Phys
  <2>2. ms.top \in DOMAIN h /\ EndOf(h, ms.top) = End
    BY <2>1 DEF Layout
  <2>3. ms.top \in Nat /\ h[ms.top].size \in Nat
    BY <2>1, <2>2, ChunkOf
  <2> QED
    BY <2>1, <2>2, <2>3 DEF EndOf
<1>6. End + 80 = Base + MaxSize /\ Base \in Nat /\ End \in Nat /\ MaxSize \in Nat
  BY AreaEnds
<1>7. TOP_FOOT_SIZE = 80 /\ CHUNK_OVERHEAD = 8 /\ pad_request(STATE_SIZE) = 944
  BY SMT DEF TOP_FOOT_SIZE, SEGMENT_SIZE, MIN_CHUNK_SIZE, CHUNK_OVERHEAD, pad_request,
             STATE_SIZE, AlignUp, MALLOC_ALIGNMENT, SIZE_T_SIZE
<1>8. t = used + 8 * n + 944 /\ n \in Nat /\ used \in Int
  BY FS_CardinalityType DEF UsedFits
<1> HIDE DEF d, f, t, n
<1>9. d = t
  BY <1>2, <1>3, <1>4, <1>5, <1>6, <1>7, SMT
<1>10. d = used + 8 * n + 944
  BY <1>8, <1>9
<1> QED
  BY <1>7, <1>10 DEF UsedBytesAgree, d, n

UsedIsFit == UsedFits(ms, used, held)

(* What the heap was charged stays what its blocks hold.                    *)
LEMMA StepsCount ==
    ASSUME AreaIsBounded
    PROVE  /\ Init => UsedIsFit
           /\ HeapIsFit /\ HeapIsFit' /\ UsedIsFit /\ Limited(ms) /\ [Next]_vars => UsedIsFit'
<1>1. Init => UsedIsFit
  BY NewUsed DEF Init, UsedIsFit
<1>2. ASSUME HeapIsFit, HeapIsFit', UsedIsFit, Limited(ms), [Next]_vars PROVE UsedIsFit'
  <2>1. HeapFits(ms, held) /\ HeapFits(ms', held') /\ UsedFits(ms, used, held) /\ Sound(ms)
    BY <1>2 DEF HeapIsFit, UsedIsFit, HeapFits
  <2> SUFFICES UsedFits(ms', used', held')
    BY DEF UsedIsFit
  <2>2. ASSUME NEW r \in Requests, NEW sys \in Answers, Allocate(r, sys)
        PROVE  UsedFits(ms', used', held')
    <3> DEFINE d == IF r.align <= 16 THEN 1 ELSE PowerOfTwo(r.align)
    <3>1. (r.align <= 16 => d \in {1, 2, 4, 8, 16}) /\ (~(r.align <= 16) => d = PowerOfTwo(r.align))
      OBVIOUS
    <3> HIDE DEF d
    <3>2. \/ UNCHANGED vars
          \/ \E p, l : /\ Served(r, p, l) /\ chunk2mem(p) % d = 0
                       /\ l.head[p].size <= request2size(Bytes(r)) + 32
      BY <1>2, <2>1, <2>2, <3>1, AllocateEnds
    <3>3. ASSUME NEW p, NEW l, Served(r, p, l) PROVE UsedFits(ms', used', held')
      BY <2>1, <3>3, GivenUsed
    <3>4. CASE UNCHANGED vars
      BY <2>1, <3>4 DEF vars
    <3> QED
      BY <3>2, <3>3, <3>4
  <2>3. ASSUME NEW b \in DOMAIN held, Free(b) PROVE UsedFits(ms', used', held')
    <3>1. Freed(ms, ms', mem2chunk(b))
      BY <1>2, <2>1, <2>3, FreeFits
    <3> QED
      BY <2>1, <2>3, <3>1, FreedUsed
  <2>4. CASE Clear
    BY <2>4, NewUsed DEF Clear
  <2>5. CASE UNCHANGED vars
    BY <2>1, <2>5 DEF vars
  <2> QED
    BY <1>2, <2>2, <2>3, <2>4, <2>5 DEF Next
<1> QED
  BY <1>1, <1>2

(* The two answers of GetUsedBytes agree in every state: what the mspace    *)
(* counts as used when it walks its chunks is what the heap charged for its *)
(* blocks, a word for each, and the mspace's own state (Heap.cpp:23).       *)
THEOREM CountsStayEqual ==
    ASSUME AreaIsBounded
    PROVE  Spec => []UsedBytesAgree
<1>1. Init => UsedIsFit
  BY StepsCount
<1>2. HeapIsFit /\ HeapIsFit' /\ UsedIsFit /\ Limited(ms) /\ [Next]_vars => UsedIsFit'
  BY StepsCount
<1>3. HeapIsFit /\ Limited(ms) /\ UsedIsFit => UsedBytesAgree
  <2>1. SUFFICES ASSUME HeapIsFit, Limited(ms), UsedIsFit PROVE UsedBytesAgree
    OBVIOUS
  <2>2. Phys(ms) /\ UsedFits(ms, used, held)
    BY <2>1 DEF HeapIsFit, UsedIsFit, HeapFits, Sound
  <2> QED
    BY <2>1, <2>2, CountsAgree
<1>4. Spec => [](HeapIsFit /\ Limited(ms))
  BY HeapStaysFit
<1> QED
  BY <1>1, <1>2, <1>3, <1>4, PTL DEF Spec
=============================================================================
