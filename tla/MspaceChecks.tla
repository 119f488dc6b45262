---------------------------- MODULE MspaceChecks ----------------------------
(* What is true of a sound mspace between two calls: what the debugging     *)
(* support of malloc.c asserts (do_check_malloc_state), and what its        *)
(* comments promise.                                                        *)
EXTENDS Mspace

(* The chunks of a segment, from its start on: up to top in the segment     *)
(* that has it, and up to the fenceposts in the others.                     *)
IsFencepost(m, q) == ChunkSize(m, q) = SIZE_T_SIZE

SegmentEnd(seg) == seg.base + seg.size

WalkedFrom(m, seg) ==
    LET walk[q \in Int] ==
          IF q = m.top \/ q >= SegmentEnd(seg) \/ q \notin DOMAIN m.head
          THEN {}
          ELSE IF IsFencepost(m, q) THEN {}
          ELSE {q} \cup walk[next_chunk(m, q)]
    IN  walk[seg.base]

Walked(m) == UNION {WalkedFrom(m, m.segs[k]) : k \in DOMAIN m.segs}

FreeChunks(m) == {q \in Walked(m) : ~is_inuse(m, q)}

(* internal_mallinfo, as far as the Heap reads it.                          *)
mspace_mallinfo(m) ==
    LET sizes(chunks) == MapThenSumSet(LAMBDA q : ChunkSize(m, q), chunks)
        mfree == m.topsize + TOP_FOOT_SIZE + sizes(FreeChunks(m))
    IN  [arena    |-> m.topsize + TOP_FOOT_SIZE + sizes(Walked(m)),
         uordblks |-> m.footprint - mfree,
         fordblks |-> mfree]

(* The chunk that mspace_memalign needs at first.                           *)
ChunkFor(align, bytes) ==
    IF align <= MALLOC_ALIGNMENT THEN request2size(bytes)
    ELSE request2size(PaddedRequest(PowerOfTwo(align), bytes))

(* Two free neighbours would have been merged, and what a chunk says of the *)
(* one before it is so: that is all a later free goes by.                   *)
NeighboursAgree(m, q) ==
    LET n == next_chunk(m, q)
    IN  /\ chunk2mem(q) % MALLOC_ALIGNMENT = 0
        /\ ChunkSize(m, q) % MALLOC_ALIGNMENT = 0
        /\ ChunkSize(m, q) >= MIN_CHUNK_SIZE
        /\ n \in DOMAIN m.head
        /\ pinuse(m, n) = cinuse(m, q)
        /\ ~cinuse(m, q) => pinuse(m, q) /\ cinuse(m, n) /\ m.foot[n] = ChunkSize(m, q)

TopEndsItsSegment(m) ==
    LET seg == Head(m.segs)
    IN  /\ m.top \in seg.base .. SegmentEnd(seg) - 1
        /\ m.top = seg.base \/ \E q \in WalkedFrom(m, seg) : next_chunk(m, q) = m.top
        /\ m.topsize = ChunkSize(m, m.top) /\ m.topsize > 0
        /\ m.top + m.topsize + TOP_FOOT_SIZE = SegmentEnd(seg)
        /\ pinuse(m, m.top) /\ ~cinuse(m, m.top)

TagsAgree(m) ==
    /\ TopEndsItsSegment(m)
    /\ \A q \in Walked(m) : NeighboursAgree(m, q)

(* Where the free chunks are.                                               *)
SmallBinned(m) == UNION {Range(m.smallbin[i]) : i \in m.smallmap}

EveryFreeChunkIsBinned(m) ==
    /\ FreeChunks(m) = SmallBinned(m) \cup DOMAIN m.node
                          \cup (IF m.dvsize = 0 THEN {} ELSE {m.dv})
    /\ SmallBinned(m) \cap DOMAIN m.node = {}
    /\ m.dv \notin SmallBinned(m) \cup DOMAIN m.node
    /\ IF m.dvsize = 0 THEN m.dv = NULL ELSE m.dvsize = ChunkSize(m, m.dv)
    /\ \A i \in m.smallmap :
          /\ m.smallbin[i] # <<>> /\ IsInjective(m.smallbin[i])
          /\ \A p \in Range(m.smallbin[i]) : small_index2size(i) = ChunkSize(m, p)
    /\ \A p \in DOMAIN m.node : ~is_small(ChunkSize(m, p)) /\ tree_find(m, p)
    /\ \A i \in DOMAIN m.treebin : i \in m.treemap <=> m.treebin[i] # NULL
=============================================================================
