---------------------------- MODULE MspaceSystem ----------------------------
(* Where an mspace gets memory from and gives it back to: top, and behind   *)
(* it the system, within the footprint limit. How the system answers is an  *)
(* input of the operators.                                                  *)
EXTENDS MspaceState, SequencesExt

(* What a call returns: the state, and the memory or NULL.                  *)
Result(m, p) == [m |-> m, mem |-> IF p = NULL THEN NULL ELSE chunk2mem(p)]

OverLimit(m, size) ==
    m.footprint_limit # 0 /\ m.footprint + size > m.footprint_limit

Lowered(m, addr) == IF addr < m.least_addr THEN addr ELSE m.least_addr

TopHolds(m, nb) == nb < m.topsize

SplitTop(m, nb, otherwise) ==
    IF TopHolds(m, nb)
    THEN LET rest == SetHead(m, m.top + nb, m.topsize - nb, TRUE, FALSE)
             used == set_size_and_pinuse_of_inuse_chunk(rest, m.top, nb)
         IN  Result([used EXCEPT !.top = @ + nb, !.topsize = @ - nb], m.top)
    ELSE otherwise

(* A chunk mapped for itself: neither bit of its head is set.               *)
mmap_alloc_size(nb) == granularity_align(nb + 6 * SIZE_T_SIZE + MALLOC_ALIGNMENT - 1)

MMAP_FOOT_PAD == 4 * SIZE_T_SIZE

mmap_alloc(m, nb, place) ==
    LET mmsize == mmap_alloc_size(nb)
        psize  == mmsize - MMAP_FOOT_PAD
        end    == place + psize
        chunk  == SetHead(m, place, psize, FALSE, FALSE)
        fenced == SetHead(SetHead(chunk, end + SIZE_T_SIZE, 0, FALSE, FALSE),
                          end, SIZE_T_SIZE, TRUE, TRUE)
    IN  Result([fenced EXCEPT !.foot = Put(@, place, 0),
                              !.footprint = @ + mmsize,
                              !.least_addr = Lowered(m, place)], place)

SegmentHolding(m, addr) ==
    CHOOSE k \in DOMAIN m.segs :
        addr \in m.segs[k].base .. m.segs[k].base + m.segs[k].size - 1

(* New memory in front of a segment: the request is cut off its start, the  *)
(* rest joins the segment's first chunk.                                    *)
prepend_alloc(m, newbase, oldbase, nb) ==
    LET q     == newbase + nb
        qsize == oldbase - q
        used  == set_size_and_pinuse_of_inuse_chunk(m, newbase, nb)
        nsize == ChunkSize(used, oldbase)
        whole == qsize + nsize
    IN  Result(
          IF oldbase = m.top
          THEN [SetHead(used, q, qsize + m.topsize, TRUE, FALSE) EXCEPT
                  !.top = q, !.topsize = @ + qsize]
          ELSE IF oldbase = m.dv
          THEN [set_size_and_pinuse_of_free_chunk(used, q, qsize + m.dvsize)
                  EXCEPT !.dv = q, !.dvsize = @ + qsize]
          ELSE IF ~is_inuse(m, oldbase)
          THEN insert_chunk(set_free_with_pinuse(
                              unlink_chunk(used, oldbase, nsize),
                              q, whole, q + whole), q, whole)
          ELSE insert_chunk(set_free_with_pinuse(used, q, qsize, oldbase),
                            q, qsize), newbase)

(* New memory elsewhere: it becomes top. The end of the old top keeps the   *)
(* record of its segment, as a chunk in use, and fenceposts behind it; what *)
(* is left of the old top goes into a bin.                                  *)
add_segment(m, tbase, tsize) ==
    LET old_top == m.top
        oldsp   == m.segs[SegmentHolding(m, old_top)]
        old_end == oldsp.base + oldsp.size
        ssize   == pad_request(SEGMENT_SIZE)
        asp     == AlignUp(old_end - (ssize + 4 * SIZE_T_SIZE
                                        + MALLOC_ALIGNMENT - 1),
                           MALLOC_ALIGNMENT)
        csp     == IF asp < old_top + MIN_CHUNK_SIZE THEN old_top ELSE asp
        posts   == {a \in csp + ssize .. old_end - 2 * SIZE_T_SIZE :
                      (a - csp - ssize) % SIZE_T_SIZE = 0}
        moved   == init_top(m, tbase, tsize - TOP_FOOT_SIZE)
        pushed  == [moved EXCEPT !.segs =
                      <<[base |-> tbase, size |-> tsize, extern |-> FALSE,
                         record |-> Head(@).record],
                        [Head(@) EXCEPT !.record = chunk2mem(csp)]>> \o Tail(@)]
        record  == set_size_and_pinuse_of_inuse_chunk(pushed, csp, ssize)
        bare    == Forget(record, csp + ssize, old_end)
        fenced  == [bare EXCEPT !.head = [a \in posts |->
                      [size |-> SIZE_T_SIZE, pinuse |-> TRUE, cinuse |-> TRUE]]
                        @@ @]
    IN  IF csp = old_top THEN fenced
        ELSE insert_chunk(set_free_with_pinuse(fenced, old_top, csp - old_top,
                                               csp), old_top, csp - old_top)
-----------------------------------------------------------------------------
(* The system: where the next mapping of a large chunk and of a segment     *)
(* would land, or NULL where it refuses.                                    *)
Refusing == [direct |-> NULL, segment |-> NULL]

SYS_ALLOC_PADDING == TOP_FOOT_SIZE + MALLOC_ALIGNMENT

(* tsize new bytes at tbase extend the segment they follow, if that holds   *)
(* top, or the one they precede, or become a segment. The engine's own area *)
(* is never extended.                                                       *)
grow(m, nb, tbase, tsize) ==
    LET more == [m EXCEPT !.footprint = @ + tsize]
        Ours(k) == ~m.segs[k].extern
        before == {k \in DOMAIN m.segs :
                     Ours(k) /\ m.segs[k].base + m.segs[k].size = tbase
                       /\ k = SegmentHolding(m, m.top)}
        behind == {k \in DOMAIN m.segs :
                     Ours(k) /\ m.segs[k].base = tbase + tsize}
        lower == [more EXCEPT !.least_addr = Lowered(m, tbase)]
    IN  IF before # {}
        THEN LET k == CHOOSE k \in before : TRUE IN
             SplitTop(init_top([more EXCEPT !.segs[k].size = @ + tsize],
                               m.top, m.topsize + tsize), nb, Result(m, NULL))
        ELSE IF behind # {}
        THEN LET k == CHOOSE k \in behind : TRUE IN
             prepend_alloc([lower EXCEPT !.segs[k].base = tbase,
                                         !.segs[k].size = @ + tsize],
                           tbase, m.segs[k].base, nb)
        ELSE SplitTop(add_segment(lower, tbase, tsize), nb, Result(m, NULL))

sys_alloc(m, nb, sys) ==
    LET asize == granularity_align(nb + SYS_ALLOC_PADDING) IN
    IF /\ nb >= MmapThreshold /\ m.topsize # 0 /\ sys.direct # NULL
       /\ ~OverLimit(m, mmap_alloc_size(nb))
    THEN mmap_alloc(m, nb, sys.direct)
    ELSE IF OverLimit(m, asize) \/ sys.segment = NULL THEN Result(m, NULL)
    ELSE grow(m, nb, sys.segment, asize)
-----------------------------------------------------------------------------
\* Slip: the room of the record counts as in use.
Fills_ToTheEnd(m, p, seg) == p + ChunkSize(m, p) >= seg.base + seg.size

Fills(m, p, seg) == p + ChunkSize(m, p) >= seg.base + seg.size - TOP_FOOT_SIZE

(* Memory goes back to the system where the system takes it: a segment but  *)
(* the first when one free chunk fills it ...                               *)
release_segment(m, seg, unmaps) ==
    LET p     == seg.base
        psize == ChunkSize(m, p)
        out   == IF p = m.dv THEN [m EXCEPT !.dv = NULL, !.dvsize = 0]
                 ELSE unlink_large_chunk(m, p)
    IN  IF seg.extern \/ is_inuse(m, p) \/ ~Fills(m, p, seg) THEN m
        ELSE IF ~unmaps THEN insert_large_chunk(out, p, psize)
        ELSE [Forget(out, seg.base, seg.base + seg.size) EXCEPT
                !.footprint = @ - seg.size,
                !.segs = SelectSeq(@, LAMBDA s : s # seg)]

NextCheck(nsegs) == IF nsegs > ReleaseRate THEN nsegs ELSE ReleaseRate

release_unused_segments(m, unmaps) ==
    LET nsegs == Len(m.segs) - 1
        after == FoldLeft(LAMBDA n, seg : release_segment(n, seg, unmaps),
                          m, Tail(m.segs))
    IN  [after EXCEPT !.release_checks = NextCheck(nsegs)]

has_segment_link(m, seg) ==
    \E k \in DOMAIN m.segs :
        m.segs[k].record \in seg.base .. seg.base + seg.size - 1

(* ... and the end of top, all but pad bytes. A try that gave nothing back  *)
(* is the last one until top is set anew.                                   *)
shrink_top(m, pad, unmaps) ==
    LET extra == ((m.topsize - pad + Granularity - 1) \div Granularity - 1)
                   * Granularity
        k     == SegmentHolding(m, m.top)
        seg   == m.segs[k]
    IN  IF /\ m.topsize > pad /\ ~seg.extern /\ seg.size >= extra /\ extra > 0
           /\ ~has_segment_link(m, seg) /\ unmaps
        THEN init_top([Forget(m, seg.base + seg.size - extra,
                              seg.base + seg.size) EXCEPT
                         !.segs[k].size = @ - extra, !.footprint = @ - extra],
                      m.top, m.topsize - extra)
        ELSE m

Trimmed(m, after) ==
    IF after.footprint = m.footprint /\ after.topsize > after.trim_check
    THEN [after EXCEPT !.trim_check = MAX_SIZE_T]
    ELSE after

sys_trim(m, pad, unmaps) ==
    Trimmed(m, release_unused_segments(
                 shrink_top(m, pad + TOP_FOOT_SIZE, unmaps), unmaps))

should_trim(m) == m.topsize > m.trim_check
-----------------------------------------------------------------------------
\* Slip: it counts as unmapped in any case.
Unmapped_Always(m, start, size, unmaps) ==
    IF unmaps THEN [Forget(m, start, start + size) EXCEPT !.footprint = @ - size]
    ELSE [m EXCEPT !.footprint = @ - size]

Unmapped(m, start, size, unmaps) ==
    IF unmaps THEN [Forget(m, start, start + size) EXCEPT !.footprint = @ - size]
    ELSE m

(* A chunk mapped for itself is unmapped, with what precedes it. When that  *)
(* fails it is lost.                                                        *)
unmap_chunk(m, p, unmaps) ==
    Unmapped(m, p - m.foot[p], ChunkSize(m, p) + m.foot[p] + MMAP_FOOT_PAD, unmaps)
=============================================================================
