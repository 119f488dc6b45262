------------------------------- MODULE Mspace -------------------------------
(* The calls of an mspace that Heap makes: mspace_memalign, which is        *)
(* mspace_malloc for the alignment every chunk has, mspace_free and         *)
(* mspace_usable_size.                                                      *)
EXTENDS MspaceSystem

MergesBack(m, p) == ~pinuse(m, p)

(* The free chunk q up to n, which is dv or in no bin, joins what is behind *)
(* it, and is binned unless it is top or dv now. into tells which.          *)
MergeForward(m, q, n, isDv) ==
    LET AsDv(after, s) == [m |-> [after EXCEPT !.dv = q, !.dvsize = s],
                           into |-> "dv", size |-> s]
        DvOrBin(after, s) ==
            IF isDv THEN AsDv(after, s)
            ELSE [m |-> insert_chunk(after, q, s), into |-> "bin", size |-> s]
    IN  IF cinuse(m, n)
        THEN [m |-> insert_chunk(set_free_with_pinuse(m, q, n - q, n), q, n - q),
              into |-> "bin", size |-> n - q]
        ELSE IF n = m.top
        THEN [m |-> [SetHead(m, q, n - q + m.topsize, TRUE, FALSE) EXCEPT
                       !.top = q, !.topsize = @ + n - q,
                       !.dv = IF isDv THEN NULL ELSE @,
                       !.dvsize = IF isDv THEN 0 ELSE @],
              into |-> "top", size |-> n - q + m.topsize]
        ELSE IF n = m.dv
        THEN AsDv(set_size_and_pinuse_of_free_chunk(m, q, n - q + m.dvsize),
                  n - q + m.dvsize)
        ELSE DvOrBin(set_size_and_pinuse_of_free_chunk(
                       unlink_chunk(m, n, ChunkSize(m, n)), q,
                       n - q + ChunkSize(m, n)), n - q + ChunkSize(m, n))

(* A chunk that is given up is merged with the free chunks around it. The   *)
(* result joins top, or becomes dv where dv was one of them, or is binned.  *)
Consolidate(m, p, psize) ==
    LET n == p + psize
        q == IF MergesBack(m, p) THEN p - m.foot[p] ELSE p
    IN  IF q # m.dv
        THEN MergeForward(IF q = p THEN m ELSE unlink_chunk(m, q, p - q),
                          q, n, FALSE)
        ELSE IF cinuse(m, n) /\ pinuse(m, n)
        THEN [m |-> [set_free_with_pinuse(m, q, n - q, n) EXCEPT !.dvsize = n - q],
              into |-> "dv", size |-> n - q]
        ELSE MergeForward(m, q, n, TRUE)

dispose_chunk(m, p, psize) == Consolidate(m, p, psize).m

(* Freeing into a large top asks whether memory can go back to the system,  *)
(* and so does every so many-th large chunk that is binned.                 *)
AfterFree(done, unmaps) ==
    LET less == [done.m EXCEPT !.release_checks = @ - 1]
    IN  IF done.into = "top" /\ should_trim(done.m)
        THEN sys_trim(done.m, 0, unmaps)
        ELSE IF done.into = "bin" /\ ~is_small(done.size)
        THEN IF less.release_checks = 0
             THEN release_unused_segments(less, unmaps)
             ELSE less
        ELSE done.m

mspace_free(m, mem, unmaps) ==
    LET p == mem2chunk(mem)
    IN  IF mem = NULL THEN m
        ELSE IF is_mmapped(m, p) THEN unmap_chunk(m, p, unmaps)
        ELSE AfterFree(Consolidate(m, p, ChunkSize(m, p)), unmaps)
-----------------------------------------------------------------------------
(* nb bytes are cut off the start of free chunk p, which is in no bin any   *)
(* more. What is left stays with it when it is too small for a chunk; else  *)
(* it is free, as the new dv or in a bin.                                   *)
Carve(m, p, nb, asDv) ==
    LET rsize == ChunkSize(m, p) - nb
        rest  == set_size_and_pinuse_of_free_chunk(m, p + nb, rsize)
        split == set_size_and_pinuse_of_inuse_chunk(rest, p, nb)
    IN  Result(IF rsize < MIN_CHUNK_SIZE
               THEN set_inuse_and_pinuse(m, p, rsize + nb)
               ELSE IF asDv THEN replace_dv(split, p + nb, rsize)
               ELSE insert_chunk(split, p + nb, rsize), p)

Take(m, p) == unlink_chunk(m, p, ChunkSize(m, p))

FirstOfSmallbin(m, i) == Head(m.smallbin[i])

tmalloc_small(m, nb, v) == Carve(Take(m, v), v, nb, TRUE)

\* Slip: a signed difference, by which a dv that is too small is a fit.
BetterThanDv_Signed(m, v, nb) == v # NULL /\ ChunkSize(m, v) < m.dvsize

(* dv is left alone where it is the better fit; a dv that is too small is   *)
(* no fit at all.                                                           *)
BetterThanDv(m, v, nb) ==
    /\ v # NULL
    /\ m.dvsize >= nb => ChunkSize(m, v) < m.dvsize

tmalloc_large(m, nb, v, otherwise) ==
    IF BetterThanDv(m, v, nb) THEN Carve(Take(m, v), v, nb, FALSE)
    ELSE otherwise

WithoutDv(m) == [m EXCEPT !.dv = NULL, !.dvsize = 0]

\* Slip: a dv that is used up stays dv.
UseDv_Kept(m, nb) ==
    LET got == Carve(WithoutDv(m), m.dv, nb, TRUE)
    IN  IF got.m.dvsize = 0
        THEN [got EXCEPT !.m.dv = m.dv, !.m.dvsize = m.dvsize]
        ELSE got

UseDv(m, nb) == Carve(WithoutDv(m), m.dv, nb, TRUE)

DvOrTop(m, nb, sys) ==
    IF nb <= m.dvsize THEN UseDv(m, nb)
    ELSE SplitTop(m, nb, sys_alloc(m, nb, sys))

malloc_small(m, bytes, sys) ==
    LET nb     == request2size(bytes)
        idx    == small_index(nb)
        exact  == {idx, idx + 1} \cap m.smallmap
        larger == {i \in m.smallmap : i > idx}
    IN  IF exact # {}
        THEN LET p == FirstOfSmallbin(m, Min(exact)) IN
             Result(set_inuse_and_pinuse(Take(m, p), p, ChunkSize(m, p)), p)
        ELSE IF nb <= m.dvsize THEN UseDv(m, nb)
        ELSE IF larger # {}
        THEN LET p == FirstOfSmallbin(m, Min(larger)) IN
             Carve(Take(m, p), p, nb, TRUE)
        ELSE IF m.treemap # {} THEN tmalloc_small(m, nb, least_chunk(m))
        ELSE SplitTop(m, nb, sys_alloc(m, nb, sys))

mspace_malloc(m, bytes, sys) ==
    IF bytes <= MAX_SMALL_REQUEST THEN malloc_small(m, bytes, sys)
    ELSE IF bytes >= MAX_REQUEST THEN Result(m, NULL)
    ELSE LET nb == pad_request(bytes) IN
         tmalloc_large(m, nb, IF m.treemap = {} THEN NULL ELSE best_fit(m, nb),
                       DvOrTop(m, nb, sys))
-----------------------------------------------------------------------------
(* The end of chunk p is given up from nb on.                               *)
GiveUpEnd(m, p, nb) ==
    LET rest == ChunkSize(m, p) - nb
    IN  dispose_chunk(set_inuse(set_inuse(m, p, nb), p + nb, rest), p + nb, rest)

(* Chunk p shall start where its memory is aligned: what is in front of     *)
(* that is given up, and must be large enough for a chunk.                  *)
AlignedStart(p, alignment) ==
    LET br == mem2chunk(AlignUp(chunk2mem(p), alignment))
    IN  IF chunk2mem(p) % alignment = 0 THEN p
        ELSE IF br - p >= MIN_CHUNK_SIZE THEN br ELSE br + alignment

MoveStart(m, p, newp) ==
    LET lead == newp - p
        size == ChunkSize(m, p) - lead
    IN  IF newp = p THEN m
        ELSE IF is_mmapped(m, p)
        THEN SetHead([Forget(m, p, p + 1) EXCEPT
                        !.foot = Put(@, newp, m.foot[p] + lead)],
                     newp, size, FALSE, FALSE)
        ELSE dispose_chunk(set_inuse(set_inuse(m, newp, size), p, lead), p, lead)

PowerOfTwo(alignment) ==
    LET Enough(k) == 2 ^ k >= alignment
    IN  2 ^ CHOOSE k \in 5 .. 29 : Enough(k) /\ (k = 5 \/ ~Enough(k - 1))

WithoutSpare(m, p, nb) ==
    Result(IF ~is_mmapped(m, p) /\ ChunkSize(m, p) > nb + MIN_CHUNK_SIZE
           THEN GiveUpEnd(m, p, nb) ELSE m, p)

Aligned(got, nb, alignment) ==
    LET p    == mem2chunk(got.mem)
        newp == AlignedStart(p, alignment)
    IN  IF got.mem = NULL THEN got
        ELSE WithoutSpare(MoveStart(got.m, p, newp), newp, nb)

(* What is asked of mspace_malloc has room for the aligned chunk anywhere.  *)
PaddedRequest(alignment, bytes) ==
    request2size(bytes) + alignment + MIN_CHUNK_SIZE - CHUNK_OVERHEAD

internal_memalign(m, align, bytes, sys) ==
    LET alignment == PowerOfTwo(align)
    IN  IF bytes >= MAX_REQUEST - alignment THEN Result(m, NULL)
        ELSE Aligned(mspace_malloc(m, PaddedRequest(alignment, bytes), sys),
                     request2size(bytes), alignment)

mspace_memalign(m, alignment, bytes, sys) ==
    IF alignment <= MALLOC_ALIGNMENT THEN mspace_malloc(m, bytes, sys)
    ELSE internal_memalign(m, alignment, bytes, sys)

overhead_for(m, p) == IF is_mmapped(m, p) THEN 2 * SIZE_T_SIZE ELSE CHUNK_OVERHEAD

mspace_usable_size(m, mem) ==
    LET p == mem2chunk(mem)
    IN  IF mem # NULL /\ is_inuse(m, p) THEN ChunkSize(m, p) - overhead_for(m, p)
        ELSE 0
=============================================================================
