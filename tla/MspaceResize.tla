---------------------------- MODULE MspaceResize ----------------------------
(* The calls of an mspace the Heap makes no use of: realloc, many blocks at *)
(* a time, and giving memory back on request.                               *)
EXTENDS Mspace

(* A chunk mapped for itself is kept where it is neither too small nor far  *)
(* too large; it cannot be moved on Windows.                                *)
mmap_resize(m, p, nb) ==
    LET oldsize == ChunkSize(m, p)
    IN  IF /\ ~is_small(nb)
           /\ oldsize >= nb + SIZE_T_SIZE /\ oldsize - nb <= 2 * Granularity
        THEN Result(m, p) ELSE Result(m, NULL)

(* In place: the end is given up, or taken from top, dv or a free chunk     *)
(* behind, if that is enough.                                               *)
IntoTop(m, p, nb) ==
    LET left == ChunkSize(m, p) + m.topsize - nb
    IN  IF left <= 0 THEN Result(m, NULL)
        ELSE Result([SetHead(set_inuse(m, p, nb), p + nb, left, TRUE, FALSE)
                       EXCEPT !.top = p + nb, !.topsize = left], p)

IntoDv(m, p, nb) ==
    LET whole == ChunkSize(m, p) + m.dvsize
        left  == whole - nb
    IN  IF left < 0 THEN Result(m, NULL)
        ELSE IF left < MIN_CHUNK_SIZE
        THEN Result([set_inuse(m, p, whole) EXCEPT !.dv = NULL, !.dvsize = 0], p)
        ELSE Result([set_size_and_pinuse_of_free_chunk(set_inuse(m, p, nb),
                                                       p + nb, left)
                       EXCEPT !.dv = p + nb, !.dvsize = left], p)

\* Slip: also an end too small for a chunk is given up.
Shrunk_Any(m, p, nb) ==
    Result(IF ChunkSize(m, p) > nb THEN GiveUpEnd(m, p, nb) ELSE m, p)

Shrunk(m, p, nb) ==
    Result(IF ChunkSize(m, p) - nb >= MIN_CHUNK_SIZE THEN GiveUpEnd(m, p, nb)
           ELSE m, p)

IntoNext(m, p, nb, n) ==
    LET whole == ChunkSize(m, p) + ChunkSize(m, n)
    IN  IF whole < nb THEN Result(m, NULL)
        ELSE Shrunk(set_inuse(Take(m, n), p, whole), p, nb)

try_realloc_chunk(m, p, nb) ==
    LET n == next_chunk(m, p)
    IN  IF is_mmapped(m, p) THEN mmap_resize(m, p, nb)
        ELSE IF ChunkSize(m, p) >= nb THEN Shrunk(m, p, nb)
        ELSE IF n = m.top THEN IntoTop(m, p, nb)
        ELSE IF n = m.dv THEN IntoDv(m, p, nb)
        ELSE IF ~cinuse(m, n) THEN IntoNext(m, p, nb, n)
        ELSE Result(m, NULL)

\* Slip: the old block is not freed.
Moved_KeepsOld(got, mem, unmaps) == got

(* Otherwise the block moves, and the old one is freed when there is a new  *)
(* one.                                                                     *)
Moved(got, mem, unmaps) ==
    IF got.mem = NULL THEN got
    ELSE [got EXCEPT !.m = mspace_free(@, mem, unmaps)]

mspace_realloc(m, mem, bytes, sys, unmaps) ==
    IF mem = NULL THEN mspace_malloc(m, bytes, sys)
    ELSE IF bytes >= MAX_REQUEST THEN Result(m, NULL)
    ELSE LET Try(got) == IF got.mem # NULL THEN got
                         ELSE Moved(mspace_malloc(m, bytes, sys), mem, unmaps)
         IN  Try(try_realloc_chunk(m, mem2chunk(mem), request2size(bytes)))

mspace_realloc_in_place(m, mem, bytes) ==
    IF mem = NULL \/ bytes >= MAX_REQUEST THEN Result(m, NULL)
    ELSE try_realloc_chunk(m, mem2chunk(mem), request2size(bytes))

(* The size of n elements. What does not fit in a word is seen by dividing, *)
(* and becomes a request that fails.                                        *)
Product(n, size) ==
    LET req == (n * size) % (MAX_SIZE_T + 1)
    IN  IF n # 0 /\ req \div n # size THEN MAX_SIZE_T ELSE req

mspace_calloc(m, n, size, sys) == mspace_malloc(m, Product(n, size), sys)
-----------------------------------------------------------------------------
(* ialloc: one chunk is cut into elements of the given sizes, the last of   *)
(* which has what is left, and behind them, if the caller has none, into    *)
(* the array of their addresses. It is never one that is mapped for itself. *)
ElementOffset(sizes, k) ==
    FoldLeft(LAMBDA sum, s : sum + request2size(s), 0, SubSeq(sizes, 1, k - 1))

Elements(p, sizes, array_size) ==
    LET n == Len(sizes)
        starts == [k \in 1 .. n |-> p + ElementOffset(sizes, k)]
    IN  IF array_size = 0 THEN starts
        ELSE Append(starts, p + ElementOffset(sizes, n + 1))

CutInto(m, starts, end) ==
    LET Piece(now, k) ==
          set_size_and_pinuse_of_inuse_chunk(now, starts[k],
            (IF k = Len(starts) THEN end ELSE starts[k + 1]) - starts[k])
    IN  FoldLeft(Piece, m, [k \in 1 .. Len(starts) |-> k])

Cut(got, sizes, array_size) ==
    LET p == mem2chunk(got.mem)
        starts == Elements(p, sizes, array_size)
    IN  IF got.mem = NULL THEN [m |-> got.m, mems |-> <<>>]
        ELSE [m |-> CutInto(got.m, starts, next_chunk(got.m, p)),
              mems |-> [k \in 1 .. Len(starts) |-> chunk2mem(starts[k])]]

ArraySize(sizes, hasArray) ==
    IF hasArray THEN 0 ELSE request2size(Len(sizes) * SIZE_T_SIZE)

GroupSize(sizes, hasArray) ==
    ElementOffset(sizes, Len(sizes) + 1) + ArraySize(sizes, hasArray)

ialloc(m, sizes, hasArray, sys) ==
    Cut(mspace_malloc(m, GroupSize(sizes, hasArray) - CHUNK_OVERHEAD,
                      [sys EXCEPT !.direct = NULL]),
        sizes, ArraySize(sizes, hasArray))
-----------------------------------------------------------------------------
(* internal_bulk_free: blocks that follow each other in the array and in    *)
(* memory are joined before they are given up.                              *)
FreeElement(now, k, unmaps) ==
    LET m == now.m
        p == mem2chunk(now.array[k])
        n == next_chunk(m, p)
    IN  IF now.array[k] = NULL THEN now
        ELSE IF is_mmapped(m, p) THEN [now EXCEPT !.m = unmap_chunk(m, p, unmaps)]
        ELSE IF k < Len(now.array) /\ now.array[k + 1] = chunk2mem(n)
        THEN [m |-> set_inuse(m, p, ChunkSize(m, p) + ChunkSize(m, n)),
              array |-> [now.array EXCEPT ![k + 1] = now.array[k]]]
        ELSE [now EXCEPT !.m = dispose_chunk(m, p, ChunkSize(m, p))]

TrimmedIfLarge(m, unmaps) ==
    IF should_trim(m) THEN sys_trim(m, 0, unmaps) ELSE m

mspace_bulk_free(m, array, unmaps) ==
    LET freed == FoldLeft(LAMBDA now, k : FreeElement(now, k, unmaps),
                          [m |-> m, array |-> array],
                          [k \in 1 .. Len(array) |-> k])
    IN  TrimmedIfLarge(freed.m, unmaps)

mspace_trim(m, pad, unmaps) ==
    IF pad < MAX_REQUEST THEN sys_trim(m, pad, unmaps) ELSE m

(* The segments that were mapped are unmapped, those that can be.           *)
destroy_mspace(m, unmaps) ==
    LET Mapped == SelectSeq(m.segs, LAMBDA seg : ~seg.extern)
    IN  IF unmaps THEN FoldLeft(LAMBDA sum, seg : sum + seg.size, 0, Mapped) ELSE 0
=============================================================================
