---------------------------- MODULE MspaceState ----------------------------
(* dlmalloc's mspace (libraries/dlmalloc-2.8.6/malloc.c) as the engine uses *)
(* it: an area given by its owner, carved into chunks that know their size, *)
(* whether they are in use and whether the chunk before them is. Free       *)
(* chunks are in bins, but for the designated victim dv and the rest of the *)
(* area, top. When nothing fits, memory is mapped, up to a limit.           *)
(*                                                                          *)
(* An operator takes the state m of an mspace and gives the state after; m  *)
(* has the fields of TreeBins and these:                                    *)
(*   foot      the word before the head, which is the size of the chunk     *)
(*             before if that is free, and is its user's last word if not   *)
(*   smallmap, smallbin      the bins of small sizes, each a ring read from *)
(*                           its header on                                  *)
(*   dv, dvsize, top, topsize                                               *)
(*   trim_check, release_checks   when to look for memory to give back      *)
(*   segs      the areas, that with top first, and where each is recorded   *)
(*   footprint, footprint_limit, least_addr                                 *)
(* The tags kept are those of chunks: a word inside a chunk is no tag.      *)
EXTENDS TreeBins

CONSTANTS
    Granularity,    \* mparams.granularity, what is mapped at a time
    MmapThreshold,  \* mparams.mmap_threshold
    TrimThreshold,  \* mparams.trim_threshold
    ReleaseRate,    \* MAX_RELEASE_CHECK_RATE
    MAX_REQUEST,
    MAX_SIZE_T

ASSUME MspaceAssumption ==
    /\ Granularity \in Nat \ {0} /\ Granularity % MALLOC_ALIGNMENT = 0
    /\ {MmapThreshold, TrimThreshold, ReleaseRate, MAX_REQUEST} \subseteq Nat
    /\ MAX_SIZE_T \in Nat /\ MAX_SIZE_T > MAX_REQUEST

granularity_align(s) == AlignUp(s, Granularity)
-----------------------------------------------------------------------------
(* Heads and feet of chunks.                                                *)
cinuse(m, p) == m.head[p].cinuse
pinuse(m, p) == m.head[p].pinuse
is_mmapped(m, p) == ~cinuse(m, p) /\ ~pinuse(m, p)
is_inuse(m, p) == cinuse(m, p) \/ is_mmapped(m, p)
next_chunk(m, p) == p + ChunkSize(m, p)

SetHead(m, p, s, prevUsed, used) ==
    LET inside == p + 1 .. p + s - 1
        tag == [size |-> s, pinuse |-> prevUsed, cinuse |-> used]
    IN  [m EXCEPT
          !.head = Put([a \in DOMAIN @ \ inside |-> @[a]], p, tag),
          !.foot = [a \in DOMAIN @ \ inside |-> @[a]]]

(* The bits of a word that is no head yet are whatever was there; they are  *)
(* written before they are read.                                            *)
set_pinuse(m, p) ==
    IF p \in DOMAIN m.head THEN [m EXCEPT !.head[p].pinuse = TRUE]
    ELSE SetHead(m, p, 0, TRUE, FALSE)

\* Slip: the chunk behind is not told.
clear_pinuse_Skipped(m, p) == m

clear_pinuse(m, p) == [m EXCEPT !.head[p].pinuse = FALSE]

set_foot(m, p, s) == [m EXCEPT !.foot = Put(@, p + s, s)]

set_inuse(m, p, s) ==
    LET prevUsed == p \in DOMAIN m.head /\ pinuse(m, p)
    IN  set_pinuse(SetHead(m, p, s, prevUsed, TRUE), p + s)

set_inuse_and_pinuse(m, p, s) == set_pinuse(SetHead(m, p, s, TRUE, TRUE), p + s)

set_size_and_pinuse_of_inuse_chunk(m, p, s) == SetHead(m, p, s, TRUE, TRUE)

set_size_and_pinuse_of_free_chunk(m, p, s) ==
    set_foot(SetHead(m, p, s, TRUE, FALSE), p, s)

set_free_with_pinuse(m, p, s, n) ==
    set_size_and_pinuse_of_free_chunk(clear_pinuse(m, n), p, s)

(* Memory that is unmapped is gone, tags and all.                           *)
Forget(m, from, to) ==
    LET gone == from .. to - 1
    IN  [m EXCEPT !.head = [a \in DOMAIN @ \ gone |-> @[a]],
                  !.foot = [a \in DOMAIN @ \ gone |-> @[a]]]
-----------------------------------------------------------------------------
(* The bins. What the header of an emptied bin still names is not kept:     *)
(* only the bit in smallmap is asked.                                       *)
insert_small_chunk(m, p, s) ==
    LET i == small_index(s)
    IN  [m EXCEPT !.smallmap = @ \cup {i},
                  !.smallbin[i] = IF i \in m.smallmap THEN <<p>> \o @ ELSE <<p>>]

unlink_small_chunk(m, p, s) ==
    LET i == small_index(s)
    IN  IF m.smallbin[i] = <<p>>
        THEN [m EXCEPT !.smallmap = @ \ {i}, !.smallbin[i] = <<>>]
        ELSE [m EXCEPT !.smallbin[i] = Removed(@, p)]

insert_chunk(m, p, s) ==
    IF is_small(s) THEN insert_small_chunk(m, p, s)
    ELSE insert_large_chunk(m, p, s)

unlink_chunk(m, p, s) ==
    IF is_small(s) THEN unlink_small_chunk(m, p, s) ELSE unlink_large_chunk(m, p)

replace_dv(m, p, s) ==
    LET binned == IF m.dvsize # 0 THEN insert_small_chunk(m, m.dv, m.dvsize)
                  ELSE m
    IN  [binned EXCEPT !.dv = p, !.dvsize = s]
-----------------------------------------------------------------------------
(* The top chunk ends in room for a segment record.                         *)
init_top(m, p, s) ==
    LET end == SetHead(m, p + s, TOP_FOOT_SIZE, FALSE, FALSE)
    IN  [SetHead(end, p, s, TRUE, FALSE) EXCEPT
           !.top = p, !.topsize = s, !.trim_check = TrimThreshold]

(* On aligned memory: the state of the mspace is its first chunk, the rest  *)
(* is top.                                                                  *)
init_user_mstate(base, size, extern) ==
    LET msize == pad_request(STATE_SIZE)
        m == [head            |-> [p \in {base} |-> [size |-> msize, pinuse |-> TRUE,
                                                     cinuse |-> TRUE]],
              foot            |-> [p \in {} |-> 0],
              smallmap        |-> {},
              smallbin        |-> [i \in 0 .. NSMALLBINS - 1 |-> <<>>],
              treemap         |-> {},
              treebin         |-> [i \in 0 .. NTREEBINS - 1 |-> NULL],
              node            |-> [p \in {} |-> NewNode(NULL, NULL, NULL, 0)],
              dv              |-> NULL,
              dvsize          |-> 0,
              top             |-> NULL,
              topsize         |-> 0,
              trim_check      |-> 0,
              release_checks  |-> ReleaseRate,
              segs            |-> <<[base |-> base, size |-> size,
                                     extern |-> extern,
                                     record |-> chunk2mem(base)]>>,
              footprint       |-> size,
              footprint_limit |-> 0,
              least_addr      |-> base]
    IN  init_top(m, base + msize, size - msize - TOP_FOOT_SIZE)

(* Memory of the owner, refused when it is too small for both ...           *)
FitsMspace(capacity) == capacity > pad_request(STATE_SIZE) + TOP_FOOT_SIZE

create_mspace_with_base(base, capacity) == init_user_mstate(base, capacity, TRUE)

(* ... or of the system, as much as it takes.                               *)
MspaceSize(capacity) ==
    granularity_align(IF capacity = 0 THEN Granularity
                      ELSE capacity + TOP_FOOT_SIZE + pad_request(STATE_SIZE))

create_mspace(capacity, place) ==
    init_user_mstate(place, MspaceSize(capacity), FALSE)

(* The limit is rounded up to what is mapped at a time; 0 is no limit.      *)
mspace_set_footprint_limit(m, bytes) ==
    [m EXCEPT !.footprint_limit =
        IF bytes = MAX_SIZE_T THEN 0 ELSE granularity_align(bytes)]
=============================================================================
