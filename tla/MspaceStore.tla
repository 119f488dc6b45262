---------------------------- MODULE MspaceStore ----------------------------
(* An mspace without a limit, and all its calls: it starts on an area of    *)
(* its owner or of the system and grows into memory of the system, which    *)
(* may refuse to map and to unmap. Heap does not let its mspaces grow (see  *)
(* HeapMspace).                                                             *)
EXTENDS MspaceResize, MspaceChecks

CONSTANTS
    Base, Room,     \* where the mspace starts, and with how much for blocks
    Sizes,          \* the sizes asked for
    Products,       \* the counts and sizes asked for with calloc
    Groups,         \* the sequences of sizes asked for at a time
    Alignment,      \* an alignment asked for
    Places,         \* where the system may map
    MaxBlocks       \* a bound of the model: how many blocks the program has,
                    \* not counting the array of a group

ASSUME MspaceStoreAssumption ==
    /\ Base % Granularity = 0
    /\ Room % MALLOC_ALIGNMENT = 0 /\ Room > 0
    /\ {Sizes, Places} \subseteq SUBSET (Nat \ {0})
    /\ \A place \in Places : place % Granularity = 0

VARIABLES
    ms,             \* the mspace
    blocks          \* the blocks of the program, and what was asked for each

vars == <<ms, blocks>>

Capacity == pad_request(STATE_SIZE) + Room + TOP_FOOT_SIZE

Init ==
    /\ ms \in {create_mspace_with_base(Base, Capacity), create_mspace(Room, Base)}
    /\ blocks = [mem \in {} |-> 0]

(* The chunks that are mapped for themselves, by the range they take up.    *)
InSegment(m, p) ==
    \E k \in DOMAIN m.segs : p \in m.segs[k].base .. SegmentEnd(m.segs[k]) - 1

Direct(m) == {p \in DOMAIN m.head : ~InSegment(m, p) /\ is_mmapped(m, p)
                                      /\ ChunkSize(m, p) # 0}

DirectRange(m, p) == [base |-> p - m.foot[p],
                      size |-> ChunkSize(m, p) + m.foot[p] + MMAP_FOOT_PAD]

Areas(m) ==
    {[base |-> m.segs[k].base, size |-> m.segs[k].size] : k \in DOMAIN m.segs}
      \cup {DirectRange(m, p) : p \in Direct(m)}

(* The system maps where nothing is mapped yet, or refuses.                 *)
FreePlaces(size) ==
    {NULL} \cup {place \in Places :
                    \A a \in Areas(ms) : place + size <= a.base
                                         \/ a.base + a.size <= place}

Answers(nb) ==
    [direct  : IF nb < MmapThreshold THEN {NULL} ELSE FreePlaces(mmap_alloc_size(nb)),
     segment : FreePlaces(granularity_align(nb + SYS_ALLOC_PADDING))]

(* The program writes its blocks to the end: the words there that once were *)
(* feet of free chunks hold nothing to go by.                               *)
Filled(m) ==
    [m EXCEPT !.foot = Restrict(@, {p \in DOMAIN @ \cap DOMAIN m.head : ~pinuse(m, p)})]

Given(got, bytes) ==
    /\ ms' = Filled(got.m)
    /\ blocks' = IF got.mem = NULL THEN blocks ELSE (got.mem :> bytes) @@ blocks

FewerBlocks == Cardinality(DOMAIN blocks) < MaxBlocks

Malloc(bytes, sys) ==
    /\ FewerBlocks
    /\ Given(mspace_malloc(ms, bytes, sys), bytes)

Calloc(n, size, sys) ==
    /\ FewerBlocks
    /\ Given(mspace_calloc(ms, n, size, sys), n * size)

Memalign(bytes, sys) ==
    /\ FewerBlocks
    /\ Given(mspace_memalign(ms, Alignment, bytes, sys), bytes)

Ialloc(sizes, hasArray, sys) ==
    /\ Cardinality(DOMAIN blocks) + Len(sizes) <= MaxBlocks
    /\ \E got \in {ialloc(ms, sizes, hasArray, sys)} :
          /\ ms' = Filled(got.m)
          /\ blocks' = [mem \in Range(got.mems) |->
                          LET k == CHOOSE k \in DOMAIN got.mems : got.mems[k] = mem
                          IN  IF k <= Len(sizes) THEN sizes[k]
                              ELSE Len(sizes) * SIZE_T_SIZE] @@ blocks

Without(mems) == Restrict(blocks, DOMAIN blocks \ mems)

Free(mem, unmaps) ==
    /\ ms' = mspace_free(ms, mem, unmaps)
    /\ blocks' = Without({mem})

BulkFree(array, unmaps) ==
    /\ Len(array) > 1
    /\ ms' = mspace_bulk_free(ms, array, unmaps)
    /\ blocks' = Without(Range(array))

Realloc(mem, bytes, sys, unmaps) ==
    \E got \in {mspace_realloc(ms, mem, bytes, sys, unmaps)} :
        /\ ms' = Filled(got.m)
        /\ blocks' = IF got.mem = NULL THEN blocks
                     ELSE (got.mem :> bytes) @@ Without({mem})

ReallocInPlace(mem, bytes) ==
    \E got \in {mspace_realloc_in_place(ms, mem, bytes)} :
        /\ ms' = Filled(got.m)
        /\ blocks' = IF got.mem = NULL THEN blocks ELSE [blocks EXCEPT ![mem] = bytes]

Trim(unmaps) ==
    /\ ms' = mspace_trim(ms, 0, unmaps)
    /\ UNCHANGED blocks

Arrays == {SetToSortSeq(DOMAIN blocks, <), SetToSortSeq(DOMAIN blocks, >)}

Next ==
    \/ \E bytes \in Sizes : \E sys \in Answers(request2size(bytes)) :
          Malloc(bytes, sys)
    \/ \E p \in Products : \E sys \in Answers(request2size(p.n * p.size)) :
          Calloc(p.n, p.size, sys)
    \/ \E bytes \in Sizes : \E sys \in Answers(ChunkFor(Alignment, bytes)) :
          Memalign(bytes, sys)
    \/ \E sizes \in Groups, hasArray \in BOOLEAN :
          \E sys \in Answers(GroupSize(sizes, hasArray)) :
             Ialloc(sizes, hasArray, sys)
    \/ \E mem \in DOMAIN blocks, unmaps \in BOOLEAN : Free(mem, unmaps)
    \/ \E array \in Arrays, unmaps \in BOOLEAN : BulkFree(array, unmaps)
    \/ \E mem \in DOMAIN blocks, bytes \in Sizes, unmaps \in BOOLEAN :
          \E sys \in Answers(request2size(bytes)) : Realloc(mem, bytes, sys, unmaps)
    \/ \E mem \in DOMAIN blocks, bytes \in Sizes : ReallocInPlace(mem, bytes)
    \/ \E unmaps \in BOOLEAN : Trim(unmaps)

Spec == Init /\ [][Next]_vars
-----------------------------------------------------------------------------
(* What do_check_malloc_state asserts (malloc.c:3461), after any calls and  *)
(* with memory coming and going; and no block is below least_addr, or free  *)
(* and realloc would abort on it as on a corrupted one (malloc.c:3018).     *)
AddressesAreOk == \A a \in Areas(ms) : ms.least_addr <= a.base

(* A chunk mapped for itself ends in a fencepost and a word of zero, which   *)
(* stops whoever looks at the chunk behind it.                              *)
DirectIsSound(m, p) ==
    LET n == next_chunk(m, p)
    IN  /\ chunk2mem(p) % MALLOC_ALIGNMENT = 0
        /\ ~is_small(ChunkSize(m, p))
        /\ DirectRange(m, p).size % Granularity = 0
        /\ {n, n + SIZE_T_SIZE} \subseteq DOMAIN m.head
        /\ IsFencepost(m, n) /\ cinuse(m, n) /\ pinuse(m, n)
        /\ m.head[n + SIZE_T_SIZE] = [size |-> 0, pinuse |-> FALSE, cinuse |-> FALSE]

MspaceIsSound ==
    /\ TagsAgree(ms) /\ EveryFreeChunkIsBinned(ms) /\ AddressesAreOk
    /\ \A p \in Direct(ms) : DirectIsSound(ms, p)

(* Every chunk in use has an owner: the mspace itself, the record of a      *)
(* segment, or the program, and every block holds what was asked for. None  *)
(* is leaked by a call that moves, joins, cuts or aligns chunks.            *)
Records == {chunk2mem(Base)} \cup {ms.segs[k].record : k \in DOMAIN ms.segs}

InUseIsOwned ==
    /\ {chunk2mem(p) : p \in Walked(ms) \ FreeChunks(ms)}
         = Records \cup {mem \in DOMAIN blocks : InSegment(ms, mem2chunk(mem))}
    /\ \A mem \in DOMAIN blocks :
          /\ mspace_usable_size(ms, mem) >= blocks[mem]
          /\ InSegment(ms, mem2chunk(mem)) \/ mem2chunk(mem) \in Direct(ms)

(* The footprint is what is mapped, also what could not be unmapped.        *)
(* destroy_mspace gives back all but the owner's area and the chunks that   *)
(* are mapped for themselves, which the program must free (malloc.c:5478).  *)
FootprintIsMapped ==
    LET Sum(areas) == MapThenSumSet(LAMBDA a : a.size, areas)
        extern == {seg \in Range(ms.segs) : seg.extern}
    IN  /\ ms.footprint = Sum(Areas(ms))
        /\ destroy_mspace(ms, TRUE) + Sum(extern)
             + Sum({DirectRange(ms, p) : p \in Direct(ms)}) = ms.footprint

(* When the system takes memory back, a trim leaves no segment behind that  *)
(* has nothing in use but its record (release_unused_segments,              *)
(* malloc.c:4252). Not counted are the first, which has top, the owner's    *)
(* area, and a segment whose record had to start where its top started,     *)
(* before the room that is kept at its end: such a one is never given back. *)
Idle(m, seg) ==
    /\ ~seg.extern
    /\ mem2chunk(seg.record) >= SegmentEnd(seg) - TOP_FOOT_SIZE
    /\ \A p \in WalkedFrom(m, seg) : is_inuse(m, p) => chunk2mem(p) = seg.record

TrimReleasesIdle ==
    \E after \in {mspace_trim(ms, 0, TRUE)} :
        \A k \in 2 .. Len(after.segs) : ~Idle(after, after.segs[k])
=============================================================================
