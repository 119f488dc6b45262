----------------------------- MODULE HeapMspace -----------------------------
(* The mspace of a Heap (Memory/Heap.cpp): what Allocate, Free and Clear do *)
(* to it inside the heap's lock. Every block ends in a word of the heap, a  *)
(* pointer to its tag, which is the word the next chunk keeps its           *)
(* neighbour's size in when that is free.                                   *)
EXTENDS MspaceChecks

CONSTANTS
    Base,           \* m_base
    MaxSize,        \* m_maxSize
    Requests,       \* what is asked for: records of a size and an align
    Places,         \* where the system would map memory
    MaxBlocks       \* how many blocks are alive at most: a bound of the model

ASSUME HeapMspaceAssumption ==
    /\ Base \in Nat /\ Base % MALLOC_ALIGNMENT = 0
    /\ MaxSize \in Nat /\ MaxSize % MALLOC_ALIGNMENT = 0 /\ FitsMspace(MaxSize)
    /\ \A r \in Requests : {r.size, r.align} \subseteq Nat \ {0} /\ r.align <= 2 ^ 29
    /\ MaxBlocks \in Nat

VARIABLES
    ms,             \* the state of m_mem
    used,           \* m_mspaceUsedSize
    held            \* the blocks of the program: what was asked for each

vars == <<ms, used, held>>

TagOf(r) == -r.size

NoBlocks == [mem \in {} |-> [size |-> 0, align |-> 0]]

NewMspace ==
    mspace_set_footprint_limit(create_mspace_with_base(Base, MaxSize), MaxSize)

Init ==
    /\ ms = NewMspace
    /\ used = 0
    /\ held = NoBlocks

Answers == [direct : Places \cup {NULL}, segment : Places \cup {NULL}]

\* Slip: no room is asked for the tag.
Bytes_WithoutTag(r) == r.size

Bytes(r) == r.size + SIZE_T_SIZE

Memalign(m, r, sys) == mspace_memalign(m, r.align, Bytes(r), sys)

TagWord(m, mem) == mem + mspace_usable_size(m, mem) - SIZE_T_SIZE

Tagged(m, mem, r) == [m EXCEPT !.foot = Put(@, TagWord(m, mem), TagOf(r))]

\* Slip: what was asked for is charged, what the chunk holds is given back.
Charged_Bytes(m, mem, r) == r.size

Charged(m, mem, r) == mspace_usable_size(m, mem)

(* Without a block the mspace is left as it is, and the runtime's allocator *)
(* is asked (see Heap).                                                     *)
Allocate(r, sys) ==
    /\ Cardinality(DOMAIN held) < MaxBlocks
    /\ \E got \in {Memalign(ms, r, sys)} :
          IF got.mem = NULL
          THEN /\ ms' = got.m
               /\ UNCHANGED <<used, held>>
          ELSE /\ ms' = Tagged(got.m, got.mem, r)
               /\ used' = used + Charged(got.m, got.mem, r)
               /\ held' = Put(held, got.mem, r)

Free(mem) ==
    /\ used' = used - mspace_usable_size(ms, mem)
    /\ ms' = mspace_free(ms, mem, FALSE)
    /\ held' = Restrict(held, DOMAIN held \ {mem})

Clear ==
    /\ ms' = NewMspace
    /\ used' = 0
    /\ held' = NoBlocks

Next ==
    \/ \E r \in Requests, sys \in Answers : Allocate(r, sys)
    \/ \E mem \in DOMAIN held : Free(mem)
    \/ Clear

Spec == Init /\ [][Next]_vars
-----------------------------------------------------------------------------
(* After any calls, every chunk still knows the truth about its neighbours, *)
(* although the heap writes its tags into the words they share, free ones   *)
(* are merged, and each is in the one place a search finds it in.           *)
MspaceIsSound == TagsAgree(ms) /\ EveryFreeChunkIsBinned(ms)

(* The tag of a block is what Allocate wrote, for as long as the block is   *)
(* held, and it lies behind the bytes that were asked for (Heap.cpp:111).   *)
TagsSurvive ==
    \A mem \in DOMAIN held :
        LET word == TagWord(ms, mem) IN
        /\ word \in DOMAIN ms.foot /\ ms.foot[word] = TagOf(held[mem])
        /\ mem + held[mem].size <= word

(* The two answers of GetUsedBytes: what the mspace counts as used is what  *)
(* the heap was charged, and a word for each block, and the mspace itself.  *)
UsedBytesAgree ==
    mspace_mallinfo(ms).uordblks =
        used + CHUNK_OVERHEAD * Cardinality(DOMAIN held) + pad_request(STATE_SIZE)

(* Allocate turns to the runtime's allocator only when no free chunk and    *)
(* not top can hold the request: the bins hide nothing from it.             *)
FailsOnlyWhenNothingFits ==
    \A r \in Requests :
        Memalign(ms, r, Refusing).mem = NULL =>
            /\ ms.topsize <= ChunkFor(r.align, Bytes(r))
            /\ \A p \in FreeChunks(ms) : ChunkSize(ms, p) < ChunkFor(r.align, Bytes(r))

(* What Heap, the module, takes mspace_memalign for. The blocks stay inside *)
(* the heap's area, which is what Free goes by (Heap.cpp:127), whatever     *)
(* memory the system would map: the limit is rounded up, but never by as    *)
(* much as is mapped at a time.                                             *)
Contract ==
    INSTANCE Blocks WITH
        Overhead <- SIZE_T_SIZE,
        Slack <- 47,
        blocks <- {[addr |-> mem, size |-> mspace_usable_size(ms, mem)] :
                     mem \in DOMAIN held}

GivesBlocks == Contract!Spec
=============================================================================
