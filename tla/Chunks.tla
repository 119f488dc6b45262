------------------------------- MODULE Chunks -------------------------------
(* The sizes of dlmalloc (libraries/dlmalloc-2.8.6/malloc.c) as the engine  *)
(* builds it: 64-bit Windows, no footers, no locks of its own. A chunk is   *)
(* named by its address; the two words before its memory hold the size of   *)
(* the chunk before it and its own size and bits. Sizes stay below 2^30.    *)
EXTENDS Integers

SIZE_T_SIZE == 8
SIZE_T_BITSIZE == 64
MALLOC_ALIGNMENT == 16
CHUNK_OVERHEAD == SIZE_T_SIZE
MIN_CHUNK_SIZE == 4 * SIZE_T_SIZE

NSMALLBINS == 32
NTREEBINS == 32
TREEBIN_SHIFT == 8
SMALLBIN_WIDTH == 8
MIN_LARGE_SIZE == 2 ^ TREEBIN_SHIFT
MAX_SMALL_REQUEST ==
    MIN_LARGE_SIZE - 1 - (MALLOC_ALIGNMENT - 1) - CHUNK_OVERHEAD

\* sizeof(struct malloc_state) and sizeof(struct malloc_segment)
STATE_SIZE == 936
SEGMENT_SIZE == 32

NULL == 0

chunk2mem(p) == p + 2 * SIZE_T_SIZE
mem2chunk(mem) == mem - 2 * SIZE_T_SIZE

(* The least multiple of a that is at least x, for the masks of the code.   *)
AlignUp(x, a) == ((x + a - 1) \div a) * a

pad_request(req) == AlignUp(req + CHUNK_OVERHEAD, MALLOC_ALIGNMENT)

MIN_REQUEST == MIN_CHUNK_SIZE - CHUNK_OVERHEAD - 1

request2size(req) ==
    IF req < MIN_REQUEST THEN MIN_CHUNK_SIZE ELSE pad_request(req)

(* The end of a segment that is never given away: a segment record and two  *)
(* fenceposts fit in it.                                                    *)
TOP_FOOT_SIZE == pad_request(SEGMENT_SIZE) + MIN_CHUNK_SIZE
-----------------------------------------------------------------------------
is_small(s) == s \div SMALLBIN_WIDTH < NSMALLBINS
small_index(s) == s \div SMALLBIN_WIDTH
small_index2size(i) == i * SMALLBIN_WIDTH

(* Two bins for each power of two from 2^8 on; the last one has the rest.   *)
compute_tree_index(s) ==
    LET x == s \div MIN_LARGE_SIZE IN
    IF x = 0 THEN 0
    ELSE IF x > 65535 THEN NTREEBINS - 1
    ELSE LET k == CHOOSE n \in 0 .. 15 : x \in 2 ^ n .. 2 ^ (n + 1) - 1
         IN  2 * k + ((s \div 2 ^ (k + TREEBIN_SHIFT - 1)) % 2)

minsize_for_tree_index(i) ==
    2 ^ (i \div 2 + TREEBIN_SHIFT)
      + (i % 2) * 2 ^ (i \div 2 + TREEBIN_SHIFT - 1)

(* The bit of the sizes in bin i that the root of its tree branches on; the *)
(* code shifts it to the front of the word, and the next one after it.      *)
bit_for_tree_index(i) ==
    IF i = NTREEBINS - 1 THEN SIZE_T_BITSIZE - 1
    ELSE i \div 2 + TREEBIN_SHIFT - 2

Bit(s, n) == IF n \in 0 .. 29 THEN (s \div 2 ^ n) % 2 ELSE 0
=============================================================================
