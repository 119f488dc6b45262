----------------------------- MODULE TreeStore -----------------------------
(* The treebins on their own: free chunks of any large size come and go in  *)
(* any order, as malloc, free and memalign make them.                       *)
EXTENDS TreeBins

CONSTANTS
    Places,         \* the addresses of the chunks
    ChunkSizes      \* their sizes

ASSUME StoreAssumption ==
    /\ {NULL, IN_BIN} \cap Places = {}
    /\ \A s \in ChunkSizes :
          s \in Nat /\ s % MALLOC_ALIGNMENT = 0 /\ s >= MIN_LARGE_SIZE /\ s < 2 ^ 30

VARIABLES
    bins,           \* the state of the mspace, as far as TreeBins uses it
    arrived         \* history: the chunks of each size, oldest first

vars == <<bins, arrived>>

Stored == DOMAIN bins.node

Init ==
    /\ bins = [head    |-> [p \in {} |-> [size |-> 0]],
               node    |-> [p \in {} |-> NewNode(NULL, NULL, NULL, 0)],
               treemap |-> {},
               treebin |-> [i \in 0 .. NTREEBINS - 1 |-> NULL]]
    /\ arrived = [s \in ChunkSizes |-> <<>>]

WithHead(m, x, s) == [m EXCEPT !.head = Put(@, x, [size |-> s])]

WithoutHead(m, x) == [m EXCEPT !.head = Restrict(@, DOMAIN @ \ {x})]

TakeOut(x) ==
    LET s == ChunkSize(bins, x) IN
    /\ bins' = WithoutHead(unlink_large_chunk(bins, x), x)
    /\ arrived' = [arrived EXCEPT ![s] = Removed(@, x)]

(* A chunk becomes free.                                                    *)
Insert(x, s) ==
    /\ x \notin Stored
    /\ bins' = insert_large_chunk(WithHead(bins, x, s), x, s)
    /\ arrived' = [arrived EXCEPT ![s] = Append(@, x)]

(* A chunk is merged with a neighbour.                                      *)
Unlink(x) == x \in Stored /\ TakeOut(x)

(* A large request takes the best fit, a small one the least chunk.         *)
TakeBestFit(nb) == best_fit(bins, nb) # NULL /\ TakeOut(best_fit(bins, nb))

TakeLeast == Stored # {} /\ TakeOut(least_chunk(bins))

Next ==
    \/ \E x \in Places, s \in ChunkSizes : Insert(x, s)
    \/ \E x \in Stored : Unlink(x)
    \/ \E nb \in ChunkSizes : TakeBestFit(nb)
    \/ TakeLeast

Spec == Init /\ [][Next]_vars
-----------------------------------------------------------------------------
(* What do_check_tree asserts (malloc.c:3307): links and back links agree,  *)
(* rings hold one size and one member with a parent, all nodes are in the   *)
(* bin of their size, and the sizes left of a node are below those right.   *)
Links(x) == bins.node[x]

InTree(x) == Links(x).parent # NULL

TreesAreWellFormed ==
    \A x \in Stored :
        LET n == Links(x)
            ring == Ring(bins, x)
        IN  /\ Links(n.fd).bk = x /\ Links(n.bk).fd = x
            /\ Cardinality({y \in ring : InTree(y)}) = 1
            /\ \A y \in ring : ChunkSize(bins, y) = ChunkSize(bins, x)
            /\ n.index = compute_tree_index(ChunkSize(bins, x))
            /\ \A c \in Range(n.child) \ {NULL} : Links(c).parent = x
            /\ ~InTree(x) => Range(n.child) = {NULL}
            /\ n.parent = IN_BIN => bins.treebin[n.index] = x
            /\ n.parent \in Stored => x \in Range(Links(n.parent).child)
            /\ NULL \notin Range(n.child) =>
                  ChunkSize(bins, n.child[0]) < ChunkSize(bins, n.child[1])

(* Every chunk in the bins is found by its size, whatever was inserted and  *)
(* removed before, also after an inner node was replaced by a leaf (see     *)
(* bin_find, malloc.c:3393), and a bin is marked when it has a tree.        *)
EveryChunkIsFound ==
    /\ \A x \in Stored : tree_find(bins, x)
    /\ \A i \in DOMAIN bins.treebin :
          i \in bins.treemap <=> bins.treebin[i] # NULL

(* The two searches find a smallest chunk that fits, out of all there are,  *)
(* or none when there is none: the tree is not ordered along any path, and  *)
(* the answer may be in a subtree the way to the size does not enter.       *)
Holding(nb) == {x \in Stored : ChunkSize(bins, x) >= nb}

SearchesAreBestFit ==
    /\ \A nb \in ChunkSizes :
          LET x == best_fit(bins, nb) IN
          IF Holding(nb) = {} THEN x = NULL
          ELSE /\ x \in Holding(nb)
               /\ \A y \in Holding(nb) : ChunkSize(bins, x) <= ChunkSize(bins, y)
    /\ Stored # {} =>
          \A y \in Stored :
              ChunkSize(bins, least_chunk(bins)) <= ChunkSize(bins, y)

(* "Only the oldest chunk (the next to be used, in our FIFO ordering)" is   *)
(* in the tree (malloc.c:2366): of the chunks of one size, the one a search *)
(* returns has been free the longest, also after chunks between were merged *)
(* away.                                                                    *)
OldestIsInTree ==
    \A x \in Stored : InTree(x) => Head(arrived[ChunkSize(bins, x)]) = x

(* Whatever is inserted, merged away and taken in whatever order: the trees *)
(* stay trees, lose no chunk, and keep the oldest of each size in reach.    *)
TreesAreSound == TreesAreWellFormed /\ EveryChunkIsFound /\ OldestIsInTree
=============================================================================
