------------------------------ MODULE TreeBins ------------------------------
(* The treebins of dlmalloc: free chunks of 256 bytes and more, in digital  *)
(* trees by the bits of their size, the chunks of one size in a ring of     *)
(* which one member is in the tree. The operators take the state m of an    *)
(* mspace and give the state after; they use these fields of it:            *)
(*   head     the size and bits of each chunk, by its address               *)
(*   treemap  the bins marked as not empty                                  *)
(*   treebin  the root of the tree of each bin                              *)
(*   node     the links inside each chunk that is in a bin                  *)
EXTENDS Chunks, Sequences, FiniteSets, FiniteSetsExt, Functions, TLC

(* A root has the address of its bin for a parent, a chunk that only is in  *)
(* a ring has none.                                                         *)
IN_BIN == -1

ChunkSize(m, p) == m.head[p].size

Put(f, x, e) == [y \in DOMAIN f \cup {x} |-> IF y = x THEN e ELSE f[y]]

Removed(seq, x) ==
    LET k == CHOOSE i \in DOMAIN seq : seq[i] = x
    IN  [j \in 1 .. Len(seq) - 1 |-> seq[IF j < k THEN j ELSE j + 1]]

NewNode(fd, bk, parent, i) ==
    [fd |-> fd, bk |-> bk, parent |-> parent, index |-> i,
     child |-> [side \in 0 .. 1 |-> NULL]]

(* Where the bits of s lead in the tree of bin i: to the node of that size, *)
(* or to the node that has no child on that side.                           *)
Descend(m, i, s) ==
    LET walk[v \in (DOMAIN m.node) \X Int] ==
          LET side == Bit(s, v[2])
              next == m.node[v[1]].child[side]
          IN  IF ChunkSize(m, v[1]) = s \/ next = NULL
              THEN [at |-> v[1], side |-> side]
              ELSE walk[<<next, v[2] - 1>>]
    IN  walk[<<m.treebin[i], bit_for_tree_index(i)>>]

(* A chunk of the size of node t goes into its ring, right behind it.       *)
JoinRing(m, x, t, i) ==
    LET f == m.node[t].fd
    IN  [m EXCEPT !.node = Put([@ EXCEPT ![t].fd = x, ![f].bk = x],
                               x, NewNode(f, t, NULL, i))]

Attach(m, x, s, i, place) ==
    IF ChunkSize(m, place.at) = s THEN JoinRing(m, x, place.at, i)
    ELSE [m EXCEPT !.node =
            Put([@ EXCEPT ![place.at].child[place.side] = x],
                x, NewNode(x, x, place.at, i))]

insert_large_chunk(m, x, s) ==
    LET i == compute_tree_index(s)
    IN  IF i \in m.treemap THEN Attach(m, x, s, i, Descend(m, i, s))
        ELSE [m EXCEPT !.treemap = @ \cup {i},
                       !.treebin[i] = x,
                       !.node = Put(@, x, NewNode(x, x, IN_BIN, i))]
-----------------------------------------------------------------------------
(* The link to the leaf that replaces x: right where there is a right child *)
(* and left where there is not. There is none below a leaf.                 *)
LeafLink_OneStep(m, x) ==
    LET side == IF m.node[x].child[1] # NULL THEN 1 ELSE 0
    IN  [of |-> x, side |-> side, leaf |-> m.node[x].child[side]]

LeafLink(m, x) ==
    LET link[t \in DOMAIN m.node] ==
          LET side == IF m.node[t].child[1] # NULL THEN 1 ELSE 0
              next == m.node[t].child[side]
          IN  IF next = NULL \/ Range(m.node[next].child) = {NULL}
              THEN [of |-> t, side |-> side, leaf |-> next]
              ELSE link[next]
    IN  link[x]

NewRoot(m, i, x, r) == IF m.treebin[i] = x THEN r ELSE m.treebin[i]

(* r takes the place of x, which is linked with nothing but its tree any    *)
(* more: whoever was linked with x there is linked with r.                  *)
Replace(m, nodes, x, r) ==
    LET n == nodes[x]
        Relinked(a) ==
            IF n.parent = NULL THEN nodes[a]
            ELSE IF a = r
            THEN [nodes[a] EXCEPT
                    !.parent = n.parent,
                    !.child = [side \in 0 .. 1 |->
                        IF n.child[side] # NULL THEN n.child[side] ELSE @[side]]]
            ELSE IF r # NULL /\ a \in Range(n.child)
            THEN [nodes[a] EXCEPT !.parent = r]
            ELSE IF a = n.parent
            THEN [nodes[a] EXCEPT
                    !.child[IF nodes[a].child[0] = x THEN 0 ELSE 1] = r]
            ELSE nodes[a]
    IN  [m EXCEPT
          !.node = [a \in DOMAIN nodes \ {x} |-> Relinked(a)],
          !.treebin[n.index] = NewRoot(m, n.index, x, r),
          !.treemap = IF m.treebin[n.index] = x /\ r = NULL
                      THEN @ \ {n.index} ELSE @]

(* The ring closes behind x, and the chunk before x takes its place; the    *)
(* last chunk of its size is replaced by a leaf from below it.              *)
WithLeaf(m, x, link) ==
    Replace(m, IF link.leaf = NULL THEN m.node
               ELSE [m.node EXCEPT ![link.of].child[link.side] = NULL],
            x, link.leaf)

unlink_large_chunk(m, x) ==
    LET n == m.node[x]
    IN  IF n.bk = x THEN WithLeaf(m, x, LeafLink(m, x))
        ELSE Replace(m, [m.node EXCEPT ![n.fd].bk = n.bk, ![n.bk].fd = n.fd],
                     x, n.bk)
-----------------------------------------------------------------------------
leftmost_child(m, t) ==
    IF m.node[t].child[0] # NULL THEN m.node[t].child[0] ELSE m.node[t].child[1]

(* t and what the walk along leftmost_child visits below it.                *)
LeftmostPath(m, t) ==
    LET path[u \in DOMAIN m.node \cup {NULL}] ==
          IF u = NULL THEN {} ELSE {u} \cup path[leftmost_child(m, u)]
    IN  path[t]

(* The smallest of some chunks that hold nb, or none. The unsigned          *)
(* differences of the code make a chunk that is too small look far too      *)
(* large.                                                                   *)
Fits(m, chunks, nb) == {t \in chunks : ChunkSize(m, t) >= nb}

Smallest(m, chunks) ==
    IF chunks = {} THEN NULL
    ELSE CHOOSE t \in chunks :
            \A u \in chunks : ChunkSize(m, t) <= ChunkSize(m, u)

(* The nodes on the way to size nb in the tree of bin i, and the deepest    *)
(* right subtree that the way passes by.                                    *)
Search(m, i, nb) ==
    LET walk[v \in ((DOMAIN m.node) \cup {NULL}) \X Int] ==
          LET t == v[1] IN
          IF t = NULL THEN [path |-> {}, passed |-> NULL]
          ELSE IF ChunkSize(m, t) = nb THEN [path |-> {t}, passed |-> NULL]
          ELSE LET right == m.node[t].child[1]
                   next  == m.node[t].child[Bit(nb, v[2])]
                   below == walk[<<next, v[2] - 1>>]
               IN  [path   |-> {t} \cup below.path,
                    passed |-> IF below.passed = NULL /\ right # next
                               THEN right ELSE below.passed]
    IN  walk[<<m.treebin[i], bit_for_tree_index(i)>>]

\* Slip: when the way ends, the right subtrees it passed are not looked at.
best_fit_NoDetour(m, nb) ==
    LET i     == compute_tree_index(nb)
        found == Search(m, i, nb)
        above == {j \in m.treemap : j > i}
        start == IF Fits(m, found.path, nb) = {} /\ above # {}
                 THEN m.treebin[Min(above)]
                 ELSE NULL
    IN  Smallest(m, Fits(m, found.path \cup LeftmostPath(m, start), nb))

(* The search of tmalloc_large: the way to nb, then the least of the right  *)
(* subtree it passed last, or of the next bin when there is nothing here.   *)
best_fit(m, nb) ==
    LET i     == compute_tree_index(nb)
        found == Search(m, i, nb)
        above == {j \in m.treemap : j > i}
        start == IF found.passed # NULL THEN found.passed
                 ELSE IF Fits(m, found.path, nb) = {} /\ above # {}
                 THEN m.treebin[Min(above)]
                 ELSE NULL
    IN  Smallest(m, Fits(m, found.path \cup LeftmostPath(m, start), nb))

(* The search of tmalloc_small: the least chunk of the first bin there is.  *)
least_chunk(m) == Smallest(m, LeftmostPath(m, m.treebin[Min(m.treemap)]))
-----------------------------------------------------------------------------
(* bin_find of the debugging support, for a large chunk: the search by its  *)
(* size ends at a node in whose ring it is.                                 *)
Ring(m, t) ==
    LET ring[u \in DOMAIN m.node] ==
          IF m.node[u].fd = t THEN {u} ELSE {u} \cup ring[m.node[u].fd]
    IN  ring[t]

tree_find(m, x) ==
    LET s == ChunkSize(m, x)
        i == compute_tree_index(s)
    IN  /\ i \in m.treemap
        /\ x \in Ring(m, Descend(m, i, s).at)
=============================================================================
