--------------------------- MODULE TreeStoreProofs ---------------------------
(* Theorems about the treebins of TreeStore, for any places and sizes: they *)
(* stay well-formed, lose no chunk, keep the oldest of each size in the     *)
(* tree, and the two searches find a smallest chunk that fits.              *)
EXTENDS TreeStore, TreeProofs

(* The inductive invariant: trees and rings are sound, and the rings have   *)
(* the chunks in the order in which they came.                              *)
StoreInv ==
    /\ Fit(bins, arrived)
    /\ DOMAIN arrived = ChunkSizes
    /\ Stored \subseteq Places
    /\ Stored \subseteq DOMAIN bins.head

(* The sizes of the store are sizes of the treebins.                        *)
LEMMA SizesOfStore == ChunkSizes \subseteq Sizes
<1> SUFFICES ASSUME NEW s \in ChunkSizes PROVE s \in Sizes
  OBVIOUS
<1>1. s \in Nat /\ s >= MIN_LARGE_SIZE /\ s < 2 ^ 30
  BY StoreAssumption
<1> QED
  BY <1>1 DEF Sizes, MIN_LARGE_SIZE, TREEBIN_SHIFT

(* The empty bins are sound.                                                *)
LEMMA InitFits == Init => StoreInv
<1> SUFFICES ASSUME Init PROVE StoreInv
  OBVIOUS
<1>1. /\ Nodes(bins) = {} /\ DOMAIN bins.head = {} /\ Stored = {} /\ bins.treemap = {}
      /\ bins.treebin = [i \in 0 .. 31 |-> NULL]
      /\ {"head", "node", "treemap", "treebin"} \subseteq DOMAIN bins
      /\ bins.node = [p \in {} |-> NewNode(NULL, NULL, NULL, 0)]
  BY DEF Init, Nodes, Stored, NTREEBINS
<1>2. arrived = [s \in ChunkSizes |-> <<>>]
  BY DEF Init
<1> DEFINE d == [x \in {} |-> 0]
<1>3. BinsTyped(bins)
  <2>1. bins.treebin \in [0 .. 31 -> Nodes(bins) \cup {NULL}]
    BY <1>1
  <2>2. bins.node \in [Nodes(bins) -> NodeType(Nodes(bins))]
    BY <1>1
  <2>3. bins.treemap = {i \in 0 .. 31 : bins.treebin[i] # NULL}
    BY <1>1
  <2> QED
    BY <1>1, <2>1, <2>2, <2>3 DEF BinsTyped
<1>4. TreesFit(bins, d, 0)
  <2>1. d \in [Nodes(bins) -> 0 .. 0]
    BY <1>1
  <2> HIDE DEF d
  <2> QED
    BY <1>1, <1>3, <2>1 DEF TreesFit
<1>5. RingsFit(bins, arrived)
  BY <1>1, <1>2 DEF RingsFit
<1> HIDE DEF d
<1>6. Fit(bins, arrived)
  BY <1>4, <1>5 DEF Fit
<1> QED
  BY <1>1, <1>2, <1>6 DEF StoreInv

(* A chunk that becomes free goes to its place.                             *)
LEMMA InsertKeeps ==
    ASSUME StoreInv, NEW x \in Places, NEW s \in ChunkSizes, Insert(x, s)
    PROVE  StoreInv'
<1> DEFINE m == WithHead(bins, x, s)
           w == insert_large_chunk(m, x, s)
           r == [arrived EXCEPT ![s] = Append(@, x)]
<1>1. x \notin Nodes(bins) /\ x # NULL /\ x # IN_BIN /\ s \in Sizes
  BY SizesOfStore, StoreAssumption DEF Insert, Nodes, Stored
<1>2. PICK d, top : TreesFit(bins, d, top)
  BY DEF StoreInv, Fit
<1>3. RingsFit(bins, arrived) /\ s \in DOMAIN arrived
  BY DEF StoreInv, Fit
<1>4. {"head", "node", "treemap", "treebin"} \subseteq DOMAIN bins
  BY <1>2 DEF TreesFit, BinsTyped
<1>5. /\ {"head", "node", "treemap", "treebin"} \subseteq DOMAIN m
      /\ m.head = Put(bins.head, x, [size |-> s])
      /\ m.node = bins.node /\ m.treemap = bins.treemap /\ m.treebin = bins.treebin
  BY <1>4 DEF WithHead
<1> HIDE DEF m
<1>6. ChunkSize(m, x) = s /\ DOMAIN m.head = DOMAIN bins.head \cup {x}
      /\ \A y \in Nodes(bins) : ChunkSize(m, y) = ChunkSize(bins, y)
  <2>1. Nodes(bins) \subseteq DOMAIN bins.head
    BY DEF StoreInv, Stored, Nodes
  <2> QED
    BY <1>1, <1>5, <2>1 DEF ChunkSize, Put
<1>7. SameBins(bins, m)
  BY <1>5, <1>6 DEF SameBins
<1>8. TreesFit(m, d, top) /\ RingsFit(m, arrived) /\ Nodes(m) = Nodes(bins)
  BY <1>2, <1>3, <1>7, SameBinsFit
<1>9. IsNew(m, d, top, arrived, x, s)
  BY <1>1, <1>3, <1>6, <1>8 DEF IsNew
<1>10. Fit(w, r)
  BY <1>9, InsertFits
<1>11. Nodes(w) = Nodes(m) \cup {x} /\ w.head = m.head
  BY <1>5, InsertAdds
<1>12. bins' = w /\ arrived' = r
  BY DEF Insert, m
<1> HIDE DEF w
<1>13. DOMAIN r = ChunkSizes
  BY DEF StoreInv
<1> HIDE DEF r
<1>14. Nodes(bins') \subseteq Places /\ Nodes(bins') \subseteq DOMAIN (bins').head
  <2>1. Nodes(bins) \subseteq Places /\ Nodes(bins) \subseteq DOMAIN bins.head
    BY DEF StoreInv, Stored, Nodes
  <2> QED
    BY <1>6, <1>8, <1>11, <1>12, <2>1
<1> QED
  BY <1>10, <1>12, <1>13, <1>14 DEF StoreInv, Stored, Nodes

(* A chunk that is taken out leaves sound bins.                             *)
LEMMA TakeOutKeeps ==
    ASSUME StoreInv, NEW x \in Stored, TakeOut(x)
    PROVE  StoreInv'
<1> DEFINE m == unlink_large_chunk(bins, x)
           w == WithoutHead(m, x)
           r == [arrived EXCEPT ![ChunkSize(bins, x)] = Removed(@, x)]
<1>1. PICK d, top : TreesFit(bins, d, top)
  BY DEF StoreInv, Fit
<1>2. RingsFit(bins, arrived) /\ x \in Nodes(bins)
  BY DEF StoreInv, Fit, Stored, Nodes
<1>3. Fit(m, r) /\ Nodes(m) = Nodes(bins) \ {x} /\ m.head = bins.head
  BY <1>1, <1>2, UnlinkFits
<1> HIDE DEF m
<1>4. PICK e, u : TreesFit(m, e, u)
  BY <1>3 DEF Fit
<1>5. {"head", "node", "treemap", "treebin"} \subseteq DOMAIN m
  BY <1>4 DEF TreesFit, BinsTyped
<1>6. /\ {"head", "node", "treemap", "treebin"} \subseteq DOMAIN w
      /\ w.head = Restrict(m.head, DOMAIN m.head \ {x})
      /\ w.node = m.node /\ w.treemap = m.treemap /\ w.treebin = m.treebin
  BY <1>5 DEF WithoutHead
<1> HIDE DEF w
<1>7. Nodes(bins) \subseteq Places /\ Nodes(bins) \subseteq DOMAIN bins.head
  BY DEF StoreInv, Stored, Nodes
<1>8. DOMAIN w.head = DOMAIN m.head \ {x} /\ \A y \in Nodes(m) : ChunkSize(w, y) = ChunkSize(m, y)
  BY <1>3, <1>6, <1>7 DEF ChunkSize, Restrict
<1>9. SameBins(m, w)
  BY <1>6, <1>8 DEF SameBins
<1>10. RingsFit(m, r)
  BY <1>3 DEF Fit
<1>11. DOMAIN r = ChunkSizes
  BY DEF StoreInv
<1> HIDE DEF r
<1>12. TreesFit(w, e, u) /\ RingsFit(w, r) /\ Nodes(w) = Nodes(m)
  BY <1>4, <1>9, <1>10, SameBinsFit
<1>13. Fit(w, r)
  BY <1>12 DEF Fit
<1>14. bins' = w /\ arrived' = r
  BY DEF TakeOut, w, m, r
<1>15. Nodes(bins') \subseteq Places /\ Nodes(bins') \subseteq DOMAIN (bins').head
  BY <1>3, <1>7, <1>8, <1>12, <1>14
<1> QED
  BY <1>11, <1>13, <1>14, <1>15 DEF StoreInv, Stored, Nodes
-----------------------------------------------------------------------------
(* What is chosen from a store is in it.                                    *)
LEMMA ChosenAreStored ==
    ASSUME StoreInv
    PROVE  /\ \A nb \in ChunkSizes : best_fit(bins, nb) # NULL => best_fit(bins, nb) \in Stored
           /\ Stored # {} => least_chunk(bins) \in Stored
<1>1. PICK d, top : TreesFit(bins, d, top)
  BY DEF StoreInv, Fit
<1>2. RingsFit(bins, arrived)
  BY DEF StoreInv, Fit
<1>3. ASSUME NEW nb \in ChunkSizes, best_fit(bins, nb) # NULL PROVE best_fit(bins, nb) \in Stored
  <2>1. BestOf(bins, Holders(bins, nb), best_fit(bins, nb))
    BY <1>1, <1>2, BestFitFits, SizesOfStore
  <2> QED
    BY <1>3, <2>1 DEF BestOf, Holders, Nodes, Stored
<1>4. ASSUME Stored # {} PROVE least_chunk(bins) \in Stored
  <2>1. BestOf(bins, Nodes(bins), least_chunk(bins))
    BY <1>1, <1>2, <1>4, LeastChunkFits DEF Nodes, Stored
  <2> QED
    BY <1>4, <2>1 DEF BestOf, Nodes, Stored
<1> QED
  BY <1>3, <1>4

(* Whatever happens to the store: trees and rings stay sound.               *)
THEOREM StoreIsSound == Spec => []StoreInv
<1>1. StoreInv /\ [Next]_vars => StoreInv'
  <2> SUFFICES ASSUME StoreInv, [Next]_vars PROVE StoreInv'
    OBVIOUS
  <2>1. CASE \E x \in Places, s \in ChunkSizes : Insert(x, s)
    BY <2>1, InsertKeeps
  <2>2. CASE \E x \in Stored : Unlink(x)
    BY <2>2, TakeOutKeeps DEF Unlink
  <2>3. CASE \E nb \in ChunkSizes : TakeBestFit(nb)
    BY <2>3, ChosenAreStored, TakeOutKeeps DEF TakeBestFit
  <2>4. CASE TakeLeast
    BY <2>4, ChosenAreStored, TakeOutKeeps DEF TakeLeast
  <2>5. CASE UNCHANGED vars
    <3>1. bins' = bins /\ arrived' = arrived
      BY <2>5 DEF vars
    <3> QED
      BY <3>1 DEF StoreInv, Stored
  <2> QED
    BY <2>1, <2>2, <2>3, <2>4, <2>5 DEF Next
<1> QED
  BY <1>1, InitFits, PTL DEF Spec

(* What do_check_tree asserts holds of trees and rings that are sound.      *)
LEMMA StoreIsWellFormed == StoreInv => TreesAreWellFormed
<1> SUFFICES ASSUME StoreInv, NEW x \in Stored
             PROVE  LET n == Links(x)
                        ring == Ring(bins, x)
                    IN  /\ Links(n.fd).bk = x /\ Links(n.bk).fd = x
                        /\ Cardinality({y \in ring : InTree(y)}) = 1
                        /\ \A y \in ring : ChunkSize(bins, y) = ChunkSize(bins, x)
                        /\ n.index = compute_tree_index(ChunkSize(bins, x))
                        /\ \A c \in Range(n.child) \ {NULL} : Links(c).parent = x
                        /\ ~InTree(x) => Range(n.child) = {NULL}
                        /\ n.parent = IN_BIN => bins.treebin[n.index] = x
                        /\ n.parent \in Stored => x \in Range(Links(n.parent).child)
                        /\ NULL \notin Range(n.child) =>
                              ChunkSize(bins, n.child[0]) < ChunkSize(bins, n.child[1])
  BY DEF TreesAreWellFormed
<1> DEFINE n == bins.node[x]
           ring == Ring(bins, x)
<1>1. PICK d, top : TreesFit(bins, d, top)
  BY DEF StoreInv, Fit
<1>2. RingsFit(bins, arrived) /\ x \in Nodes(bins) /\ BinsTyped(bins) /\ NodeFits(bins, d, x)
  BY <1>1 DEF StoreInv, Fit, Stored, Nodes, TreesFit
<1>3. bins.node[n.fd].bk = x /\ bins.node[n.bk].fd = x
  BY <1>2, RingLinks
<1>4. ring = SameSize(bins, x)
  BY <1>2, RingHasItsSize
<1>5. Cardinality({y \in ring : InTree(y)}) = 1
  <2>1. PICK t : IsTreed(bins, t) /\ ChunkSize(bins, t) = ChunkSize(bins, x)
    BY <1>2, TreedOfSize
  <2>2. {y \in ring : InTree(y)} = {t}
    <3>1. t \in ring /\ InTree(t)
      BY <1>4, <2>1 DEF SameSize, IsTreed, InTree, Links
    <3>2. ASSUME NEW y \in ring, InTree(y) PROVE y = t
      <4>1. IsTreed(bins, y) /\ ChunkSize(bins, y) = ChunkSize(bins, t)
        BY <1>4, <2>1, <3>2 DEF SameSize, IsTreed, InTree, Links
      <4> QED
        BY <1>2, <2>1, <4>1, OneOfASize
    <3> HIDE DEF ring
    <3> QED
      BY <3>1, <3>2
  <2> QED
    BY <2>2, FS_Singleton
<1>6. \A y \in ring : ChunkSize(bins, y) = ChunkSize(bins, x)
  BY <1>4 DEF SameSize
<1>7. n.child \in [0 .. 1 -> Nodes(bins) \cup {NULL}]
  BY <1>2 DEF BinsTyped, NodeType
<1>8. Range(n.child) = {n.child[0], n.child[1]}
  BY <1>7 DEF Range
<1>9. \A c \in Range(n.child) \ {NULL} : bins.node[c].parent = x
  <2>1. \A z \in 0 .. 1 : n.child[z] # NULL => bins.node[n.child[z]].parent = x
    BY <1>2 DEF NodeFits, ChildFits
  <2> HIDE DEF n
  <2> QED
    BY <1>8, <2>1
<1>10. n.parent = NULL => Range(n.child) = {NULL}
  <2>1. \A z \in 0 .. 1 : n.child[z] # NULL => n.parent # NULL
    BY <1>2 DEF NodeFits, ChildFits, IsTreed
  <2> HIDE DEF n
  <2> QED
    BY <1>8, <2>1
<1>11. n.parent \in Nodes(bins) => x \in Range(bins.node[n.parent].child)
  <2> SUFFICES ASSUME n.parent \in Nodes(bins) PROVE x \in Range(bins.node[n.parent].child)
    OBVIOUS
  <2>1. PICK z \in 0 .. 1 : bins.node[n.parent].child[z] = x
    BY <1>2 DEF NodeFits
  <2>2. bins.node[n.parent].child \in [0 .. 1 -> Nodes(bins) \cup {NULL}]
    BY <1>2 DEF BinsTyped, NodeType
  <2> QED
    BY <2>1, <2>2 DEF Range
<1>12. ASSUME NULL \notin Range(n.child)
       PROVE  ChunkSize(bins, n.child[0]) < ChunkSize(bins, n.child[1])
  <2> DEFINE b == Branch(bins, d, x)
             s == ChunkSize(bins, n.child[0])
             t == ChunkSize(bins, n.child[1])
             u == ChunkSize(bins, x)
  <2>1. n.child[0] # NULL /\ n.child[1] # NULL
    BY <1>8, <1>12
  <2>2. /\ n.child[0] \in Nodes(bins) /\ n.child[1] \in Nodes(bins)
        /\ ChildFits(bins, d, x, 0, n.child[0]) /\ ChildFits(bins, d, x, 1, n.child[1])
    BY <1>2, <1>7, <2>1 DEF NodeFits
  <2>3. /\ s \in Sizes /\ t \in Sizes /\ b \in Int
        /\ Agree(s, u, b) /\ Agree(t, u, b) /\ Bit(s, b) = 0 /\ Bit(t, b) = 1
    BY <1>1, <1>2, <2>2, BranchIsInt DEF ChildFits, BinsTyped
  <2> HIDE DEF b, s, t, u
  <2>4. s < t
    BY <2>3, BitsOrder
  <2> QED
    BY <2>4 DEF s, t
<1>13. n.index = compute_tree_index(ChunkSize(bins, x))
       /\ (n.parent = IN_BIN => bins.treebin[n.index] = x)
  BY <1>2 DEF NodeFits
<1> HIDE DEF n, ring
<1>14. Links(x) = n /\ (InTree(x) <=> n.parent # NULL) /\ Stored = Nodes(bins)
       /\ \A y : Links(y) = bins.node[y]
  BY DEF Links, InTree, Stored, Nodes, n
<1> QED
  BY <1>3, <1>5, <1>6, <1>9, <1>10, <1>11, <1>12, <1>13, <1>14 DEF ring

(* The trees of the store stay well-formed whatever comes and goes in what  *)
(* order, every chunk is found by its size, and the oldest of each size is  *)
(* the one a search returns (insert_large_chunk, unlink_large_chunk).       *)
THEOREM TreesStaySound == Spec => []TreesAreSound
<1>1. StoreInv => EveryChunkIsFound
  <2> SUFFICES ASSUME StoreInv PROVE EveryChunkIsFound
    OBVIOUS
  <2>1. PICK d, top : TreesFit(bins, d, top)
    BY DEF StoreInv, Fit
  <2>2. RingsFit(bins, arrived)
    BY DEF StoreInv, Fit
  <2>3. \A x \in Stored : tree_find(bins, x)
    BY <2>1, <2>2, EveryNodeIsFound DEF Stored, Nodes
  <2>4. \A i \in DOMAIN bins.treebin : i \in bins.treemap <=> bins.treebin[i] # NULL
    BY <2>1 DEF TreesFit, BinsTyped
  <2> QED
    BY <2>3, <2>4 DEF EveryChunkIsFound
<1>2. StoreInv => OldestIsInTree
  <2> SUFFICES ASSUME StoreInv, NEW x \in Stored, InTree(x)
               PROVE  Head(arrived[ChunkSize(bins, x)]) = x
    BY DEF OldestIsInTree
  <2>1. IsTreed(bins, x) /\ RingsFit(bins, arrived)
    BY DEF StoreInv, Fit, IsTreed, InTree, Links, Stored, Nodes
  <2>2. arrived[ChunkSize(bins, x)][1] = x
    BY <2>1, OneOfASize
  <2> QED
    BY <2>2
<1>3. StoreInv => TreesAreSound
  BY <1>1, <1>2, StoreIsWellFormed DEF TreesAreSound
<1> QED
  BY <1>3, StoreIsSound, PTL

(* Of all chunks of the store the searches find a smallest that fits, and   *)
(* none only when there is none (tmalloc_large, tmalloc_small).             *)
THEOREM SearchesStayBestFit == Spec => []SearchesAreBestFit
<1>1. StoreInv => SearchesAreBestFit
  <2> SUFFICES ASSUME StoreInv PROVE SearchesAreBestFit
    OBVIOUS
  <2>1. PICK d, top : TreesFit(bins, d, top)
    BY DEF StoreInv, Fit
  <2>2. RingsFit(bins, arrived)
    BY DEF StoreInv, Fit
  <2>3. ASSUME NEW nb \in ChunkSizes
        PROVE  BestOf(bins, Holding(nb), best_fit(bins, nb))
    <3>1. BestOf(bins, Holders(bins, nb), best_fit(bins, nb))
      BY <2>1, <2>2, BestFitFits, SizesOfStore
    <3>2. Holders(bins, nb) = Holding(nb)
      BY DEF Holders, Holding, Stored, Nodes
    <3> QED
      BY <3>1, <3>2
  <2>4. Stored # {} => BestOf(bins, Stored, least_chunk(bins))
    BY <2>1, <2>2, LeastChunkFits DEF Stored, Nodes
  <2>5. \A nb \in ChunkSizes :
           LET x == best_fit(bins, nb) IN
           IF Holding(nb) = {} THEN x = NULL
           ELSE /\ x \in Holding(nb)
                /\ \A y \in Holding(nb) : ChunkSize(bins, x) <= ChunkSize(bins, y)
    BY <2>3 DEF BestOf
  <2>6. Stored # {} =>
           \A y \in Stored : ChunkSize(bins, least_chunk(bins)) <= ChunkSize(bins, y)
    BY <2>4 DEF BestOf
  <2> QED
    BY <2>5, <2>6 DEF SearchesAreBestFit
<1> QED
  BY <1>1, StoreIsSound, PTL
=============================================================================
