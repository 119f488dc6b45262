---------------------------- MODULE MCTreeStore ----------------------------
(* An instance of TreeStore for TLC, with up to five chunks. The sizes: the *)
(* first bin has five that branch at every level near its root, the next    *)
(* bin has one, and the last bin, which has no upper end, has two.          *)
EXTENDS TreeStore

CONSTANTS p1, p2, p3, p4, p5

MCPlaces == {p1, p2, p3, p4, p5}
PlaceSymmetry == Permutations(MCPlaces)
=============================================================================
