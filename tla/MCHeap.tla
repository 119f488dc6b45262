------------------------------- MODULE MCHeap -------------------------------
(* Instances of Heap for TLC: an area of 7 units at 16 or at 32. A request  *)
(* for 2 units takes a chunk of 3 or 4, so two fit when they are packed     *)
(* well and one is enough when they are not. The runtime has an address     *)
(* among the first seven, one right behind an area and one right before     *)
(* one.                                                                     *)
EXTENDS Heap

CONSTANTS t1, t2

OneThread == {t1}
TwoThreads == {t1, t2}

MCBases == {16, 32}
OneBase == {16}
MCStlAddresses == {3, 23, 30}
OneStlAddress == {23}
=============================================================================
