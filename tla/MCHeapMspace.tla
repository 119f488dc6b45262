---------------------------- MODULE MCHeapMspace ----------------------------
(* An instance of HeapMspace for TLC. The chunks asked for are the smallest *)
(* there are, small ones, large ones (in a tree when free) and ones on a    *)
(* boundary of 64, cut out of larger ones; the area holds two large ones.   *)
EXTENDS HeapMspace

MCMaxSize == pad_request(STATE_SIZE) + TOP_FOOT_SIZE + 480

Ask(size, align) == [size |-> size, align |-> align]

MCRequests == {Ask(24, 8), Ask(104, 8), Ask(248, 8), Ask(104, 64)}
=============================================================================
