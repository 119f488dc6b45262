----------------------------- MODULE MCMetaCast -----------------------------
(* Instances of MetaCast for TLC: the system object and one object, which   *)
(* carries the id of c1 and may be of a class below it.                     *)
EXTENDS MetaCast, TLC

CONSTANTS void, sys, c1, c2, num, o1, o2

MCClasses == {void, sys, c1, c2}
MCTypes == MCClasses \cup {num}
MCObjects == {o1, o2}
MCClassOf == (o1 :> sys) @@ (o2 :> c1)
NoFunctionClass == [f \in {} |-> sys]
NoFunctionTypes == [f \in {} |-> {}]

OnlyVoid == {void}
=============================================================================
