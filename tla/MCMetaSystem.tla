---------------------------- MODULE MCMetaSystem ----------------------------
(* Instances of MetaSystem for TLC.                                         *)
EXTENDS MetaSystem, TLC

CONSTANTS void, sys, c1, c2, c3, num, o1, o2, f1

MCClasses == {void, sys, c1, c2, c3}
MCTypes == MCClasses \cup {num}

\* The system and an object of the program; a function that takes and returns
\* a value and a pointer to another class.
MCObjects == {o1, o2}
MCClassOf == (o1 :> sys) @@ (o2 :> c1)
MCFunctionClass == f1 :> c1
MCFunctionTypes == f1 :> {num, c2}

\* The capacity run has no object but the system, and no functions.
MCSystemObject == {o1}
MCSystemClassOf == o1 :> sys
NoFunctionClass == [f \in {} |-> sys]
NoFunctionTypes == [f \in {} |-> {}]
=============================================================================
