---------------------------- MODULE MCLuaBridge ----------------------------
(* An instance of LuaBridge for TLC: Object, two classes below it, Heap,    *)
(* and two objects a script may make, which carry the ids of bases.         *)
EXTENDS LuaBridge, TLC

CONSTANTS void, sys, root, base, derived, heap, o1, o2, o3, h1

MCClasses == {void, sys, root, base, derived, heap}
MCObjects == {o1, o2, o3}
MCClassOf == (o1 :> sys) @@ (o2 :> base) @@ (o3 :> root)
MCParent ==
    [c \in MCClasses |-> CASE c = base    -> root
                           [] c = derived -> base
                           [] OTHER       -> NoClass]
MCNumbering ==
    (root :> 0) @@ (base :> 1) @@ (derived :> 2)
      @@ (heap :> 3) @@ (void :> 4) @@ (sys :> 5)
MCForeign == {void}
MCAbstract == {void, root}
NoFunctionClass == [f \in {} |-> sys]
NoFunctionTypes == [f \in {} |-> {}]
=============================================================================
