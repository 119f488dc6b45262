---------------------------- MODULE MCMetaLists ----------------------------
(* An instance of MetaLists for TLC: two classes with a member function     *)
(* each, of one name, an object off the lists, and the pairs of a chain.    *)
EXTENDS MetaLists
CONSTANTS c1, c2, f1, f2
MCClasses == {c1, c2}
MCFunctions == {f1, f2}
MCClassOf == (f1 :> c1) @@ (f2 :> c2)
MCNameOf == (f1 :> "Run") @@ (f2 :> "Run")
Symmetry == Permutations(Datas) \cup Permutations(Keys) \cup Permutations(Values)
=============================================================================
