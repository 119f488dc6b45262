---------------------------- MODULE Inheritance ----------------------------
(* Single inheritance between metaclasses. A metaclass carries one function *)
(* that returns its parent (MetaClass::m_parent, Meta.hpp:1135), and        *)
(* nullptr when it was registered without one. The operators below are the  *)
(* reference meaning of "is a base class of": they follow m_parent and know *)
(* nothing of the topology ids the code answers that question with.         *)
EXTENDS Integers

CONSTANTS
    Classes,    \* the registered metaclasses
    NoClass     \* nullptr, the parent of a class registered without one

ASSUME NoClassAssumption == NoClass \notin Classes

(* The parents a program can register: a class can only name classes that   *)
(* C++ already made its bases, so no set of classes is closed in a cycle.   *)
ParentMaps == [Classes -> Classes \cup {NoClass}]

IsForest(parent) ==
    \A S \in SUBSET Classes : S # {} => \E c \in S : parent[c] \notin S

Forests == {parent \in ParentMaps : IsForest(parent)}

(* S holds the parent of each of its members.                               *)
ClosedUpwards(parent, S) ==
    \A c \in S : parent[c] # NoClass => parent[c] \in S

(* c and everything above it: the least upwards closed set that holds c.    *)
Ancestors(parent, c) ==
    {d \in Classes : \A S \in SUBSET Classes :
                        c \in S /\ ClosedUpwards(parent, S) => d \in S}

(* d is a proper base class of c.                                           *)
IsBaseOf(parent, d, c) == d \in Ancestors(parent, c) \ {c}
=============================================================================
