--------------------------- MODULE ClassHierarchy ---------------------------
(* What the metaclass system promises, without the lists and counters it    *)
(* keeps the promise with: classes are numbered one at a time, bases before *)
(* derived classes, a number is never taken back, and from the moment a     *)
(* class has its number the system knows exactly the base classes it has.   *)
(* Once the system is open nothing changes any more. MetaSystem implements  *)
(* this specification.                                                      *)
EXTENDS Inheritance

VARIABLES
    parent,     \* the registered hierarchy
    number,     \* the number of each class, -1 while it has none
    count,      \* how many numbers were given
    derives,    \* the pairs <<c, d>> such that c can be cast to its base d
    open        \* TRUE once the system is in use

vars == <<parent, number, count, derives, open>>

Init ==
    /\ parent \in Forests
    /\ number = [c \in Classes |-> -1]
    /\ count = 0
    /\ derives = {}
    /\ open = FALSE

(* c derives from its parent, and from whatever its parent derives from.    *)
Inherited(c) ==
    IF parent[c] = NoClass
    THEN {}
    ELSE {c} \X {d \in Classes : d = parent[c] \/ <<parent[c], d>> \in derives}

(* A class without a parent, or below one that has its number, gets the     *)
(* next number and is known from now on with all its bases.                 *)
Register(c) ==
    /\ ~open
    /\ number[c] = -1
    /\ parent[c] # NoClass => number[parent[c]] # -1
    /\ number' = [number EXCEPT ![c] = count]
    /\ count' = count + 1
    /\ derives' = derives \cup Inherited(c)
    /\ UNCHANGED <<parent, open>>

(* The system can be used once every class has its number.                  *)
Open ==
    /\ ~open
    /\ \A c \in Classes : number[c] # -1
    /\ open' = TRUE
    /\ UNCHANGED <<parent, number, count, derives>>

Next == Open \/ \E c \in Classes : Register(c)

Spec == Init /\ [][Next]_vars
-----------------------------------------------------------------------------
(* The ranges of the five variables.                                        *)
TypeOK ==
    /\ parent \in ParentMaps
    /\ number \in [Classes -> Int]
    /\ count \in Nat
    /\ derives \subseteq Classes \X Classes
    /\ open \in BOOLEAN

(* Only numbered classes derive from anything, and a parent is numbered     *)
(* before its children: what DerivesFromBases needs to be inductive.        *)
NumberedFirst ==
    /\ \A e \in derives : number[e[1]] # -1
    /\ \A c \in Classes :
          number[c] # -1 /\ parent[c] # NoClass => number[parent[c]] # -1

(* A class with a number derives from exactly the classes the parent links  *)
(* lead to: the question DynamicCast asks has the answer C++ would give.    *)
DerivesFromBases ==
    \A c, d \in Classes :
        number[c] # -1 => (<<c, d>> \in derives <=> IsBaseOf(parent, d, c))
=============================================================================
