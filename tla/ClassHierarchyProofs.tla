------------------------ MODULE ClassHierarchyProofs ------------------------
(* The abstract registration of a hierarchy keeps its promise for every set *)
(* of classes and every hierarchy.                                          *)
EXTENDS ClassHierarchy, TLAPS

(* A class is among its own ancestors, which are classes and hold the       *)
(* parent of each of them.                                                  *)
LEMMA AncestorsAreClosed ==
    ASSUME NEW up \in ParentMaps, NEW c \in Classes
    PROVE  /\ c \in Ancestors(up, c)
           /\ Ancestors(up, c) \subseteq Classes
           /\ ClosedUpwards(up, Ancestors(up, c))
<1>1. c \in Ancestors(up, c)
  BY DEF Ancestors
<1>2. Ancestors(up, c) \subseteq Classes
  BY DEF Ancestors
<1>3. ClosedUpwards(up, Ancestors(up, c))
  <2> SUFFICES ASSUME NEW d \in Ancestors(up, c), up[d] # NoClass
               PROVE  up[d] \in Ancestors(up, c)
    BY DEF ClosedUpwards
  <2>1. up[d] \in Classes
    BY <1>2 DEF ParentMaps
  <2>2. ASSUME NEW S \in SUBSET Classes, c \in S, ClosedUpwards(up, S)
        PROVE  up[d] \in S
    BY <2>2 DEF Ancestors, ClosedUpwards
  <2> QED
    BY <2>1, <2>2 DEF Ancestors
<1> QED
  BY <1>1, <1>2, <1>3

(* They are the least such set.                                             *)
LEMMA AncestorsAreLeast ==
    ASSUME NEW up, NEW c, NEW S \in SUBSET Classes,
           c \in S, ClosedUpwards(up, S)
    PROVE  Ancestors(up, c) \subseteq S
  BY DEF Ancestors

(* A root has no other ancestor than itself.                                *)
LEMMA AncestorsOfRoot ==
    ASSUME NEW up \in ParentMaps, NEW c \in Classes, up[c] = NoClass
    PROVE  Ancestors(up, c) = {c}
<1>1. ClosedUpwards(up, {c})
  BY DEF ClosedUpwards
<1>2. Ancestors(up, c) \subseteq {c}
  BY <1>1, AncestorsAreLeast
<1> QED
  BY <1>2, AncestorsAreClosed

(* Any other class has itself and the ancestors of its parent.              *)
LEMMA AncestorsOfChild ==
    ASSUME NEW up \in ParentMaps, NEW c \in Classes, up[c] # NoClass
    PROVE  Ancestors(up, c) = {c} \cup Ancestors(up, up[c])
<1> DEFINE p == up[c]
           S == {c} \cup Ancestors(up, p)
<1>1. p \in Classes
  BY DEF ParentMaps
<1>2. /\ p \in Ancestors(up, p)
      /\ Ancestors(up, p) \subseteq Classes
      /\ ClosedUpwards(up, Ancestors(up, p))
  BY <1>1, AncestorsAreClosed
<1>3. S \in SUBSET Classes /\ ClosedUpwards(up, S)
  BY <1>2 DEF ClosedUpwards
<1>4. Ancestors(up, c) \subseteq S
  <2> HIDE DEF S
  <2>1. c \in S
    BY DEF S
  <2> QED
    BY <2>1, <1>3, AncestorsAreLeast
<1>5. /\ c \in Ancestors(up, c)
      /\ Ancestors(up, c) \in SUBSET Classes
      /\ ClosedUpwards(up, Ancestors(up, c))
  BY AncestorsAreClosed
<1>6. p \in Ancestors(up, c)
  BY <1>5 DEF ClosedUpwards
<1>7. Ancestors(up, p) \subseteq Ancestors(up, c)
  BY <1>5, <1>6, AncestorsAreLeast
<1> QED
  BY <1>4, <1>5, <1>7

-----------------------------------------------------------------------------
Promise == TypeOK /\ NumberedFirst /\ DerivesFromBases

(* Before any class is registered nothing derives from anything.            *)
LEMMA PromiseInit == Init => Promise
<1>1. Init => TypeOK
  <2>1. Init => parent \in ParentMaps /\ number \in [Classes -> Int]
    BY DEF Init, Forests
  <2>2. Init => count \in Nat /\ derives \subseteq Classes \X Classes
    BY DEF Init
  <2>3. Init => open \in BOOLEAN
    BY DEF Init
  <2> QED
    BY <2>1, <2>2, <2>3 DEF TypeOK
<1>2. Init => NumberedFirst
  BY DEF Init, NumberedFirst
<1>3. Init => DerivesFromBases
  BY DEF Init, DerivesFromBases
<1> QED
  BY <1>1, <1>2, <1>3 DEF Promise

(* The classes above a registered class are registered: the registered      *)
(* classes are closed upwards, so a class that gets its number only now is  *)
(* above none of them.                                                      *)
LEMMA NewClassIsAboveNone ==
    ASSUME TypeOK, NumberedFirst, NEW c \in Classes, number[c] = -1,
           NEW p \in Classes, number[p] # -1
    PROVE  c \notin Ancestors(parent, p)
<1> DEFINE R == {d \in Classes : number[d] # -1}
<1>1. p \in R /\ c \notin R /\ R \in SUBSET Classes
  OBVIOUS
<1>2. ClosedUpwards(parent, R)
  BY DEF ClosedUpwards, NumberedFirst, TypeOK, ParentMaps
<1> QED
  BY <1>1, <1>2, AncestorsAreLeast

(* A registered class inherits what its parent derives from, and no pair of *)
(* another class changes: every step keeps the promise.                     *)
LEMMA PromiseStep == Promise /\ [Next]_vars => Promise'
<1> SUFFICES ASSUME Promise, [Next]_vars PROVE Promise'
  OBVIOUS
<1> USE DEF Promise
<1>1. CASE UNCHANGED vars
  BY <1>1 DEF vars, TypeOK, NumberedFirst, DerivesFromBases
<1>2. CASE Open
  BY <1>2 DEF Open, TypeOK, NumberedFirst, DerivesFromBases
<1>3. ASSUME NEW c \in Classes, Register(c) PROVE Promise'
  <2> DEFINE p == parent[c]
  <2>1. parent' = parent /\ parent \in ParentMaps
    BY <1>3 DEF Register, TypeOK
  <2>2. Inherited(c) \subseteq {c} \X Classes
    BY DEF Inherited
  <2>3. TypeOK'
    BY <1>3, <2>2 DEF Register, TypeOK
  <2>4. number[c] = -1 /\ number'[c] # -1
    BY <1>3 DEF Register, TypeOK
  <2>5. \A d \in Classes : d # c => number'[d] = number[d]
    BY <1>3 DEF Register, TypeOK
  <2>6. derives' = derives \cup Inherited(c)
    BY <1>3 DEF Register
  <2>7. NumberedFirst'
    <3>1. \A e \in derives' : number'[e[1]] # -1
      BY <2>2, <2>4, <2>5, <2>6 DEF NumberedFirst, TypeOK
    <3>2. p # NoClass => p \in Classes /\ p # c /\ number[p] # -1
      BY <1>3, <2>1 DEF Register, ParentMaps
    <3>3. ASSUME NEW d \in Classes, number'[d] # -1, parent[d] # NoClass
          PROVE  number'[parent[d]] # -1
      <4>1. parent[d] \in Classes
        BY <2>1, <3>3 DEF ParentMaps
      <4> QED
        BY <2>4, <2>5, <3>2, <3>3, <4>1 DEF NumberedFirst
    <3> QED
      BY <2>1, <3>1, <3>3 DEF NumberedFirst
  <2>8. DerivesFromBases'
    <3> SUFFICES ASSUME NEW x \in Classes, NEW d \in Classes, number'[x] # -1
                 PROVE  <<x, d>> \in derives' <=> IsBaseOf(parent, d, x)
      BY <2>1 DEF DerivesFromBases
    <3>1. CASE x # c
      BY <2>2, <2>5, <2>6, <3>1 DEF DerivesFromBases
    <3>2. CASE x = c
      <4>1. <<c, d>> \notin derives
        BY <2>4 DEF NumberedFirst
      <4>2. CASE p = NoClass
        BY <2>1, <2>6, <3>2, <4>1, <4>2, AncestorsOfRoot
        DEF Inherited, IsBaseOf
      <4>3. CASE p # NoClass
        <5>1. p \in Classes /\ number[p] # -1
          BY <1>3, <2>1, <4>3 DEF Register, ParentMaps
        <5>2. c \notin Ancestors(parent, p)
          BY <2>4, <5>1, NewClassIsAboveNone
        <5>3. Ancestors(parent, c) = {c} \cup Ancestors(parent, p)
          BY <2>1, <4>3, AncestorsOfChild
        <5>4. p \in Ancestors(parent, p)
          BY <2>1, <5>1, AncestorsAreClosed
        <5>5. <<p, d>> \in derives <=> d \in Ancestors(parent, p) \ {p}
          BY <5>1 DEF DerivesFromBases, IsBaseOf
        <5>6. <<c, d>> \in derives' <=> d = p \/ <<p, d>> \in derives
          BY <2>6, <4>1, <4>3 DEF Inherited
        <5> QED
          BY <3>2, <5>2, <5>3, <5>4, <5>5, <5>6 DEF IsBaseOf
      <4> QED
        BY <4>2, <4>3
    <3> QED
      BY <3>1, <3>2
  <2> QED
    BY <2>3, <2>7, <2>8
<1> QED
  BY <1>1, <1>2, <1>3 DEF Next

(* In every reachable state a class derives, by the pairs the system keeps, *)
(* from exactly the classes its parent links lead to.                       *)
THEOREM DerivesCorrect == Spec => [](TypeOK /\ NumberedFirst /\ DerivesFromBases)
<1>1. Spec => []Promise
  BY PromiseInit, PromiseStep, PTL DEF Spec
<1> QED
  BY <1>1 DEF Promise
=============================================================================
