-------------------------- MODULE MetaSystemProofs --------------------------
(* Theorems about MetaSystem, for every set of classes and every hierarchy: *)
(* the numbering, the tables it leaves, and that it implements              *)
(* ClassHierarchy. Then, from the tables, that casts find the object for    *)
(* every hierarchy, layout and order of registration (MetaCast), and what   *)
(* the calls of scripts do: a delete frees the block new got, and two       *)
(* values are equal when they are one object (LuaBridge).                   *)
EXTENDS LuaBridge, SequenceTheorems, FiniteSetTheorems, TLAPS

(* A class is among its own ancestors, which are classes and hold the       *)
(* parent of each of them.                                                  *)
LEMMA AncestorsAreClosed ==
    ASSUME NEW up \in ParentMaps, NEW c \in Classes
    PROVE  /\ c \in Ancestors(up, c)
           /\ Ancestors(up, c) \subseteq Classes
           /\ ClosedUpwards(up, Ancestors(up, c))
<1>1. c \in Ancestors(up, c)
  BY DEF Ancestors
<1>2. Ancestors(up, c) \subseteq Classes
  BY DEF Ancestors
<1>3. ClosedUpwards(up, Ancestors(up, c))
  <2> SUFFICES ASSUME NEW d \in Ancestors(up, c), up[d] # NoClass
               PROVE  up[d] \in Ancestors(up, c)
    BY DEF ClosedUpwards
  <2>1. up[d] \in Classes
    BY <1>2 DEF ParentMaps
  <2>2. ASSUME NEW S \in SUBSET Classes, c \in S, ClosedUpwards(up, S)
        PROVE  up[d] \in S
    BY <2>2 DEF Ancestors, ClosedUpwards
  <2> QED
    BY <2>1, <2>2 DEF Ancestors
<1> QED
  BY <1>1, <1>2, <1>3

(* They are the least such set.                                             *)
LEMMA AncestorsAreLeast ==
    ASSUME NEW up, NEW c, NEW S \in SUBSET Classes,
           c \in S, ClosedUpwards(up, S)
    PROVE  Ancestors(up, c) \subseteq S
  BY DEF Ancestors

(* A root has no other ancestor than itself.                                *)
LEMMA AncestorsOfRoot ==
    ASSUME NEW up \in ParentMaps, NEW c \in Classes, up[c] = NoClass
    PROVE  Ancestors(up, c) = {c}
<1>1. ClosedUpwards(up, {c})
  BY DEF ClosedUpwards
<1>2. Ancestors(up, c) \subseteq {c}
  BY <1>1, AncestorsAreLeast
<1> QED
  BY <1>2, AncestorsAreClosed

(* Any other class has itself and the ancestors of its parent.              *)
LEMMA AncestorsOfChild ==
    ASSUME NEW up \in ParentMaps, NEW c \in Classes, up[c] # NoClass
    PROVE  Ancestors(up, c) = {c} \cup Ancestors(up, up[c])
<1> DEFINE p == up[c]
           S == {c} \cup Ancestors(up, p)
<1>1. p \in Classes
  BY DEF ParentMaps
<1>2. /\ p \in Ancestors(up, p)
      /\ Ancestors(up, p) \subseteq Classes
      /\ ClosedUpwards(up, Ancestors(up, p))
  BY <1>1, AncestorsAreClosed
<1>3. S \in SUBSET Classes /\ ClosedUpwards(up, S)
  BY <1>2 DEF ClosedUpwards
<1>4. Ancestors(up, c) \subseteq S
  <2> HIDE DEF S
  <2>1. c \in S
    BY DEF S
  <2> QED
    BY <2>1, <1>3, AncestorsAreLeast
<1>5. /\ c \in Ancestors(up, c)
      /\ Ancestors(up, c) \in SUBSET Classes
      /\ ClosedUpwards(up, Ancestors(up, c))
  BY AncestorsAreClosed
<1>6. p \in Ancestors(up, c)
  BY <1>5 DEF ClosedUpwards
<1>7. Ancestors(up, p) \subseteq Ancestors(up, c)
  BY <1>5, <1>6, AncestorsAreLeast
<1> QED
  BY <1>4, <1>5, <1>7

-----------------------------------------------------------------------------
(* Every reachable state has its type.                                      *)
LEMMA TypeInit == Init => TypeOK
  BY RegistrationAssumption, SMTT(20)
  DEF Init, TypeOK, Forests, ParentMaps, Phases, Ids

(* Every action keeps the type; one step for each action of Next.           *)
LEMMA TypeStep == TypeOK /\ [Next]_vars => TypeOK'
<1> SUFFICES ASSUME TypeOK, [Next]_vars PROVE TypeOK'
  OBVIOUS
<1> USE RegistrationAssumption DEF TypeOK, Phases, ParentMaps, registry,
    numbering, control, functions, objects
<1>1. CASE UNCHANGED vars
  BY <1>1 DEF vars
<1>2. ASSUME NEW o \in Objects, Construct(o) PROVE TypeOK'
  BY <1>2 DEF Construct, MetaClassId
<1>3. ASSUME NEW o \in Objects, Initialize(o) PROVE TypeOK'
  BY <1>3 DEF Initialize
<1>4. ASSUME NEW t \in Types, CopyType(t) PROVE TypeOK'
  BY <1>4 DEF CopyType
<1>5. CASE FillTable
  BY <1>5 DEF FillTable
<1>6. ASSUME NEW c \in Classes, Visit(c) PROVE TypeOK'
  BY <1>6 DEF Visit
<1>7. CASE EarlyReturn
  <2>1. stack' \in Seq(Classes)
    BY <1>7 DEF EarlyReturn
  <2> QED
    BY <1>7, <2>1 DEF EarlyReturn
<1>8. CASE Descend
  <2>1. Head(stack) \in Classes /\ parent[Head(stack)] \in Classes
    BY <1>8 DEF Descend
  <2>2. stack' \in Seq(Classes)
    BY <1>8, <2>1 DEF Descend
  <2> QED
    BY <1>8, <2>2 DEF Descend
<1>9. ASSUME NEW c \in Classes, Number(c) PROVE TypeOK'
  <2> DEFINE p == parent[c]
  <2>1. p # NoClass => p \in Classes
    OBVIOUS
  <2>2. TopoOrderWith(p) \in [Classes -> Int]
    BY <2>1 DEF TopoOrderWith, BecomesBase
  <2>3. BaseTopoIdsWith(p) \in [Classes -> SUBSET Int]
    BY <2>1 DEF BaseTopoIdsWith, BecomesBase
  <2>4. stack' \in Seq(Classes)
    BY <1>9 DEF Number, AboutToNumber
  <2>5. baseTopoIds' \in [Classes -> SUBSET Int]
    BY <1>9, <2>1, <2>3 DEF Number, InheritedList
  <2>6. globalId' \in [Classes -> Int] /\ nextGlobalId' \in Nat
    BY <1>9 DEF Number
  <2>7. topoOrder' \in [Classes -> Int]
    BY <1>9, <2>2 DEF Number
  <2>8. nextTopoId' \in Nat
    BY <1>9 DEF Number
  <2> QED
    BY <1>9, <2>4, <2>5, <2>6, <2>7, <2>8 DEF Number
<1>10. ASSUME NEW c \in Classes, TooManyClasses(c) PROVE TypeOK'
  BY <1>10 DEF TooManyClasses
<1>11. CASE Store
  BY <1>11 DEF Store
<1>12. ASSUME NEW f \in Functions, BindFunction(f) PROVE TypeOK'
  <2>1. ASSUME NEW t \in FunctionTypes[f]
        PROVE  Active(t) \in [type : Types, copy : BOOLEAN]
    <3>1. t \in Types
      OBVIOUS
    <3>2. (t \in copied) \in BOOLEAN
      OBVIOUS
    <3> QED
      BY <3>1, <3>2, Zenon DEF Active
  <2>2. signature' \in [Functions -> SUBSET [type : Types, copy : BOOLEAN]]
    BY <1>12, <2>1 DEF BindFunction
  <2> QED
    BY <1>12, <2>2 DEF BindFunction
<1>13. CASE Finish
  <2>1. MetaClassId(SystemClass) \in Int
    BY DEF MetaClassId
  <2>2. classIdOf' \in [Objects -> Int]
    BY <1>13, <2>1 DEF Finish
  <2> QED
    BY <1>13, <2>2 DEF Finish
<1> QED
  BY <1>1, <1>2, <1>3, <1>4, <1>5, <1>6, <1>7, <1>8, <1>9, <1>10, <1>11,
     <1>12, <1>13 DEF Next, InitializeStep

(* Every variable keeps its type: see TypeOK in MetaSystem. *)
THEOREM TypeCorrect == Spec => []TypeOK
  BY TypeInit, TypeStep, PTL DEF Spec
-----------------------------------------------------------------------------
(* A numbered class has only known bases above it: they are all numbered,   *)
(* and all have their topology id.                                          *)
LEMMA AncestorsAreKnownBases ==
    ASSUME TypeOK, ParentsAreKnownBases, NEW c \in Classes, Numbered(c),
           NEW d \in Ancestors(parent, c), d # c
    PROVE  Numbered(d) /\ topoOrder[d] # -1
<1> DEFINE S == {x \in Classes : Numbered(x) /\ (x = c \/ topoOrder[x] # -1)}
<1>1. S \in SUBSET Classes /\ c \in S
  OBVIOUS
<1>2. ClosedUpwards(parent, S)
  BY DEF ClosedUpwards, ParentsAreKnownBases, TypeOK, ParentMaps
<1>3. d \in S
  <2> HIDE DEF S
  <2> QED
    BY <1>1, <1>2, AncestorsAreLeast
<1> QED
  BY <1>3

(* The effect of Number, with the three cases of its parent told apart.     *)
LEMMA NumberCases ==
    ASSUME TypeOK, NEW c \in Classes, Number(c)
    PROVE  /\ ~Numbered(c)
           /\ parent' = parent
           /\ globalId' = [globalId EXCEPT ![c] = nextGlobalId]
           /\ nextGlobalId' = nextGlobalId + 1
           /\ parent[c] # NoClass => /\ parent[c] \in Classes
                                     /\ parent[c] # c
                                     /\ Numbered(parent[c])
           /\ \/ /\ parent[c] = NoClass
                 /\ topoOrder' = topoOrder
                 /\ nextTopoId' = nextTopoId
                 /\ baseTopoIds' = [baseTopoIds EXCEPT ![c] = {}]
              \/ /\ parent[c] # NoClass
                 /\ topoOrder[parent[c]] # -1
                 /\ topoOrder' = topoOrder
                 /\ nextTopoId' = nextTopoId
                 /\ baseTopoIds' = [baseTopoIds EXCEPT
                                      ![c] = baseTopoIds[parent[c]]]
              \/ /\ parent[c] # NoClass
                 /\ topoOrder[parent[c]] = -1
                 /\ topoOrder' = [topoOrder EXCEPT ![parent[c]] = nextTopoId]
                 /\ nextTopoId' = nextTopoId + 1
                 /\ baseTopoIds' =
                      [baseTopoIds EXCEPT
                         ![parent[c]] = baseTopoIds[parent[c]] \cup {nextTopoId},
                         ![c] = baseTopoIds[parent[c]] \cup {nextTopoId}]
<1>1. /\ ~Numbered(c)
      /\ parent' = parent
      /\ globalId' = [globalId EXCEPT ![c] = nextGlobalId]
      /\ nextGlobalId' = nextGlobalId + 1
  BY DEF Number, AboutToNumber, registry
<1>2. parent[c] # NoClass => /\ parent[c] \in Classes
                             /\ parent[c] # c
                             /\ Numbered(parent[c])
  BY DEF Number, AboutToNumber, TypeOK, ParentMaps
<1>3. CASE parent[c] = NoClass
  BY <1>1, <1>2, <1>3 DEF Number, TopoOrderWith, BaseTopoIdsWith, InheritedList,
                       BecomesBase
<1>4. CASE parent[c] # NoClass /\ topoOrder[parent[c]] # -1
  BY <1>1, <1>2, <1>4 DEF Number, TopoOrderWith, BaseTopoIdsWith, InheritedList,
                       BecomesBase
<1>5. CASE parent[c] # NoClass /\ topoOrder[parent[c]] = -1
  <2>1. /\ topoOrder' = [topoOrder EXCEPT ![parent[c]] = nextTopoId]
        /\ nextTopoId' = nextTopoId + 1
    BY <1>5 DEF Number, TopoOrderWith, BecomesBase
  <2>2. BaseTopoIdsWith(parent[c]) =
          [baseTopoIds EXCEPT
             ![parent[c]] = baseTopoIds[parent[c]] \cup {nextTopoId}]
    BY <1>5 DEF BaseTopoIdsWith, BecomesBase
  <2>3. baseTopoIds' =
          [baseTopoIds EXCEPT
             ![parent[c]] = baseTopoIds[parent[c]] \cup {nextTopoId},
             ![c] = baseTopoIds[parent[c]] \cup {nextTopoId}]
    BY <1>2, <1>5, <2>2 DEF Number, InheritedList, TypeOK
  <2> QED
    BY <1>1, <1>2, <1>5, <2>1, <2>3
<1> QED
  BY <1>3, <1>4, <1>5

(* Numbering a class keeps each part of the invariant.                      *)
LEMMA NumberKeepsIds ==
    ASSUME TypeOK, NumberingInv, NEW c \in Classes, Number(c)
    PROVE  IdsAreGivenOnce'
<1> USE DEF TypeOK, Numbered
<1>1. /\ IdsAreGivenOnce /\ ListsHoldGivenIds
      /\ globalId[c] = -1
      /\ globalId' = [globalId EXCEPT ![c] = nextGlobalId]
      /\ nextGlobalId' = nextGlobalId + 1
  BY NumberCases DEF NumberingInv
<1>2. \/ topoOrder' = topoOrder /\ nextTopoId' = nextTopoId
      \/ /\ parent[c] \in Classes
         /\ topoOrder' = [topoOrder EXCEPT ![parent[c]] = nextTopoId]
         /\ nextTopoId' = nextTopoId + 1
  BY NumberCases
<1>3. ASSUME NEW x \in Classes
      PROVE  /\ Numbered(x)' => globalId'[x] \in 0 .. nextGlobalId' - 1
             /\ topoOrder'[x] # -1 => topoOrder'[x] \in 0 .. nextTopoId' - 1
  <2>1. Numbered(x)' => globalId'[x] \in 0 .. nextGlobalId' - 1
    BY <1>1 DEF IdsAreGivenOnce
  <2>2. topoOrder'[x] # -1 => topoOrder'[x] \in 0 .. nextTopoId' - 1
    BY <1>1, <1>2 DEF IdsAreGivenOnce
  <2> QED
    BY <2>1, <2>2
<1>4. ASSUME NEW x \in Classes, NEW y \in Classes
      PROVE  /\ Numbered(x)' /\ globalId'[x] = globalId'[y] => x = y
             /\ topoOrder'[x] # -1 /\ topoOrder'[x] = topoOrder'[y] => x = y
  <2>1. Numbered(x)' /\ globalId'[x] = globalId'[y] => x = y
    BY <1>1 DEF IdsAreGivenOnce
  <2>2. topoOrder'[x] # -1 /\ topoOrder'[x] = topoOrder'[y] => x = y
    <3>1. /\ topoOrder[x] # -1 => topoOrder[x] < nextTopoId
          /\ topoOrder[y] # -1 => topoOrder[y] < nextTopoId
          /\ topoOrder[x] # -1 /\ topoOrder[x] = topoOrder[y] => x = y
      BY <1>1 DEF IdsAreGivenOnce
    <3>2. CASE topoOrder' = topoOrder
      BY <3>1, <3>2
    <3>3. CASE /\ parent[c] \in Classes
               /\ topoOrder' = [topoOrder EXCEPT ![parent[c]] = nextTopoId]
      <4>1. /\ topoOrder'[x] = IF x = parent[c] THEN nextTopoId ELSE topoOrder[x]
            /\ topoOrder'[y] = IF y = parent[c] THEN nextTopoId ELSE topoOrder[y]
        BY <3>3
      <4> QED
        BY <3>1, <4>1
    <3> QED
      BY <1>2, <3>2, <3>3
  <2> QED
    BY <2>1, <2>2
<1> QED
  BY <1>3, <1>4 DEF IdsAreGivenOnce

(* Number keeps the lists made of ids that were given out: it appends the   *)
(* parent's topology id, perhaps the one it has just given, to a copy of a  *)
(* good list.                                                               *)
LEMMA NumberKeepsLists ==
    ASSUME TypeOK, NumberingInv, NEW c \in Classes, Number(c)
    PROVE  ListsHoldGivenIds'
<1> USE DEF TypeOK, Numbered
<1>1. IdsAreGivenOnce /\ ListsHoldGivenIds /\ globalId[c] = -1
  BY NumberCases DEF NumberingInv
<1>2. globalId' = [globalId EXCEPT ![c] = nextGlobalId] /\ nextGlobalId # -1
  BY NumberCases
<1>3. CASE parent[c] = NoClass
  <2>1. /\ topoOrder' = topoOrder /\ nextTopoId' = nextTopoId
        /\ baseTopoIds' = [baseTopoIds EXCEPT ![c] = {}]
    BY <1>3, NumberCases
  <2> QED
    BY <1>1, <1>2, <2>1 DEF ListsHoldGivenIds
<1>4. CASE parent[c] # NoClass /\ topoOrder[parent[c]] # -1
  <2>1. /\ topoOrder' = topoOrder /\ nextTopoId' = nextTopoId
        /\ parent[c] \in Classes
        /\ baseTopoIds' = [baseTopoIds EXCEPT ![c] = baseTopoIds[parent[c]]]
    BY <1>4, NumberCases
  <2> QED
    BY <1>1, <1>2, <2>1 DEF ListsHoldGivenIds
<1>5. CASE parent[c] # NoClass /\ topoOrder[parent[c]] = -1
  <2> DEFINE p == parent[c]
             list == baseTopoIds[p] \cup {nextTopoId}
  <2>1. /\ p \in Classes /\ p # c /\ globalId[p] # -1
        /\ nextTopoId' = nextTopoId + 1
        /\ topoOrder' = [topoOrder EXCEPT ![p] = nextTopoId]
        /\ baseTopoIds' = [baseTopoIds EXCEPT ![p] = list, ![c] = list]
    BY <1>5, NumberCases
  <2>2. list \subseteq 0 .. nextTopoId
    BY <1>1, <2>1 DEF ListsHoldGivenIds
  <2> HIDE DEF p, list
  <2>3. ASSUME NEW x \in Classes
        PROVE  baseTopoIds'[x] \subseteq 0 .. nextTopoId' - 1
    <3>1. baseTopoIds'[x] = IF x \in {p, c} THEN list ELSE baseTopoIds[x]
      BY <2>1
    <3>2. baseTopoIds[x] \subseteq 0 .. nextTopoId
      BY <1>1 DEF ListsHoldGivenIds
    <3>3. baseTopoIds'[x] \subseteq 0 .. nextTopoId
      BY <2>2, <3>1, <3>2, Zenon
    <3>4. nextTopoId' - 1 = nextTopoId
      BY <2>1
    <3> QED
      BY <3>3, <3>4
  <2>4. ASSUME NEW x \in Classes, topoOrder'[x] # -1
        PROVE  topoOrder'[x] \in baseTopoIds'[x]
    <3>1. CASE x = p
      BY <2>1, <3>1 DEF list
    <3>2. CASE x # p
      <4>1. topoOrder'[x] = topoOrder[x] /\ x # c
        BY <1>1, <2>1, <2>4, <3>2 DEF ListsHoldGivenIds
      <4> QED
        BY <1>1, <2>1, <2>4, <3>2, <4>1 DEF ListsHoldGivenIds
    <3> QED
      BY <3>1, <3>2
  <2>5. ASSUME NEW x \in Classes, ~Numbered(x)'
        PROVE  topoOrder'[x] = -1 /\ baseTopoIds'[x] = {}
    <3>1. x # c /\ x # p /\ globalId[x] = -1
      BY <1>2, <2>1, <2>5
    <3> QED
      BY <1>1, <2>1, <3>1 DEF ListsHoldGivenIds
  <2> QED
    BY <2>3, <2>4, <2>5 DEF ListsHoldGivenIds
<1> QED
  BY <1>3, <1>4, <1>5

(* Number keeps the parent of each numbered class a known base: c's own     *)
(* parent was numbered before it, and became a base in this step or an      *)
(* earlier one.                                                             *)
LEMMA NumberKeepsParents ==
    ASSUME TypeOK, NumberingInv, NEW c \in Classes, Number(c)
    PROVE  ParentsAreKnownBases'
<1> USE DEF TypeOK, Numbered, ParentMaps
<1>1. /\ IdsAreGivenOnce /\ ParentsAreKnownBases
      /\ globalId[c] = -1
      /\ parent' = parent
      /\ globalId' = [globalId EXCEPT ![c] = nextGlobalId]
  BY NumberCases DEF NumberingInv
<1>2. ASSUME NEW x \in Classes, topoOrder[x] # -1
      PROVE  topoOrder'[x] # -1
  BY <1>2, NumberCases
<1>3. ASSUME parent[c] # NoClass
      PROVE  /\ parent[c] \in Classes /\ parent[c] # c /\ Numbered(parent[c])
             /\ topoOrder'[parent[c]] # -1
  <2>1. /\ parent[c] \in Classes /\ parent[c] # c /\ Numbered(parent[c])
        /\ \/ topoOrder[parent[c]] # -1 /\ topoOrder' = topoOrder
           \/ topoOrder' = [topoOrder EXCEPT ![parent[c]] = nextTopoId]
    BY <1>3, NumberCases
  <2>2. topoOrder \in [Classes -> Int] /\ nextTopoId # -1
    OBVIOUS
  <2> HIDE DEF TypeOK, Numbered, ParentMaps
  <2> QED
    BY <2>1, <2>2
<1>4. ASSUME NEW x \in Classes, Numbered(x)', parent[x] # NoClass
      PROVE  /\ Numbered(parent[x])'
             /\ globalId'[parent[x]] < globalId'[x]
             /\ topoOrder'[parent[x]] # -1
  <2>1. CASE x = c
    <3>1. globalId[parent[c]] \in 0 .. nextGlobalId - 1
      BY <1>1, <1>3, <1>4, <2>1 DEF IdsAreGivenOnce
    <3> QED
      BY <1>1, <1>3, <1>4, <2>1, <3>1
  <2>2. CASE x # c
    <3>1. /\ Numbered(x) /\ parent[x] \in Classes
          /\ Numbered(parent[x]) /\ globalId[parent[x]] < globalId[x]
          /\ topoOrder[parent[x]] # -1
      BY <1>1, <1>4, <2>2 DEF ParentsAreKnownBases
    <3>2. parent[x] # c
      BY <1>1, <3>1
    <3> QED
      BY <1>1, <1>2, <2>2, <3>1, <3>2
  <2> QED
    BY <2>1, <2>2
<1> QED
  BY <1>1, <1>4 DEF ParentsAreKnownBases

(* The heart of it. A class that becomes a base only now gets a topology id *)
(* no list holds, and no numbered class but itself is below it, so the      *)
(* lists copied earlier miss nothing.                                       *)
LEMMA NumberKeepsAncestors ==
    ASSUME TypeOK, NumberingInv, NEW c \in Classes, Number(c)
    PROVE  ListsNameAncestors'
<1> DEFINE p == parent[c]
           n == nextTopoId
           Anc(x) == Ancestors(parent, x)
<1>1. /\ parent \in ParentMaps
      /\ baseTopoIds \in [Classes -> SUBSET Int]
      /\ topoOrder \in [Classes -> Int]
      /\ globalId \in [Classes -> Int]
      /\ n \in Nat
  BY DEF TypeOK
<1>2. /\ globalId[c] = -1
      /\ parent' = parent
      /\ globalId' = [globalId EXCEPT ![c] = nextGlobalId]
      /\ p # NoClass => p \in Classes /\ p # c /\ globalId[p] # -1
  BY NumberCases DEF Numbered
<1>3. \A d \in Classes :
        topoOrder[d] # -1 => topoOrder[d] \in 0 .. n - 1 /\ globalId[d] # -1
  BY DEF NumberingInv, IdsAreGivenOnce, ListsHoldGivenIds, Numbered
<1>4. \A x, d \in Classes :
        globalId[x] # -1 /\ topoOrder[d] # -1 =>
          (topoOrder[d] \in baseTopoIds[x] <=> d \in Anc(x))
  BY DEF NumberingInv, ListsNameAncestors, Numbered
<1>5. \A x \in Classes : baseTopoIds[x] \subseteq 0 .. n - 1
  BY DEF NumberingInv, ListsHoldGivenIds
<1>6. p # NoClass => p \in Anc(p) /\ Anc(c) = {c} \cup Anc(p)
  BY <1>1, <1>2, AncestorsAreClosed, AncestorsOfChild
<1>7. p = NoClass => Anc(c) = {c}
  BY <1>1, AncestorsOfRoot
<1>8. SUFFICES ASSUME NEW x \in Classes, NEW d \in Classes,
                      globalId'[x] # -1, topoOrder'[d] # -1
               PROVE  topoOrder'[d] \in baseTopoIds'[x] <=> d \in Anc(x)
  BY <1>2 DEF ListsNameAncestors, Numbered
<1>9. x # c => globalId[x] # -1
  BY <1>1, <1>2, <1>8
<1>10. topoOrder[d] # -1 => d # c
  BY <1>2, <1>3
<1>11. CASE p = NoClass
  <2>1. topoOrder' = topoOrder /\ baseTopoIds' = [baseTopoIds EXCEPT ![c] = {}]
    BY <1>11, NumberCases
  <2>2. baseTopoIds'[x] = IF x = c THEN {} ELSE baseTopoIds[x]
    BY <1>1, <2>1
  <2> HIDE DEF Anc
  <2> QED
    BY <1>4, <1>7, <1>8, <1>9, <1>10, <1>11, <2>1, <2>2
<1>12. CASE p # NoClass /\ topoOrder[p] # -1
  <2>1. /\ topoOrder' = topoOrder
        /\ baseTopoIds' = [baseTopoIds EXCEPT ![c] = baseTopoIds[p]]
    BY <1>12, NumberCases
  <2>2. baseTopoIds'[x] = IF x = c THEN baseTopoIds[p] ELSE baseTopoIds[x]
    BY <1>1, <2>1
  <2> HIDE DEF Anc
  <2> QED
    BY <1>2, <1>4, <1>6, <1>8, <1>9, <1>10, <1>12, <2>1, <2>2
<1>13. CASE p # NoClass /\ topoOrder[p] = -1
  <2> DEFINE list == baseTopoIds[p] \cup {n}
  <2>1. /\ topoOrder' = [topoOrder EXCEPT ![p] = n]
        /\ baseTopoIds' = [baseTopoIds EXCEPT ![p] = list, ![c] = list]
    BY <1>13, NumberCases
  <2>2. baseTopoIds'[x] = IF x \in {p, c} THEN list ELSE baseTopoIds[x]
    BY <1>1, <1>2, <1>13, <2>1
  <2>3. topoOrder'[d] = IF d = p THEN n ELSE topoOrder[d]
    BY <1>1, <1>2, <1>13, <2>1
  <2>4. n \notin baseTopoIds[x] /\ (topoOrder[d] # -1 => topoOrder[d] # n)
    BY <1>1, <1>3, <1>5
  <2>5. x # c /\ x # p => p \notin Anc(x)
    <3>1. SUFFICES ASSUME x # c, x # p, p \in Anc(x) PROVE FALSE
      OBVIOUS
    <3>2. ParentsAreKnownBases /\ Numbered(x)
      BY <1>9, <3>1 DEF NumberingInv, Numbered
    <3> QED
      BY <1>13, <3>1, <3>2, AncestorsAreKnownBases
  <2> HIDE DEF Anc
  <2>6. CASE d = p
    BY <1>6, <1>13, <2>2, <2>3, <2>4, <2>5, <2>6
  <2>7. CASE d # p
    BY <1>2, <1>4, <1>6, <1>8, <1>9, <1>10, <1>13, <2>2, <2>3, <2>4, <2>7
  <2> QED
    BY <2>6, <2>7
<1> QED
  BY <1>11, <1>12, <1>13

(* No other step touches what the invariant speaks of.                      *)
LEMMA OtherStepsKeepNumbering ==
    ASSUME [Next]_vars, \A c \in Classes : ~Number(c)
    PROVE  UNCHANGED <<parent, numbering>>
<1> USE DEF registry, numbering
<1>1. CASE UNCHANGED vars
  BY <1>1 DEF vars
<1>2. ASSUME NEW o \in Objects, Construct(o) \/ Initialize(o)
      PROVE  UNCHANGED <<parent, numbering>>
  BY <1>2 DEF Construct, Initialize
<1>3. CASE InitializeStep
  BY <1>3 DEF InitializeStep, CopyType, FillTable, Visit, EarlyReturn, Descend,
              TooManyClasses, Store, BindFunction, Finish
<1> QED
  BY <1>1, <1>2, <1>3 DEF Next

(* No class has a number before Initialize is called.                       *)
LEMMA NumberingInit == Init => NumberingInv
  BY DEF Init, NumberingInv, IdsAreGivenOnce, ListsHoldGivenIds,
         ParentsAreKnownBases, ListsNameAncestors, Numbered

(* Number is the only action that writes ids and lists; the others leave    *)
(* the four parts alone.                                                    *)
LEMMA NumberingStep == TypeOK /\ NumberingInv /\ [Next]_vars => NumberingInv'
<1> SUFFICES ASSUME TypeOK, NumberingInv, [Next]_vars PROVE NumberingInv'
  OBVIOUS
<1>1. ASSUME NEW c \in Classes, Number(c) PROVE NumberingInv'
  BY <1>1, NumberKeepsIds, NumberKeepsLists, NumberKeepsParents,
     NumberKeepsAncestors DEF NumberingInv
<1>2. ASSUME \A c \in Classes : ~Number(c) PROVE NumberingInv'
  <2>1. UNCHANGED <<parent, numbering>>
    BY <1>2, OtherStepsKeepNumbering
  <2> QED
    BY <2>1 DEF NumberingInv, IdsAreGivenOnce, ListsHoldGivenIds, numbering,
                ParentsAreKnownBases, ListsNameAncestors, Numbered
<1> QED
  BY <1>1, <1>2

(* The inductive invariant of the numbering holds of every reachable state. *)
THEOREM NumberingCorrect == Spec => []NumberingInv
<1>1. Spec => []TypeOK
  BY TypeCorrect
<1> QED
  BY <1>1, NumberingInit, NumberingStep, PTL DEF Spec
-----------------------------------------------------------------------------
(* DynamicCast's test over topology ids is the inheritance relation itself. *)
LEMMA NumberingImpliesAncestors ==
    TypeOK /\ NumberingInv => BaseListsAreAncestors
<1> SUFFICES ASSUME TypeOK, NumberingInv, NEW c \in Classes, NEW d \in Classes,
                    Numbered(c), c # d
             PROVE  Derives(c, d) <=> IsBaseOf(parent, d, c)
  BY DEF BaseListsAreAncestors
<1>1. ListsNameAncestors /\ ParentsAreKnownBases
  BY DEF NumberingInv
<1>2. CASE topoOrder[d] # -1
  BY <1>1, <1>2 DEF ListsNameAncestors, Derives, IsBaseOf
<1>3. CASE topoOrder[d] = -1
  BY <1>1, <1>3, AncestorsAreKnownBases DEF Derives, IsBaseOf
<1> QED
  BY <1>2, <1>3

(* For any classes, hierarchy and numbering order, the lists m_RecursiveInit*)
(* builds tell exactly the base classes of each numbered class.             *)
THEOREM ListsAreCorrect == Spec => []BaseListsAreAncestors
  BY TypeCorrect, NumberingCorrect, NumberingImpliesAncestors, PTL

(* A parent always has its id before, and below, that of its children.      *)
THEOREM ParentsComeFirst == Spec => []ParentsFirst
<1>1. NumberingInv => ParentsFirst
  BY DEF NumberingInv, ParentsAreKnownBases, ParentsFirst
<1> QED
  BY <1>1, NumberingCorrect, PTL
-----------------------------------------------------------------------------
(* The tables MetaSystemExample is left with: theorems about InitializeInv  *)
(* and what follows from it for lookups and for objects.                    *)

(* Sequences as stacks: popping and pushing leave the outermost frame.      *)
LEMMA PopKeepsLast ==
    ASSUME NEW S, NEW s \in Seq(S), s # <<>>, Tail(s) # <<>>
    PROVE  Tail(s)[Len(Tail(s))] = s[Len(s)]
  OBVIOUS

(* When the stack of calls holds one class, its top is its bottom.          *)
LEMMA PopOnly ==
    ASSUME NEW S, NEW s \in Seq(S), s # <<>>, Tail(s) = <<>>
    PROVE  Head(s) = s[Len(s)]
<1>1. Len(Tail(s)) = Len(s) - 1 /\ Len(Tail(s)) = 0 /\ Len(s) \in Nat
  BY HeadTailProperties, EmptySeq
<1>2. Len(s) = 1
  BY <1>1
<1> QED
  BY <1>2

(* A call pushed on the stack leaves the class the loop visits at its       *)
(* bottom.                                                                  *)
LEMMA PushKeepsLast ==
    ASSUME NEW S, NEW s \in Seq(S), s # <<>>, NEW e \in S
    PROVE  /\ <<e>> \o s # <<>>
           /\ (<<e>> \o s)[Len(<<e>> \o s)] = s[Len(s)]
<1>1. /\ Len(s) \in Nat \ {0}
      /\ Len(<<e>> \o s) = Len(s) + 1
  OBVIOUS
<1>2. (<<e>> \o s)[Len(s) + 1] = s[Len(s)]
  BY <1>1
<1> QED
  BY <1>1, <1>2
-----------------------------------------------------------------------------
(* Before Initialize nothing is copied, visited or stored.                  *)
LEMMA InitializeInvInit == Init => InitializeInv
  BY RegistrationAssumption
  DEF Init, InitializeInv, CopyLoopInv, VisitInv, TableInv

(* The copy loop copies each registered type once, and nothing copies       *)
(* later.                                                                   *)
LEMMA CopyLoopStep ==
    ASSUME TypeOK, InitializeInv, [Next]_vars
    PROVE  CopyLoopInv'
<1> USE DEF registry, numbering, control, functions, objects
<1>1. CopyLoopInv
  BY DEF InitializeInv
<1>2. CASE UNCHANGED vars
  BY <1>1, <1>2 DEF vars, CopyLoopInv
<1>3. ASSUME NEW o \in Objects, Construct(o) PROVE CopyLoopInv'
  BY <1>1, <1>3 DEF Construct, CopyLoopInv
<1>4. ASSUME NEW o \in Objects, Initialize(o) PROVE CopyLoopInv'
  <2>1. CASE metaSystem = NoObject
    BY <1>1, <1>4, <2>1, RegistrationAssumption DEF Initialize, CopyLoopInv
  <2>2. CASE metaSystem # NoObject
    BY <1>1, <1>4, <2>2 DEF Initialize, CopyLoopInv
  <2> QED
    BY <2>1, <2>2
<1>5. ASSUME NEW t \in Types, CopyType(t) PROVE CopyLoopInv'
  <2>1. /\ pending = copied \cap Classes
        /\ visiting' = NoClass /\ stack' = <<>>
        /\ copied' = copied \cup {t}
        /\ phase' \in {"copy", "fill"}
        /\ phase' = "fill" => copied' = Types
        /\ metaSystem' # NoObject
    BY <1>1, <1>5 DEF CopyType, CopyLoopInv
  <2>2. pending' = copied' \cap Classes
    BY <1>5, <2>1 DEF CopyType
  <2> QED
    BY <2>1, <2>2 DEF CopyLoopInv
<1>6. CASE FillTable
  BY <1>1, <1>6 DEF FillTable, CopyLoopInv
<1>7. ASSUME NEW c \in Classes, Visit(c) PROVE CopyLoopInv'
  BY <1>1, <1>7 DEF Visit, CopyLoopInv
<1>8. CASE EarlyReturn
  BY <1>1, <1>8 DEF EarlyReturn, CopyLoopInv
<1>9. CASE Descend
  BY <1>1, <1>9 DEF Descend, CopyLoopInv
<1>10. ASSUME NEW c \in Classes, Number(c) PROVE CopyLoopInv'
  <2>1. phase = "number" /\ UNCHANGED <<phase, metaSystem, copied>>
    BY <1>10 DEF Number, AboutToNumber
  <2> QED
    BY <1>1, <2>1 DEF CopyLoopInv
<1>11. ASSUME NEW c \in Classes, TooManyClasses(c) PROVE CopyLoopInv'
  BY <1>1, <1>11 DEF TooManyClasses, AboutToNumber, CopyLoopInv
<1>12. CASE Store
  BY <1>1, <1>12 DEF Store, CopyLoopInv
<1>13. ASSUME NEW f \in Functions, BindFunction(f) PROVE CopyLoopInv'
  BY <1>1, <1>13 DEF BindFunction, CopyLoopInv
<1>14. CASE Finish
  BY <1>1, <1>14 DEF Finish, CopyLoopInv
<1> QED
  BY <1>2, <1>3, <1>4, <1>5, <1>6, <1>7, <1>8, <1>9, <1>10, <1>11, <1>12,
     <1>13, <1>14 DEF Next, InitializeStep

(* What the recursion has on its stack is one climb from the visited class, *)
(* and a visited class is numbered when the climb has come back.            *)
LEMMA VisitStep ==
    ASSUME TypeOK, InitializeInv, [Next]_vars
    PROVE  VisitInv'
<1> USE DEF registry, numbering, control, functions, objects, Numbered
<1>1. VisitInv /\ CopyLoopInv /\ stack \in Seq(Classes)
  BY DEF InitializeInv, TypeOK
<1>2. CASE UNCHANGED vars
  BY <1>1, <1>2 DEF vars, VisitInv
<1>3. ASSUME NEW o \in Objects, Construct(o) PROVE VisitInv'
  BY <1>1, <1>3 DEF Construct, VisitInv
<1>4. ASSUME NEW o \in Objects, Initialize(o) PROVE VisitInv'
  BY <1>1, <1>4 DEF Initialize, VisitInv
<1>5. ASSUME NEW t \in Types, CopyType(t) PROVE VisitInv'
  BY <1>1, <1>5 DEF CopyType, VisitInv
<1>6. CASE FillTable
  BY <1>1, <1>6 DEF FillTable, VisitInv, CopyLoopInv
<1>7. ASSUME NEW c \in Classes, Visit(c) PROVE VisitInv'
  <2>1. stack' = <<c>> /\ visiting' = c /\ c # NoClass
    BY <1>7, NoClassAssumption DEF Visit
  <2>2. Len(<<c>>) = 1 /\ <<c>>[1] = c /\ <<c>> # <<>>
    OBVIOUS
  <2> QED
    BY <2>1, <2>2 DEF VisitInv
<1>8. CASE EarlyReturn
  <2>1. /\ stack # <<>> /\ stack' = Tail(stack)
        /\ visiting' = visiting /\ globalId' = globalId
        /\ globalId[Head(stack)] # -1
    BY <1>8 DEF EarlyReturn
  <2>2. visiting # NoClass /\ stack[Len(stack)] = visiting
    BY <1>1, <2>1 DEF VisitInv
  <2>3. CASE stack' = <<>>
    BY <1>1, <2>1, <2>2, <2>3, PopOnly DEF VisitInv
  <2>4. CASE stack' # <<>>
    BY <1>1, <2>1, <2>2, <2>4, PopKeepsLast DEF VisitInv
  <2> QED
    BY <2>3, <2>4
<1>9. CASE Descend
  <2>1. /\ stack # <<>> /\ visiting' = visiting
        /\ stack' = <<parent[Head(stack)]>> \o stack
        /\ parent[Head(stack)] \in Classes
    BY <1>9 DEF Descend, TypeOK, ParentMaps
  <2> QED
    BY <1>1, <2>1, PushKeepsLast DEF VisitInv
<1>10. ASSUME NEW c \in Classes, Number(c) PROVE VisitInv'
  <2>1. /\ stack # <<>> /\ stack' = Tail(stack) /\ c = Head(stack)
        /\ visiting' = visiting
    BY <1>10 DEF Number, AboutToNumber
  <2>2. globalId'[c] # -1
    BY <1>10, NumberCases DEF TypeOK
  <2>3. visiting # NoClass /\ stack[Len(stack)] = visiting
    BY <1>1, <2>1 DEF VisitInv
  <2>4. CASE stack' = <<>>
    BY <1>1, <2>1, <2>2, <2>3, <2>4, PopOnly DEF VisitInv
  <2>5. CASE stack' # <<>>
    BY <1>1, <2>1, <2>3, <2>5, PopKeepsLast DEF VisitInv
  <2> QED
    BY <2>4, <2>5
<1>11. ASSUME NEW c \in Classes, TooManyClasses(c) PROVE VisitInv'
  BY <1>1, <1>11 DEF TooManyClasses, VisitInv
<1>12. CASE Store
  BY <1>1, <1>12 DEF Store, VisitInv
<1>13. ASSUME NEW f \in Functions, BindFunction(f) PROVE VisitInv'
  BY <1>1, <1>13 DEF BindFunction, VisitInv
<1>14. CASE Finish
  BY <1>1, <1>14 DEF Finish, VisitInv
<1> QED
  BY <1>2, <1>3, <1>4, <1>5, <1>6, <1>7, <1>8, <1>9, <1>10, <1>11, <1>12,
     <1>13, <1>14 DEF Next, InitializeStep

(* Number gives its class an id no slot holds, and disturbs no other.       *)
LEMMA NumberKeepsTable ==
    ASSUME TypeOK, NumberingInv, InitializeInv, NEW c \in Classes, Number(c)
    PROVE  TableInv'
<1> USE DEF Numbered, TypeOK
<1>1. /\ phase = "number" /\ phase' = "number"
      /\ classTable' = classTable /\ pending' = pending /\ visiting' = visiting
      /\ nextGlobalId < MaxClasses
  BY DEF Number, AboutToNumber, HasIdLeft
<1>2. /\ globalId[c] = -1
      /\ globalId' = [globalId EXCEPT ![c] = nextGlobalId]
      /\ nextGlobalId' = nextGlobalId + 1
  BY NumberCases
<1>3. TableInv
  BY DEF InitializeInv
<1>4. nextGlobalId' <= MaxClasses
  BY <1>1, <1>2, RegistrationAssumption
<1>5. ASSUME NEW i \in Ids, classTable[i] # VoidClass
      PROVE  globalId'[classTable[i]] = i
  <2>1. classTable[i] \in Classes /\ globalId[classTable[i]] = i /\ i # -1
    BY <1>1, <1>3, <1>5, RegistrationAssumption DEF TableInv, Ids
  <2>2. classTable[i] # c
    BY <1>2, <2>1
  <2> QED
    BY <1>2, <2>1, <2>2
<1>6. ASSUME NEW x \in Classes, x \notin pending \cup {visiting}
      PROVE  globalId'[x] # -1 /\ classTable[globalId'[x]] = x
  <2>1. globalId[x] # -1 /\ classTable[globalId[x]] = x
    BY <1>1, <1>3, <1>6 DEF TableInv
  <2>2. globalId'[x] = globalId[x]
    BY <1>2, <2>1
  <2> QED
    BY <2>1, <2>2
<1>7. \A i \in Ids : classTable[i] \in Classes
  BY <1>1, <1>3 DEF TableInv
<1> QED
  BY <1>1, <1>4, <1>5, <1>6, <1>7 DEF TableInv

(* Store puts the class visited, which has its number, into its own slot.   *)
LEMMA StoreKeepsTable ==
    ASSUME TypeOK, NumberingInv, InitializeInv, Store
    PROVE  TableInv'
<1> USE DEF Numbered, TypeOK
<1> DEFINE v == visiting
           g == globalId[v]
<1>1. /\ phase = "number" /\ v # NoClass /\ stack = <<>>
      /\ classTable' = [classTable EXCEPT ![g] = v]
      /\ globalId' = globalId /\ nextGlobalId' = nextGlobalId
      /\ pending' = pending /\ visiting' = NoClass
      /\ phase' = IF pending = {} THEN "bind" ELSE "number"
  BY DEF Store, numbering
<1>2. TableInv /\ VisitInv /\ IdsAreGivenOnce
  BY DEF InitializeInv, NumberingInv
<1>3. v \in Classes /\ g # -1
  BY <1>1, <1>2 DEF VisitInv
<1>4. g \in Ids
  <2>1. g \in 0 .. nextGlobalId - 1 /\ nextGlobalId <= MaxClasses
    BY <1>2, <1>3 DEF IdsAreGivenOnce, TableInv
  <2> QED
    BY <2>1, RegistrationAssumption DEF Ids
<1>5. \A i \in Ids : classTable'[i] = IF i = g THEN v ELSE classTable[i]
  BY <1>1, <1>4
<1>6. ASSUME NEW i \in Ids
      PROVE  /\ classTable'[i] \in Classes
             /\ classTable'[i] # VoidClass => globalId'[classTable'[i]] = i
  BY <1>1, <1>2, <1>3, <1>5 DEF TableInv
<1>7. ASSUME NEW x \in Classes, x \notin pending
      PROVE  globalId'[x] # -1 /\ classTable'[globalId'[x]] = x
  <2>1. CASE x = v
    BY <1>1, <1>3, <1>4, <1>5, <2>1
  <2>2. CASE x # v
    <3>1. globalId[x] # -1 /\ classTable[globalId[x]] = x
      BY <1>1, <1>2, <1>7, <2>2 DEF TableInv
    <3>2. globalId[x] # g
      BY <1>2, <1>3, <2>2, <3>1 DEF IdsAreGivenOnce
    <3>3. globalId[x] \in Ids
      <4>1. globalId[x] \in 0 .. nextGlobalId - 1 /\ nextGlobalId <= MaxClasses
        BY <1>2, <3>1 DEF IdsAreGivenOnce, TableInv
      <4> QED
        BY <4>1, RegistrationAssumption DEF Ids
    <3> QED
      BY <1>1, <1>5, <3>1, <3>2, <3>3
  <2> QED
    BY <2>1, <2>2
<1>8. nextGlobalId' <= MaxClasses
  BY <1>1, <1>2 DEF TableInv
<1> HIDE DEF v, g
<1>9. phase' = "number" \/ (phase' = "bind" /\ pending' = {})
  BY <1>1
<1>10. \A x \in Classes : x \notin pending' \cup {visiting'} => x \notin pending
  BY <1>1
<1> QED
  BY <1>1, <1>6, <1>7, <1>8, <1>9, <1>10 DEF TableInv

(* A slot of the table holds void or the class whose id it is, and every    *)
(* class whose turn is over is in its slot.                                 *)
LEMMA TableStep ==
    ASSUME TypeOK, NumberingInv, InitializeInv, [Next]_vars
    PROVE  TableInv'
<1> USE DEF registry, numbering, control, functions, objects, Numbered
<1>1. TableInv /\ CopyLoopInv
  BY DEF InitializeInv
<1>2. CASE UNCHANGED vars
  BY <1>1, <1>2 DEF vars, TableInv
<1>3. ASSUME NEW o \in Objects, Construct(o) PROVE TableInv'
  BY <1>1, <1>3 DEF Construct, TableInv
<1>4. ASSUME NEW o \in Objects, Initialize(o) PROVE TableInv'
  BY <1>1, <1>4 DEF Initialize, TableInv
<1>5. ASSUME NEW t \in Types, CopyType(t) PROVE TableInv'
  BY <1>1, <1>5 DEF CopyType, TableInv
<1>6. CASE FillTable
  <2>1. /\ phase = "fill" /\ phase' = "number"
        /\ classTable' = [i \in Ids |-> VoidClass]
        /\ pending' = pending /\ nextGlobalId' = nextGlobalId
    BY <1>6 DEF FillTable
  <2>2. \A c \in Classes : c \in pending'
    BY <1>1, <2>1, RegistrationAssumption DEF CopyLoopInv
  <2> QED
    BY <1>1, <2>1, <2>2, RegistrationAssumption DEF TableInv
<1>7. ASSUME NEW c \in Classes, Visit(c) PROVE TableInv'
  <2>1. /\ phase = "number" /\ visiting = NoClass /\ visiting' = c
        /\ pending' = pending \ {c}
        /\ UNCHANGED <<phase, globalId, nextGlobalId, classTable>>
    BY <1>7 DEF Visit
  <2>2. \A x \in Classes : x \notin pending' \cup {visiting'} =>
                               x \notin pending \cup {visiting}
    BY <2>1, NoClassAssumption
  <2> QED
    BY <1>1, <2>1, <2>2 DEF TableInv
<1>8. CASE EarlyReturn
  BY <1>1, <1>8 DEF EarlyReturn, TableInv
<1>9. CASE Descend
  BY <1>1, <1>9 DEF Descend, TableInv
<1>10. ASSUME NEW c \in Classes, Number(c) PROVE TableInv'
  BY <1>10, NumberKeepsTable
<1>11. ASSUME NEW c \in Classes, TooManyClasses(c) PROVE TableInv'
  BY <1>1, <1>11 DEF TooManyClasses, TableInv
<1>12. CASE Store
  BY <1>12, StoreKeepsTable
<1>13. ASSUME NEW f \in Functions, BindFunction(f) PROVE TableInv'
  BY <1>1, <1>13 DEF BindFunction, TableInv
<1>14. CASE Finish
  BY <1>1, <1>14 DEF Finish, TableInv
<1> QED
  BY <1>2, <1>3, <1>4, <1>5, <1>6, <1>7, <1>8, <1>9, <1>10, <1>11, <1>12,
     <1>13, <1>14 DEF Next, InitializeStep

(* The control of Initialize is where its loops say, in every reachable     *)
(* state: the inductive invariant of the tables.                            *)
THEOREM InitializeCorrect == Spec => []InitializeInv
<1>1. TypeOK /\ NumberingInv /\ InitializeInv /\ [Next]_vars => InitializeInv'
  BY CopyLoopStep, VisitStep, TableStep DEF InitializeInv
<1> QED
  BY <1>1, TypeCorrect, NumberingCorrect, InitializeInvInit, PTL DEF Spec

(* Ids are given once, so a table that holds each class at its id is the    *)
(* inverse of GetId.                                                        *)
LEMMA TableInverse ==
    TypeOK /\ NumberingInv /\ InitializeInv => TableInvertsIds
<1> SUFFICES ASSUME TypeOK, NumberingInv, InitializeInv PROVE TableInvertsIds
  OBVIOUS
<1>1. TableInv /\ IdsAreGivenOnce
  BY DEF InitializeInv, NumberingInv
<1>2. ASSUME NEW c \in Classes, phase \in {"bind", "ready"}
      PROVE  globalId[c] \in Ids /\ classTable[globalId[c]] = c
  <2>1. Numbered(c) /\ classTable[globalId[c]] = c
    BY <1>1, <1>2 DEF TableInv
  <2>2. globalId[c] \in 0 .. nextGlobalId - 1 /\ nextGlobalId <= MaxClasses
    BY <1>1, <2>1 DEF IdsAreGivenOnce, TableInv
  <2> QED
    BY <2>1, <2>2, RegistrationAssumption DEF Ids, TypeOK
<1> QED
  BY <1>1, <1>2 DEF TableInvertsIds, TableInv

(* GetMetaClassById is the inverse of GetId once the loop is through, and   *)
(* never wrong before: for every hierarchy and every iteration order.       *)
THEOREM TableIsCorrect == Spec => []TableInvertsIds
  BY TypeCorrect, NumberingCorrect, InitializeCorrect, TableInverse, PTL
-----------------------------------------------------------------------------
(* No object exists at first.                                               *)
LEMMA ObjectInit == Init => ObjectInv
  BY DEF Init, ObjectInv

(* An object keeps the id its constructor found, and ids are not written    *)
(* twice.                                                                   *)
LEMMA ObjectStep ==
    ASSUME TypeOK, NumberingInv, InitializeInv, ObjectInv, [Next]_vars
    PROVE  ObjectInv'
<1> USE DEF TypeOK, Numbered, registry, numbering, control, functions, objects
<1>1. /\ CopyLoopInv /\ TableInv
      /\ ClassOf \in [Objects -> Classes] /\ Classes \subseteq Types
      /\ SystemClass \in Classes
  BY RegistrationAssumption DEF InitializeInv
<1>2. CASE UNCHANGED vars
  BY <1>2 DEF vars, ObjectInv
<1>3. ASSUME NEW o \in Objects, Construct(o) PROVE ObjectInv'
  <2>1. /\ classIdOf' = [classIdOf EXCEPT ![o] = MetaClassId(ClassOf[o])]
        /\ UNCHANGED <<phase, metaSystem, globalId>>
    BY <1>3 DEF Construct
  <2>2. /\ MetaClassId(ClassOf[o]) \in {-1, globalId[ClassOf[o]]}
        /\ phase = "static" => MetaClassId(ClassOf[o]) = -1
    BY <1>1 DEF MetaClassId, CopyLoopInv
  <2>3. phase = "ready" => MetaClassId(ClassOf[o]) # -1
    BY <1>1 DEF MetaClassId, CopyLoopInv, TableInv
  <2> QED
    BY <2>1, <2>2, <2>3 DEF ObjectInv
<1>4. ASSUME NEW o \in Objects, Initialize(o) PROVE ObjectInv'
  BY <1>4 DEF Initialize, ObjectInv
<1>5. ASSUME NEW t \in Types, CopyType(t) PROVE ObjectInv'
  BY <1>5 DEF CopyType, ObjectInv
<1>6. CASE FillTable
  BY <1>6 DEF FillTable, ObjectInv
<1>7. ASSUME NEW c \in Classes, Visit(c) PROVE ObjectInv'
  BY <1>7 DEF Visit, ObjectInv
<1>8. CASE EarlyReturn
  BY <1>8 DEF EarlyReturn, ObjectInv
<1>9. CASE Descend
  BY <1>9 DEF Descend, ObjectInv
<1>10. ASSUME NEW c \in Classes, Number(c) PROVE ObjectInv'
  <2>1. /\ phase = "number" /\ UNCHANGED <<phase, metaSystem, classIdOf>>
        /\ globalId[c] = -1
        /\ globalId' = [globalId EXCEPT ![c] = nextGlobalId]
    BY <1>10, NumberCases DEF Number, AboutToNumber
  <2>2. ASSUME NEW o \in Objects
        PROVE  classIdOf[o] \in {-1, globalId'[ClassOf[o]]}
    BY <1>1, <2>1 DEF ObjectInv
  <2> QED
    BY <2>1, <2>2 DEF ObjectInv
<1>11. ASSUME NEW c \in Classes, TooManyClasses(c) PROVE ObjectInv'
  BY <1>11 DEF TooManyClasses, ObjectInv
<1>12. CASE Store
  BY <1>12 DEF Store, ObjectInv
<1>13. ASSUME NEW f \in Functions, BindFunction(f) PROVE ObjectInv'
  BY <1>13 DEF BindFunction, ObjectInv
<1>14. CASE Finish
  <2>1. /\ phase = "bind" /\ phase' = "ready"
        /\ classIdOf' = [classIdOf EXCEPT ![metaSystem] = MetaClassId(SystemClass)]
        /\ UNCHANGED <<metaSystem, globalId>>
    BY <1>14 DEF Finish
  <2>2. metaSystem \in Objects /\ ClassOf[metaSystem] = SystemClass
    BY <1>1, <2>1 DEF CopyLoopInv, ObjectInv
  <2>3. /\ MetaClassId(SystemClass) = globalId[SystemClass]
        /\ globalId[SystemClass] # -1
    BY <1>1, <2>1 DEF MetaClassId, CopyLoopInv, TableInv
  <2> QED
    BY <2>1, <2>2, <2>3 DEF ObjectInv
<1> QED
  BY <1>2, <1>3, <1>4, <1>5, <1>6, <1>7, <1>8, <1>9, <1>10, <1>11, <1>12,
     <1>13, <1>14 DEF Next, InitializeStep

(* No object is ever found under a class that is not its own, and the       *)
(* system object is found once Initialize is done.                          *)
THEOREM ObjectsResolve == Spec => []ObjectsNeverMisresolve
<1>1. Spec => []ObjectInv
  BY TypeCorrect, NumberingCorrect, InitializeCorrect, ObjectInit, ObjectStep,
     PTL DEF Spec
<1>2. TypeOK /\ TableInvertsIds /\ ObjectInv => ObjectsNeverMisresolve
  <2> SUFFICES ASSUME TypeOK, TableInvertsIds, ObjectInv,
                      phase \in {"static", "ready"}, NEW o \in constructed
               PROVE  IF classIdOf[o] = -1
                      THEN o # metaSystem \/ phase = "static"
                      ELSE /\ classIdOf[o] \in Ids
                           /\ classTable[classIdOf[o]] = ClassOf[o]
    BY DEF ObjectsNeverMisresolve
  <2>1. o \in Objects /\ ClassOf[o] \in Classes
    BY RegistrationAssumption DEF TypeOK
  <2>2. CASE classIdOf[o] = -1
    BY <2>2 DEF ObjectInv
  <2>3. CASE classIdOf[o] # -1
    <3>1. classIdOf[o] = globalId[ClassOf[o]] /\ phase = "ready"
      BY <2>1, <2>3 DEF ObjectInv
    <3> QED
      BY <2>1, <2>3, <3>1 DEF TableInvertsIds
  <2> QED
    BY <2>2, <2>3
<1> QED
  BY <1>1, <1>2, TypeCorrect, TableIsCorrect, PTL
-----------------------------------------------------------------------------
(* A signature that was filled names copies, and what BindFunction found of *)
(* its class stays.                                                         *)
LEMMA SignatureStep ==
    ASSUME TypeOK, InitializeInv, SignaturesUseCopies, [Next]_vars
    PROVE  SignaturesUseCopies'
<1> USE DEF TypeOK, Numbered, registry, numbering, control, functions, objects
<1>1. CopyLoopInv /\ TableInv
  BY DEF InitializeInv
<1>2. CASE UNCHANGED <<globalId, signature, bound>>
  BY <1>2 DEF SignaturesUseCopies
<1>3. ASSUME NEW c \in Classes, Number(c) PROVE SignaturesUseCopies'
  <2>1. /\ UNCHANGED <<signature, bound>> /\ globalId[c] = -1
        /\ globalId' = [globalId EXCEPT ![c] = nextGlobalId]
    BY <1>3, NumberCases DEF Number
  <2>2. \A f \in bound : FunctionClass[f] # c
    BY <2>1 DEF SignaturesUseCopies
  <2>3. \A f \in bound : FunctionClass[f] \in Classes
    BY RegistrationAssumption
  <2> QED
    BY <2>1, <2>2, <2>3 DEF SignaturesUseCopies
<1>4. ASSUME NEW f \in Functions, BindFunction(f) PROVE SignaturesUseCopies'
  <2>1. /\ UNCHANGED globalId /\ bound' = bound \cup {f} /\ f \notin bound
        /\ signature' = [signature EXCEPT ![f] = {Active(t) : t \in FunctionTypes[f]}]
    BY <1>4 DEF BindFunction
  <2>2. FunctionTypes[f] \subseteq Types /\ FunctionClass[f] \in Classes
    BY RegistrationAssumption
  <2>3. copied = Types /\ Numbered(FunctionClass[f])
    BY <1>1, <1>4, <2>2 DEF BindFunction, CopyLoopInv, TableInv
  <2>4. {Active(t) : t \in FunctionTypes[f]}
          = {[type |-> t, copy |-> TRUE] : t \in FunctionTypes[f]}
    <3>1. \A t \in FunctionTypes[f] : Active(t) = [type |-> t, copy |-> TRUE]
      BY <2>2, <2>3 DEF Active
    <3> QED
      BY <3>1
  <2> QED
    BY <2>1, <2>3, <2>4 DEF SignaturesUseCopies
<1>5. CASE \E o \in Objects : Construct(o) \/ Initialize(o)
  BY <1>2, <1>5 DEF Construct, Initialize
<1>6. CASE InitializeStep
  BY <1>2, <1>3, <1>4, <1>6 DEF InitializeStep, CopyType, FillTable, Visit,
     TooManyClasses, EarlyReturn, Descend, Store, Finish
<1>7. CASE UNCHANGED vars
  BY <1>2, <1>7 DEF vars
<1> QED
  BY <1>5, <1>6, <1>7 DEF Next

(* Every signature that was filled names active types, for all functions    *)
(* and in whatever order Initialize meets them.                             *)
THEOREM SignaturesCorrect == Spec => []SignaturesUseCopies
<1>1. Init => SignaturesUseCopies
  BY DEF Init, SignaturesUseCopies
<1> QED
  BY <1>1, SignatureStep, TypeCorrect, InitializeCorrect, PTL DEF Spec
-----------------------------------------------------------------------------
(* The classes with a number, and why m_RecursiveInit stops where it does.  *)
NumberedClasses == {c \in Classes : Numbered(c)}

CapacityInv ==
    /\ Cardinality(NumberedClasses) = nextGlobalId
    /\ phase = "halted" =>
          NumberedClasses = Classes \/ nextGlobalId >= MaxClasses

(* There are finitely many classes, and numbered ones.                      *)
LEMMA NumberedIsFinite ==
    IsFiniteSet(Classes) /\ IsFiniteSet(NumberedClasses)
<1>1. IsFiniteSet(Classes)
  BY RegistrationAssumption, FS_Subset
<1> QED
  BY <1>1, FS_Subset DEF NumberedClasses

(* Every step keeps CapacityInv.                                            *)
LEMMA CapacityStep ==
    ASSUME TypeOK, InitializeInv, CapacityInv, [Next]_vars
    PROVE  CapacityInv'
<1> USE DEF TypeOK, registry, numbering, control, functions, objects
<1>1. TableInv
  BY DEF InitializeInv
<1>2. ASSUME UNCHANGED <<globalId, nextGlobalId>>,
             phase' = "halted" => phase = "halted"
      PROVE  CapacityInv'
  BY <1>2 DEF CapacityInv, NumberedClasses, Numbered
<1>3. ASSUME NEW o \in Objects, Initialize(o) PROVE CapacityInv'
  <2>1. UNCHANGED <<globalId, nextGlobalId>>
        /\ (phase' = "halted" => phase \in {"static", "ready"})
    BY <1>3 DEF Initialize
  <2>2. phase' = "halted" => phase = "ready"
    BY <1>3 DEF Initialize, InitializeInv, CopyLoopInv
  <2>3. phase' = "halted" => NumberedClasses = Classes
    BY <1>1, <2>2 DEF TableInv, NumberedClasses
  <2> QED
    BY <2>1, <2>3 DEF CapacityInv, NumberedClasses, Numbered
<1>4. ASSUME NEW c \in Classes, Number(c) PROVE CapacityInv'
  <2>1. /\ ~Numbered(c) /\ nextGlobalId' = nextGlobalId + 1
        /\ globalId' = [globalId EXCEPT ![c] = nextGlobalId]
        /\ phase' = "number"
    BY <1>4, NumberCases DEF Number, AboutToNumber
  <2>2. NumberedClasses' = NumberedClasses \cup {c} /\ c \notin NumberedClasses
    BY <2>1 DEF NumberedClasses, Numbered
  <2>3. Cardinality(NumberedClasses') = Cardinality(NumberedClasses) + 1
    BY <2>2, NumberedIsFinite, FS_AddElement
  <2> QED
    BY <2>1, <2>3 DEF CapacityInv
<1>5. ASSUME NEW c \in Classes, TooManyClasses(c) PROVE CapacityInv'
  <2>1. UNCHANGED <<globalId, nextGlobalId>> /\ ~(nextGlobalId < MaxClasses)
    BY <1>5 DEF TooManyClasses, HasIdLeft
  <2>2. nextGlobalId >= MaxClasses
    BY <2>1, RegistrationAssumption
  <2> QED
    BY <2>1, <2>2 DEF CapacityInv, NumberedClasses, Numbered
<1>6. CASE \E o \in Objects : Construct(o)
  BY <1>2, <1>6 DEF Construct
<1>7. CASE InitializeStep
  BY <1>2, <1>4, <1>5, <1>7 DEF InitializeStep, CopyType, FillTable, Visit,
     EarlyReturn, Descend, Store, BindFunction, Finish
<1>8. CASE UNCHANGED vars
  BY <1>2, <1>8 DEF vars
<1> QED
  BY <1>3, <1>6, <1>7, <1>8 DEF Next

(* The capacity assertion stops Initialize exactly when there are more      *)
(* classes than slots, for every hierarchy and order: what is counted up    *)
(* to it is the number of numbered classes.                                 *)
THEOREM CapacityCorrect == Spec => []CapacityIsChecked
<1>1. Init => CapacityInv
  <2>1. Init => NumberedClasses = {}
    BY DEF Init, NumberedClasses, Numbered
  <2> QED
    BY <2>1, FS_EmptySet DEF Init, CapacityInv
<1>2. TypeOK /\ InitializeInv /\ CapacityInv => CapacityIsChecked
  <2> SUFFICES ASSUME TypeOK, InitializeInv, CapacityInv
               PROVE  CapacityIsChecked
    OBVIOUS
  <2>1. nextGlobalId <= MaxClasses /\ nextGlobalId \in Nat /\ MaxClasses \in Nat
    BY RegistrationAssumption DEF InitializeInv, TableInv, TypeOK
  <2>2. ASSUME phase \in {"bind", "ready"} PROVE Cardinality(Classes) <= MaxClasses
    <3>1. NumberedClasses = Classes
      BY <2>2 DEF InitializeInv, TableInv, NumberedClasses
    <3> QED
      BY <2>1, <3>1 DEF CapacityInv
  <2>3. ASSUME phase = "halted", NEW c \in Classes, ~Numbered(c)
        PROVE  Cardinality(Classes) > MaxClasses
    <3>1. /\ NumberedClasses \in SUBSET Classes /\ NumberedClasses # Classes
          /\ IsFiniteSet(Classes)
      BY <2>3, NumberedIsFinite DEF NumberedClasses
    <3>2. /\ Cardinality(NumberedClasses) <= Cardinality(Classes)
          /\ Cardinality(NumberedClasses) # Cardinality(Classes)
          /\ Cardinality(Classes) \in Nat
      BY <3>1, FS_Subset, FS_CardinalityType
    <3>3. nextGlobalId >= MaxClasses /\ Cardinality(NumberedClasses) = nextGlobalId
      BY <2>3, <3>1 DEF CapacityInv
    <3> QED
      BY <2>1, <3>2, <3>3
  <2> QED
    BY <2>1, <2>2, <2>3 DEF CapacityIsChecked
<1> QED
  BY <1>1, <1>2, CapacityStep, TypeCorrect, InitializeCorrect, PTL DEF Spec
-----------------------------------------------------------------------------
(* MetaSystem implements ClassHierarchy, and keeps the action properties    *)
(* that say nothing it computed is ever taken back.                         *)

(* What derivesPairs is, in terms of the hierarchy.                         *)
PairsAreBases ==
    \A c, d \in Classes :
        <<c, d>> \in derivesPairs <=> Numbered(c) /\ IsBaseOf(parent, d, c)

(* The pairs read off the ids and lists are the bases of the numbered       *)
(* classes: ListsNameAncestors, seen from the abstract state.               *)
LEMMA DerivesPairsAre == TypeOK /\ NumberingInv => PairsAreBases
<1> SUFFICES ASSUME TypeOK, NumberingInv, NEW c \in Classes, NEW d \in Classes
             PROVE  <<c, d>> \in derivesPairs <=>
                      Numbered(c) /\ IsBaseOf(parent, d, c)
  BY DEF PairsAreBases
<1>1. <<c, d>> \in derivesPairs <=> c # d /\ Derives(c, d)
  BY DEF derivesPairs
<1>2. CASE Numbered(c)
  <2>1. BaseListsAreAncestors
    BY NumberingImpliesAncestors
  <2> QED
    BY <1>1, <1>2, <2>1 DEF BaseListsAreAncestors, IsBaseOf
<1>3. CASE ~Numbered(c)
  <2>1. baseTopoIds[c] = {}
    BY <1>3 DEF NumberingInv, ListsHoldGivenIds
  <2> QED
    BY <1>1, <1>3, <2>1 DEF Derives
<1> QED
  BY <1>2, <1>3

(* The same of the state after a step.                                      *)
LEMMA DerivesPairsStayBases == TypeOK' /\ NumberingInv' => PairsAreBases'
  BY DerivesPairsAre, PTL

(* The step that numbers a class is the abstract registration of it: the    *)
(* list copied from the parent is what the class inherits.                  *)
LEMMA NumberRegisters ==
    ASSUME TypeOK, NumberingInv, TypeOK', NumberingInv',
           NEW c \in Classes, Number(c)
    PROVE  Hierarchy!Register(c)
<1> DEFINE p == parent[c]
<1>1. /\ ~Numbered(c)
      /\ parent' = parent
      /\ globalId' = [globalId EXCEPT ![c] = nextGlobalId]
      /\ nextGlobalId' = nextGlobalId + 1
      /\ p # NoClass => p \in Classes /\ p # c /\ Numbered(p)
  BY NumberCases
<1>2. /\ phase = "number" /\ phase' = "number"
      /\ nextGlobalId \in Nat /\ globalId \in [Classes -> Int]
      /\ parent \in ParentMaps
  BY DEF Number, AboutToNumber, TypeOK
<1>3. ~isOpen /\ ~isOpen'
  BY <1>2 DEF isOpen
<1> PairsAreBases /\ PairsAreBases'
  BY DerivesPairsAre, DerivesPairsStayBases
<1>4. ASSUME NEW x \in Classes, NEW d \in Classes
      PROVE  <<x, d>> \in derivesPairs' <=>
               <<x, d>> \in derivesPairs \cup Hierarchy!Inherited(c)
  <2>1. <<x, d>> \in derivesPairs <=> Numbered(x) /\ IsBaseOf(parent, d, x)
    BY DEF PairsAreBases
  <2>2. <<x, d>> \in derivesPairs' <=> Numbered(x)' /\ IsBaseOf(parent, d, x)
    <3>1. (<<x, d>> \in derivesPairs <=> Numbered(x) /\ IsBaseOf(parent, d, x))'
      BY DEF PairsAreBases
    <3>2. IsBaseOf(parent, d, x)' <=> IsBaseOf(parent, d, x)
      BY <1>1 DEF IsBaseOf, Ancestors, ClosedUpwards
    <3> QED
      BY <3>1, <3>2
  <2>3. CASE x # c
    <3>1. Numbered(x)' <=> Numbered(x)
      BY <1>1, <1>2, <2>3 DEF Numbered
    <3>2. <<x, d>> \notin Hierarchy!Inherited(c)
      BY <2>3 DEF Hierarchy!Inherited
    <3> QED
      BY <2>1, <2>2, <3>1, <3>2
  <2>4. CASE x = c /\ p = NoClass
    <3>1. Ancestors(parent, c) = {c}
      BY <1>2, <2>4, AncestorsOfRoot
    <3>2. Hierarchy!Inherited(c) = {}
      BY <2>4 DEF Hierarchy!Inherited
    <3> QED
      BY <1>1, <2>1, <2>2, <2>4, <3>1, <3>2 DEF IsBaseOf
  <2>5. CASE x = c /\ p # NoClass
    <3>1. Ancestors(parent, c) = {c} \cup Ancestors(parent, p)
      BY <1>2, <2>5, AncestorsOfChild
    <3>2. p \in Ancestors(parent, p)
      BY <1>1, <1>2, <2>5, AncestorsAreClosed
    <3>3. c \notin Ancestors(parent, p)
      <4>1. ParentsAreKnownBases
        BY DEF NumberingInv
      <4> QED
        BY <1>1, <2>5, <4>1, AncestorsAreKnownBases
    <3>4. IsBaseOf(parent, d, c) <=> d = p \/ IsBaseOf(parent, d, p)
      BY <1>1, <2>5, <3>1, <3>2, <3>3 DEF IsBaseOf
    <3>5. <<p, d>> \in derivesPairs <=> IsBaseOf(parent, d, p)
      BY <1>1, <2>5 DEF PairsAreBases
    <3>6. <<c, d>> \in Hierarchy!Inherited(c) <=>
            d = p \/ <<p, d>> \in derivesPairs
      BY <1>1, <2>5 DEF Hierarchy!Inherited
    <3>7. Numbered(c)'
      BY <1>1, <1>2 DEF Numbered
    <3> QED
      BY <1>1, <2>1, <2>2, <2>5, <3>4, <3>5, <3>6, <3>7
  <2> QED
    BY <2>3, <2>4, <2>5
<1>5. derivesPairs' = derivesPairs \cup Hierarchy!Inherited(c)
  <2>1. derivesPairs \subseteq Classes \X Classes
    BY DEF derivesPairs
  <2>2. derivesPairs' \subseteq Classes \X Classes
    BY DEF derivesPairs
  <2>3. Hierarchy!Inherited(c) \subseteq Classes \X Classes
    BY DEF Hierarchy!Inherited
  <2> QED
    BY <1>4, <2>1, <2>2, <2>3
<1> QED
  <2>1. globalId[c] = -1
    BY <1>1 DEF Numbered
  <2>2. parent[c] # NoClass => globalId[parent[c]] # -1
    BY <1>1 DEF Numbered
  <2>3. UNCHANGED <<parent, isOpen>>
    BY <1>1, <1>2, <1>3 DEF isOpen
  <2> QED
    BY <1>1, <1>3, <1>5, <2>1, <2>2, <2>3, Zenon DEF Hierarchy!Register

(* Every other step opens the hierarchy or leaves it as it is.              *)
LEMMA OtherStepsOpenOrStutter ==
    ASSUME TypeOK, NumberingInv, InitializeInv, [Next]_vars,
           \A c \in Classes : ~Number(c)
    PROVE  Hierarchy!Open \/ UNCHANGED Hierarchy!vars
<1>1. UNCHANGED <<parent, numbering>>
  BY OtherStepsKeepNumbering
<1>2. UNCHANGED <<parent, globalId, nextGlobalId, derivesPairs>>
  BY <1>1 DEF numbering, derivesPairs, Derives
<1>3. CopyLoopInv /\ TableInv
  BY DEF InitializeInv
<1> SUFFICES isOpen' = isOpen \/ (~isOpen /\ isOpen' /\ \A c \in Classes : Numbered(c))
  BY <1>2, Zenon DEF Hierarchy!Open, Hierarchy!vars, Numbered
<1> USE DEF isOpen, Numbered
<1>4. CASE UNCHANGED vars
  BY <1>4 DEF vars, numbering
<1>5. ASSUME NEW o \in Objects, Construct(o)
      PROVE  isOpen' = isOpen
  BY <1>2, <1>5 DEF Construct
<1>6. ASSUME NEW o \in Objects, Initialize(o)
      PROVE  isOpen' = isOpen
  <2>1. CASE phase = "static"
    BY <1>2, <1>3, <1>6, <2>1 DEF Initialize, CopyLoopInv
  <2>2. CASE phase = "ready"
    BY <1>2, <1>3, <1>6, <2>2 DEF Initialize, CopyLoopInv, TableInv
  <2> QED
    BY <1>6, <2>1, <2>2 DEF Initialize
<1>7. ASSUME NEW t \in Types, CopyType(t)
      PROVE  isOpen' = isOpen
  BY <1>2, <1>7 DEF CopyType
<1>8. ASSUME NEW c \in Classes, Visit(c) \/ TooManyClasses(c)
      PROVE  isOpen' = isOpen
  BY <1>2, <1>8 DEF Visit, TooManyClasses, AboutToNumber
<1>9. CASE FillTable \/ EarlyReturn \/ Descend \/ Store
  BY <1>2, <1>9 DEF FillTable, EarlyReturn, Descend, Store
<1>10. ASSUME NEW f \in Functions, BindFunction(f)
       PROVE  isOpen' = isOpen
  BY <1>2, <1>10 DEF BindFunction
<1>11. CASE Finish
  BY <1>2, <1>3, <1>11 DEF Finish, TableInv
<1> QED
  BY <1>4, <1>5, <1>6, <1>7, <1>8, <1>9, <1>10, <1>11 DEF Next, InitializeStep

(* Initialize implements the abstract registration of a hierarchy: numbering*)
(* a class registers it, the end of Initialize opens the hierarchy, and     *)
(* everything else is invisible.                                            *)
THEOREM Refinement == Spec => ImplementsHierarchy
<1>1. Init => Hierarchy!Init
  <2> SUFFICES ASSUME Init PROVE Hierarchy!Init
    OBVIOUS
  <2>1. derivesPairs = {}
    BY DEF Init, derivesPairs, Derives
  <2>2. ~isOpen /\ isOpen \in BOOLEAN
    BY DEF Init, isOpen
  <2>3. parent \in Hierarchy!Forests
    BY DEF Init, Forests, ParentMaps, IsForest, Hierarchy!Forests,
           Hierarchy!ParentMaps, Hierarchy!IsForest
  <2> QED
    BY <2>1, <2>2, <2>3, Zenon DEF Init, Hierarchy!Init
<1>2. TypeOK /\ NumberingInv /\ InitializeInv /\ TypeOK' /\ NumberingInv'
        /\ [Next]_vars => [Hierarchy!Next]_(Hierarchy!vars)
  <2> SUFFICES ASSUME TypeOK, NumberingInv, InitializeInv, TypeOK',
                      NumberingInv', [Next]_vars
               PROVE  Hierarchy!Next \/ UNCHANGED Hierarchy!vars
    OBVIOUS
  <2>1. CASE \E c \in Classes : Number(c)
    BY <2>1, NumberRegisters DEF Hierarchy!Next
  <2>2. CASE \A c \in Classes : ~Number(c)
    BY <2>2, OtherStepsOpenOrStutter DEF Hierarchy!Next
  <2> QED
    BY <2>1, <2>2
<1> QED
  BY <1>1, <1>2, TypeCorrect, NumberingCorrect, InitializeCorrect, PTL
  DEF Spec, ImplementsHierarchy, Hierarchy!Spec

(* Numbering c leaves the ids of every numbered class as they are, and lets *)
(* its list grow by the class's own topology id alone.                      *)
LEMMA NumberWritesOnce ==
    ASSUME TypeOK, NumberingInv, NEW c \in Classes, Number(c),
           NEW x \in Classes
    PROVE  /\ Numbered(x) => globalId'[x] = globalId[x]
           /\ topoOrder[x] # -1 => topoOrder'[x] = topoOrder[x]
           /\ Numbered(x) => /\ baseTopoIds[x] \subseteq baseTopoIds'[x]
                             /\ baseTopoIds'[x] \ baseTopoIds[x]
                                  \subseteq {topoOrder'[x]}
<1> USE DEF TypeOK, Numbered
<1>1. globalId[c] = -1 /\ globalId' = [globalId EXCEPT ![c] = nextGlobalId]
  BY NumberCases
<1>2. Numbered(x) => x # c /\ globalId'[x] = globalId[x]
  BY <1>1
<1>3. topoOrder[x] # -1 => topoOrder'[x] = topoOrder[x]
  BY NumberCases
<1>4. ASSUME x # c
      PROVE  \/ baseTopoIds'[x] = baseTopoIds[x]
             \/ /\ baseTopoIds'[x] = baseTopoIds[x] \cup {nextTopoId}
                /\ topoOrder'[x] = nextTopoId
  <2>1. CASE parent[c] = NoClass
    BY <1>4, <2>1, NumberCases
  <2>2. CASE parent[c] # NoClass /\ topoOrder[parent[c]] # -1
    BY <1>4, <2>2, NumberCases
  <2>3. CASE parent[c] # NoClass /\ topoOrder[parent[c]] = -1
    <3>1. /\ parent[c] \in Classes
          /\ topoOrder' = [topoOrder EXCEPT ![parent[c]] = nextTopoId]
          /\ baseTopoIds' =
               [baseTopoIds EXCEPT
                  ![parent[c]] = baseTopoIds[parent[c]] \cup {nextTopoId},
                  ![c] = baseTopoIds[parent[c]] \cup {nextTopoId}]
      BY <2>3, NumberCases
    <3>2. CASE x = parent[c]
      BY <1>4, <3>1, <3>2
    <3>3. CASE x # parent[c]
      BY <1>4, <3>1, <3>3
    <3> QED
      BY <3>2, <3>3
  <2> QED
    BY <2>1, <2>2, <2>3
<1> QED
  BY <1>2, <1>3, <1>4

(* Ids are never reassigned and no list a derived class copied goes stale.  *)
THEOREM WrittenOnce == Spec => IdsAreWrittenOnce
<1> DEFINE Kept(c) ==
      /\ Numbered(c) => globalId'[c] = globalId[c]
      /\ topoOrder[c] # -1 => topoOrder'[c] = topoOrder[c]
      /\ Numbered(c) => /\ baseTopoIds[c] \subseteq baseTopoIds'[c]
                        /\ baseTopoIds'[c] \ baseTopoIds[c] \subseteq {topoOrder'[c]}
<1>1. TypeOK /\ NumberingInv /\ [Next]_vars => [\A c \in Classes : Kept(c)]_vars
  <2> SUFFICES ASSUME TypeOK, NumberingInv, [Next]_vars
               PROVE  \A c \in Classes : Kept(c)
    OBVIOUS
  <2>1. ASSUME NEW c \in Classes, Number(c) PROVE \A x \in Classes : Kept(x)
    BY <2>1, NumberWritesOnce
  <2>2. ASSUME \A c \in Classes : ~Number(c) PROVE \A x \in Classes : Kept(x)
    BY <2>2, OtherStepsKeepNumbering DEF numbering
  <2> QED
    BY <2>1, <2>2
<1> QED
  BY <1>1, TypeCorrect, NumberingCorrect, PTL DEF Spec, IdsAreWrittenOnce

(* Nothing is rebuilt once the system is in use, and every object made from *)
(* then on can be looked up.                                                *)
THEOREM ReadyStays == Spec => ReadyIsForever
<1> DEFINE Frozen ==
      phase = "ready" =>
        /\ UNCHANGED <<metaSystem, registry, numbering, classTable, functions>>
        /\ \A o \in constructed' \ constructed :
              classIdOf'[o] \in Ids /\ classTable[classIdOf'[o]] = ClassOf[o]
<1>1. TypeOK /\ TableInvertsIds /\ InitializeInv /\ [Next]_vars => [Frozen]_vars
  <2> SUFFICES ASSUME TypeOK, TableInvertsIds, InitializeInv, Next, phase = "ready"
               PROVE  Frozen
    BY DEF vars
  <2>1. CopyLoopInv
    BY DEF InitializeInv
  <2>2. ASSUME NEW o \in Objects, Construct(o) PROVE Frozen
    <3>1. /\ constructed' = constructed \cup {o}
          /\ classIdOf'[o] = MetaClassId(ClassOf[o])
          /\ UNCHANGED <<metaSystem, registry, numbering, classTable, functions>>
      BY <2>2 DEF Construct, TypeOK
    <3>2. ClassOf[o] \in Classes /\ ClassOf[o] \in copied
      BY <2>1, RegistrationAssumption DEF CopyLoopInv
    <3>3. classIdOf'[o] \in Ids /\ classTable[classIdOf'[o]] = ClassOf[o]
      BY <3>1, <3>2 DEF MetaClassId, TableInvertsIds
    <3> QED
      BY <3>1, <3>3
  <2>3. ASSUME NEW o \in Objects, Initialize(o) PROVE Frozen
    BY <2>1, <2>3 DEF Initialize, CopyLoopInv, objects
  <2>4. CASE InitializeStep
    BY <2>4 DEF InitializeStep, CopyType, FillTable, Visit, Number, EarlyReturn,
                AboutToNumber, Descend, TooManyClasses, Store, BindFunction,
                Finish
  <2> QED
    BY <2>2, <2>3, <2>4 DEF Next
<1> QED
  BY <1>1, TypeCorrect, TableIsCorrect, InitializeCorrect, PTL
  DEF Spec, ReadyIsForever

-----------------------------------------------------------------------------
(* What the casts rest on, all of it true of MetaSystem.                    *)
Tables ==
    /\ TypeOK
    /\ NumberingInv
    /\ InitializeInv
    /\ BaseListsAreAncestors
    /\ TableInvertsIds
    /\ ObjectsNeverMisresolve

(* Casting does not touch the tables: they are those of MetaSystem.         *)
LEMMA TablesHold == CastSpec => []Tables
<1>1. CastInit => Init
  BY DEF CastInit
<1>2. [CastNext]_castVars => [Next]_vars
  BY DEF CastNext, castVars, BindClass, Write, WriteNull, PopValues
<1>3. CastSpec => Spec
  BY <1>1, <1>2, PTL DEF CastSpec, Spec
<1> QED
  BY <1>3, TypeCorrect, NumberingCorrect, InitializeCorrect, ListsAreCorrect,
     TableIsCorrect, ObjectsResolve, PTL DEF Tables

(* The distances are numbers, fixed from the start.                         *)
LayoutOK == offset \in [Classes -> Int]

(* No step of the program moves the parts of an object.                     *)
LEMMA LayoutHolds == CastSpec => []LayoutOK
<1>1. CastInit => LayoutOK
  BY CastAssumption DEF CastInit, LayoutOK
<1>2. LayoutOK /\ [CastNext]_castVars => LayoutOK'
  BY DEF LayoutOK, CastNext, castVars, layout, BindClass, Write, WriteNull,
     PopValues
<1> QED
  BY <1>1, <1>2, PTL DEF CastSpec

-----------------------------------------------------------------------------
(* Ready tables, an object with an id, and the class whose id it carries:   *)
(* the facts every cast uses.                                               *)
LEMMA ReadyFacts ==
    ASSUME Tables, phase = "ready", NEW o \in constructed, classIdOf[o] # -1
    PROVE  /\ o \in Objects
           /\ ClassOf[o] \in Classes /\ ClassOf[o] \notin Foreign
           /\ classIdOf[o] \in Ids
           /\ classTable[classIdOf[o]] = ClassOf[o]
           /\ Numbered(ClassOf[o])
           /\ copied = Types
<1>1. o \in Objects /\ ClassOf[o] \in Classes /\ ClassOf[o] \notin Foreign
  BY RegistrationAssumption, CastAssumption DEF Tables, TypeOK
<1>2. classIdOf[o] \in Ids /\ classTable[classIdOf[o]] = ClassOf[o]
  BY DEF Tables, ObjectsNeverMisresolve
<1>3. Numbered(ClassOf[o]) /\ copied = Types
  BY <1>1 DEF Tables, InitializeInv, TableInv, CopyLoopInv
<1> QED
  BY <1>1, <1>2, <1>3

(* The id and the list of o's class answer what o is.                       *)
LEMMA ListsSayWhatItIs ==
    ASSUME Tables, phase = "ready", NEW o \in constructed, classIdOf[o] # -1,
           NEW t \in Classes
    PROVE  ClassOf[o] = t \/ Derives(ClassOf[o], t) <=> IsA(o, t)
<1>1. ClassOf[o] \in Classes /\ Numbered(ClassOf[o]) /\ parent \in ParentMaps
  BY ReadyFacts DEF Tables, TypeOK
<1>2. ClassOf[o] # t => (Derives(ClassOf[o], t) <=> IsA(o, t))
  BY <1>1 DEF Tables, BaseListsAreAncestors, IsBaseOf, IsA
<1>3. IsA(o, ClassOf[o])
  BY <1>1, AncestorsAreClosed DEF IsA
<1> QED
  BY <1>2, <1>3

(* A pointer that shows o as a class derived from Object leads to o's       *)
(* Object part, and so to the class whose id o carries.                     *)
LEMMA UpcastFindsObject ==
    ASSUME Tables, LayoutOK, phase = "ready", NEW o \in constructed,
           classIdOf[o] # -1, NEW s \in Classes \ Foreign
    PROVE  /\ Upcast(s, View(o, s)) = [object |-> o, at |-> 0]
           /\ Upcast(s, View(o, s)) # Null
           /\ ObjectClass(Upcast(s, View(o, s))) = ClassOf[o]
           /\ ClassOf[o] # NoClass
<1>1. o \in Objects /\ o # NoObject
  BY ReadyFacts, RegistrationAssumption
<1>2. View(o, s) = [object |-> o, at |-> -offset[s]] /\ View(o, s) # Null
  BY <1>1 DEF View, Null
<1>3. offset[s] \in Int
  BY DEF LayoutOK
<1>4. Upcast(s, View(o, s)) = [object |-> o, at |-> 0]
  BY <1>2, <1>3 DEF Upcast
<1> QED
  BY <1>1, <1>4, ReadyFacts, NoClassAssumption DEF ObjectClass, Null

(* And from there a class derived from Object finds its own part.           *)
LEMMA DowncastFindsView ==
    ASSUME LayoutOK, NEW o \in Objects, NEW t \in Classes
    PROVE  Downcast(t, [object |-> o, at |-> 0]) =
              IF t \in Foreign THEN Null ELSE View(o, t)
<1>1. [object |-> o, at |-> 0] # Null
  BY RegistrationAssumption DEF Null
<1>2. offset[t] \in Int
  BY DEF LayoutOK
<1> QED
  BY <1>1, <1>2 DEF Downcast, View

(* A cast from any type to a class, with the object's own place when the    *)
(* source is derived from Object. The source may be a static as well as a   *)
(* copy: only the comparison with the target tells them apart.              *)
LEMMA CastOfAView ==
    ASSUME Tables, LayoutOK, phase = "ready", NEW o \in constructed,
           classIdOf[o] # -1, NEW s \in Classes, NEW t \in Classes,
           NEW source, source.type = s, source # Copy(t)
    PROVE  DynamicCast(t, View(o, s), source) =
              IF {s, t} \cap Foreign = {} /\ IsA(o, t) THEN View(o, t) ELSE Null
<1> o \in Objects
  BY ReadyFacts
<1>1. CASE s \in Foreign
  BY <1>1 DEF DynamicCast, Upcast
<1>2. CASE s \notin Foreign
  <2> DEFINE up == Upcast(s, View(o, s))
  <2>1. /\ up = [object |-> o, at |-> 0] /\ up # Null
        /\ ObjectClass(up) = ClassOf[o] /\ ClassOf[o] # NoClass
    BY <1>2, UpcastFindsObject
  <2>2. DynamicCast(t, View(o, s), source) =
          IF ClassOf[o] = t \/ Derives(ClassOf[o], t)
          THEN Downcast(t, up) ELSE Null
    BY <2>1 DEF DynamicCast
  <2>3. ClassOf[o] = t \/ Derives(ClassOf[o], t) <=> IsA(o, t)
    BY ListsSayWhatItIs
  <2>4. Downcast(t, up) = IF t \in Foreign THEN Null ELSE View(o, t)
    BY <2>1, DowncastFindsView
  <2> QED
    BY <1>2, <2>2, <2>3, <2>4
<1> QED
  BY <1>1, <1>2

(* The metatype of a value that is no class gives no object.                *)
LEMMA CastOfAValue ==
    ASSUME Tables, phase = "ready", NEW s \in Types \ Classes,
           NEW t \in Classes, NEW p
    PROVE  DynamicCast(t, p, Active(s)) = Null
  BY DEF DynamicCast, Active, Copy

(* In every reachable state of a ready system DynamicCast finds exactly the *)
(* part of the object that the parent links and the layout say is there.    *)
THEOREM CastsAreCorrect == CastSpec => []CastsFindTheObject
<1>1. Tables /\ LayoutOK => CastsFindTheObject
  <2> SUFFICES ASSUME Tables, LayoutOK, phase = "ready",
                      NEW o \in constructed, NEW t \in Classes,
                      classIdOf[o] # -1
               PROVE  /\ \A s \in Views(o) :
                           DynamicCast(t, View(o, s), Active(s)) =
                             IF s = t \/ ({s, t} \cap Foreign = {} /\ IsA(o, t))
                             THEN View(o, t)
                             ELSE Null
                      /\ \A s \in Types \ Classes :
                           DynamicCast(t, View(o, ClassOf[o]), Active(s)) = Null
    BY DEF CastsFindTheObject
  <2>1. ASSUME NEW s \in Views(o)
        PROVE  DynamicCast(t, View(o, s), Active(s)) =
                 IF s = t \/ ({s, t} \cap Foreign = {} /\ IsA(o, t))
                 THEN View(o, t)
                 ELSE Null
    <3>1. s \in Classes
      BY RegistrationAssumption DEF Views, Ancestors
    <3>2. copied = Types /\ s \in Types
      BY <3>1, ReadyFacts, RegistrationAssumption
    <3>3. Active(s) = Copy(s) /\ Active(s).type = s
      BY <3>2 DEF Active, Copy
    <3>4. CASE s = t
      BY <3>3, <3>4 DEF DynamicCast
    <3>5. CASE s # t
      <4>1. Active(s) # Copy(t)
        BY <3>3, <3>5 DEF Copy
      <4> QED
        BY <3>1, <3>3, <3>5, <4>1, CastOfAView
    <3> QED
      BY <3>4, <3>5
  <2> QED
    BY <2>1, CastOfAValue
<1> QED
  BY <1>1, TablesHold, LayoutHolds, PTL

(* Member variables: a cast that finds the object's part, and an address in *)
(* it, for every hierarchy, layout and address.                             *)
THEOREM MembersAreCorrect == CastSpec => []MembersAreFound
<1>1. LayoutOK /\ Tables /\ CastsFindTheObject => MembersAreFound
  <2> SUFFICES ASSUME LayoutOK, Tables, CastsFindTheObject, phase = "ready",
                      NEW o \in constructed, NEW t \in Classes \ Foreign,
                      NEW a \in Addresses, classIdOf[o] # -1
               PROVE  /\ \A s \in Views(o) :
                           ResolveMember(t, View(o, s), Active(s), a) =
                             IF s = t \/ (s \notin Foreign /\ IsA(o, t))
                             THEN [object |-> o, at |-> a - offset[t]]
                             ELSE Error
                      /\ CountPlace(t, View(o, t), a) =
                           [object |-> o, at |-> a - offset[t]]
    BY DEF MembersAreFound
  <2>1. /\ o # NoObject /\ t # VoidClass
        /\ a \in Int /\ offset[t] \in Int
    <3>1. o \in Objects
      BY ReadyFacts
    <3>2. a \in Int /\ t # VoidClass
      BY CastAssumption
    <3> QED
      BY <3>1, <3>2, RegistrationAssumption DEF LayoutOK
  <2>2. View(o, t) = [object |-> o, at |-> -offset[t]] /\ View(o, t) # Null
    BY <2>1 DEF View, Null
  <2>3. [View(o, t) EXCEPT !.at = @ + a] = [object |-> o, at |-> a - offset[t]]
    BY <2>1, <2>2
  <2>4. ASSUME NEW s \in Views(o)
        PROVE  ResolveMember(t, View(o, s), Active(s), a) =
                 IF s = t \/ (s \notin Foreign /\ IsA(o, t))
                 THEN [object |-> o, at |-> a - offset[t]]
                 ELSE Error
    <3>1. DynamicCast(t, View(o, s), Active(s)) =
            IF s = t \/ (s \notin Foreign /\ IsA(o, t)) THEN View(o, t) ELSE Null
      BY DEF CastsFindTheObject
    <3> QED
      BY <2>1, <2>2, <2>3, <3>1 DEF ResolveMember
  <2>5. CountPlace(t, View(o, t), a) = [object |-> o, at |-> a - offset[t]]
    <3>1. DynamicCast(t, View(o, t), Copy(t)) = View(o, t)
      BY DEF DynamicCast
    <3> QED
      BY <2>1, <2>2, <2>3, <3>1 DEF CountPlace, ResolveMember
  <2> QED
    BY <2>4, <2>5
<1> QED
  BY <1>1, TablesHold, LayoutHolds, CastsAreCorrect, PTL
-----------------------------------------------------------------------------
(* A table in Lua names its own class, as the static or as the copy.        *)
BindingsOK ==
    \A c \in Classes : bindings[c] \in {Unbound, Static(c), Copy(c)}

LuaInv ==
    /\ bindings \in [Classes -> {Unbound} \cup [type : Classes, copy : BOOLEAN]]
    /\ BindingsOK
    /\ LuaValuesAreWritten

(* What Write stores is the object as the class it was written as sees it   *)
(* when that class is foreign, and otherwise as its own class does.         *)
LEMMA WriteStores ==
    ASSUME Tables, LayoutOK, phase = "ready", NEW o \in constructed,
           NEW c \in Classes, WriteType(c, View(o, c)) # Wild
    PROVE  /\ c \in Foreign => WriteType(c, View(o, c)) = View(o, c)
           /\ c \notin Foreign =>
                 /\ classIdOf[o] # -1
                 /\ WriteType(c, View(o, c)) = View(o, ClassOf[o])
<1>1. CASE c \in Foreign
  BY <1>1 DEF WriteType, Upcast
<1>2. CASE c \notin Foreign
  <2>1. o \in Objects
    BY DEF Tables, TypeOK
  <2>2. View(o, c) = [object |-> o, at |-> -offset[c]] /\ View(o, c) # Null
    BY <1>2, <2>1, RegistrationAssumption DEF View, Null
  <2>3. offset[c] \in Int
    BY DEF LayoutOK
  <2>4. Upcast(c, View(o, c)) = [object |-> o, at |-> 0]
    BY <1>2, <2>2, <2>3 DEF Upcast
  <2>5. classIdOf[o] # -1
    BY <2>1, <2>4, RegistrationAssumption
    DEF WriteType, ObjectClass, Null, Ids
  <2>6. /\ ObjectClass(Upcast(c, View(o, c))) = ClassOf[o]
        /\ ClassOf[o] # NoClass
        /\ ClassOf[o] \in Classes /\ ClassOf[o] \notin Foreign
        /\ Upcast(c, View(o, c)) # Null
    BY <1>2, <2>5, UpcastFindsObject, ReadyFacts
  <2>7. WriteType(c, View(o, c)) = Downcast(ClassOf[o], [object |-> o, at |-> 0])
    BY <2>4, <2>6 DEF WriteType
  <2> QED
    BY <1>2, <2>1, <2>5, <2>6, <2>7, DowncastFindsView
<1> QED
  BY <1>1, <1>2

(* A value stays written while objects keep their ids and places.           *)
LEMMA WrittenStays ==
    ASSUME constructed \subseteq constructed', UNCHANGED offset,
           \A o \in constructed : classIdOf'[o] = classIdOf[o],
           NEW v, IsWritten(v)
    PROVE  IsWritten(v)'
<1>1. \A o, c : View(o, c)' = View(o, c)
  BY DEF View
<1>2. CASE v = [class |-> Unbound, payload |-> Null]
  BY <1>2 DEF IsWritten, Unbound, Null
<1>3. ASSUME NEW o \in constructed, NEW c \in Classes,
             v.class \in {Unbound, Static(c), Copy(c)},
             c \in Foreign => v.payload = View(o, c),
             c \notin Foreign =>
               classIdOf[o] # -1 /\ v.payload = View(o, ClassOf[o])
      PROVE  IsWritten(v)'
  <2>1. /\ o \in constructed'
        /\ c \in Foreign => v.payload = View(o, c)'
        /\ c \notin Foreign =>
              classIdOf'[o] # -1 /\ v.payload = View(o, ClassOf[o])'
    BY <1>1, <1>3
  <2>2. v.class \in {Unbound', Static(c)', Copy(c)'}
    BY <1>3 DEF Unbound, Static, Copy
  <2> QED
    BY <2>1, <2>2 DEF IsWritten
<1> QED
  BY <1>2, <1>3 DEF IsWritten

(* Outside the casts no step takes an object or its id away while there are *)
(* values: a second Initialize only ever halts.                             *)
LEMMA NextKeepsObjects ==
    ASSUME Tables, Next
    PROVE  /\ constructed \subseteq constructed'
           /\ phase \in {"ready", "halted"} =>
                 /\ phase' \in {"ready", "halted"}
                 /\ \A o \in constructed : classIdOf'[o] = classIdOf[o]
<1> USE DEF registry, numbering, control, functions, objects
<1>1. classIdOf \in [Objects -> Int] /\ CopyLoopInv /\ constructed \subseteq Objects
  BY DEF Tables, TypeOK, InitializeInv
<1>2. ASSUME NEW q \in Objects, Construct(q)
      PROVE  /\ constructed \subseteq constructed'
             /\ phase' = phase
             /\ \A o \in constructed : classIdOf'[o] = classIdOf[o]
  BY <1>1, <1>2 DEF Construct
<1>3. ASSUME NEW q \in Objects, Initialize(q)
      PROVE  /\ UNCHANGED <<constructed, classIdOf>>
             /\ phase # "static" => phase' = "halted"
  BY <1>1, <1>3 DEF Initialize, CopyLoopInv
<1>4. CASE InitializeStep
  BY <1>4 DEF InitializeStep, CopyType, FillTable, Visit, Number, EarlyReturn,
              AboutToNumber, Descend, TooManyClasses, Store, BindFunction,
              Finish
<1> QED
  BY <1>2, <1>3, <1>4 DEF Next

(* What is left of the invariant when the values are old ones and written   *)
(* ones.                                                                    *)
LEMMA LuaInvStays ==
    ASSUME LuaInv, UNCHANGED <<offset, bindings>>,
           constructed \subseteq constructed',
           luaValues # {} \/ luaValues' # {} => phase' \in {"ready", "halted"},
           luaValues # {} => \A o \in constructed : classIdOf'[o] = classIdOf[o],
           \A v \in luaValues' \ luaValues : IsWritten(v)'
    PROVE  LuaInv'
<1>1. ASSUME NEW v \in luaValues PROVE IsWritten(v)'
  BY WrittenStays DEF LuaInv, LuaValuesAreWritten
<1>2. LuaValuesAreWritten'
  BY <1>1 DEF LuaValuesAreWritten
<1>3. BindingsOK'
  BY DEF LuaInv, BindingsOK, Unbound, Static, Copy
<1>4. (bindings \in [Classes -> {Unbound} \cup [type : Classes, copy : BOOLEAN]])'
  BY DEF LuaInv, Unbound
<1> QED
  BY <1>2, <1>3, <1>4 DEF LuaInv

(* Every value is a constructed object or nil, with a table of the class it *)
(* was written as: one step for each action.                                *)
LEMMA LuaStep ==
    ASSUME Tables, LayoutOK, LuaInv, [CastNext]_castVars
    PROVE  LuaInv'
<1> USE DEF vars, layout, lua, objects
<1>0. luaValues # {} => phase \in {"ready", "halted"}
  BY DEF LuaInv, LuaValuesAreWritten
<1>1. CASE UNCHANGED castVars
  BY <1>0, <1>1, LuaInvStays DEF castVars
<1>2. CASE Next /\ UNCHANGED <<layout, lua>>
  BY <1>0, <1>2, NextKeepsObjects, LuaInvStays
<1>3. ASSUME NEW c \in Classes, BindClass(c) PROVE LuaInv'
  <2>1. /\ bindings' = [bindings EXCEPT ![c] = Active(c)]
        /\ UNCHANGED <<offset, luaValues, phase, constructed, classIdOf>>
    BY <1>3 DEF BindClass
  <2>2. /\ Active(c) \in {Static(c), Copy(c)}
        /\ Active(c) \in [type : Classes, copy : BOOLEAN]
    <3>1. ASSUME NEW b \in BOOLEAN
          PROVE  /\ [type |-> c, copy |-> b] \in {Static(c), Copy(c)}
                 /\ [type |-> c, copy |-> b] \in [type : Classes, copy : BOOLEAN]
      <4>1. CASE b = TRUE
        BY <4>1 DEF Copy
      <4>2. CASE b = FALSE
        BY <4>2 DEF Static
      <4> QED
        BY <4>1, <4>2
    <3>2. (c \in copied) \in BOOLEAN
      OBVIOUS
    <3> QED
      BY <3>1, <3>2, Zenon DEF Active
  <2>3. BindingsOK'
    BY <2>1, <2>2 DEF LuaInv, BindingsOK, Unbound, Static, Copy
  <2>4. (bindings \in [Classes -> {Unbound} \cup [type : Classes, copy : BOOLEAN]])'
    BY <2>1, <2>2 DEF LuaInv, Unbound
  <2>5. LuaValuesAreWritten'
    BY <2>1, WrittenStays DEF LuaInv, LuaValuesAreWritten
  <2> QED
    BY <2>3, <2>4, <2>5 DEF LuaInv
<1>4. ASSUME NEW o \in Objects, NEW c \in Classes, Write(o, c) PROVE LuaInv'
  <2> DEFINE v == [class |-> bindings[c], payload |-> WriteType(c, View(o, c))]
  <2>1. /\ phase = "ready" /\ o \in constructed
        /\ WriteType(c, View(o, c)) # Wild
        /\ luaValues' = luaValues \cup {v}
        /\ UNCHANGED <<offset, bindings, phase, constructed, classIdOf>>
    BY <1>4 DEF Write
  <2>2. IsWritten(v)
    <3>1. v.class \in {Unbound, Static(c), Copy(c)}
      BY DEF LuaInv, BindingsOK
    <3>2. /\ c \in Foreign => v.payload = View(o, c)
          /\ c \notin Foreign =>
                classIdOf[o] # -1 /\ v.payload = View(o, ClassOf[o])
      BY <2>1, WriteStores
    <3> HIDE DEF v
    <3> QED
      BY <2>1, <3>1, <3>2 DEF IsWritten
  <2> HIDE DEF v
  <2>3. \A w \in luaValues' \ luaValues : IsWritten(w)
    BY <2>1, <2>2
  <2>4. \A w \in luaValues' \ luaValues : IsWritten(w)'
    BY <2>1, <2>3, WrittenStays
  <2> QED
    BY <2>1, <2>4, LuaInvStays
<1>5. CASE WriteNull
  <2>1. /\ phase = "ready"
        /\ luaValues' = luaValues \cup {[class |-> Unbound, payload |-> Null]}
        /\ UNCHANGED <<offset, bindings, phase, constructed, classIdOf>>
    BY <1>5 DEF WriteNull
  <2>2. \A w \in luaValues' \ luaValues : IsWritten(w)'
    BY <2>1 DEF IsWritten, Unbound, Null
  <2> QED
    BY <2>1, <2>2, LuaInvStays
<1>6. CASE PopValues
  BY <1>0, <1>6, LuaInvStays DEF PopValues
<1> QED
  BY <1>1, <1>2, <1>3, <1>4, <1>5, <1>6 DEF CastNext

(* Lua values come from objects that were written.                          *)
THEOREM ValuesAreWritten == CastSpec => []LuaValuesAreWritten
<1>1. CastInit => LuaInv
  BY DEF CastInit, LuaInv, BindingsOK, LuaValuesAreWritten
<1>2. CastSpec => []LuaInv
  BY <1>1, TablesHold, LayoutHolds, LuaStep, PTL DEF CastSpec
<1> QED
  BY <1>2, PTL DEF LuaInv

(* A base class of an object has a topology id, and its own list holds it.  *)
LEMMA BasesHoldTheirId ==
    ASSUME Tables, phase = "ready", NEW o \in constructed, classIdOf[o] # -1,
           NEW t \in Classes, IsA(o, t), t # ClassOf[o]
    PROVE  Derives(t, t)
<1>1. Derives(ClassOf[o], t)
  BY ListsSayWhatItIs
<1> QED
  BY <1>1 DEF Tables, NumberingInv, ListsHoldGivenIds, Derives

(* What ReadType makes of o as the class s: a cast, unless t has no topology*)
(* id.                                                                      *)
LEMMA ReadOfAView ==
    ASSUME Tables, LayoutOK, phase = "ready", NEW o \in constructed,
           NEW s \in Classes, NEW t \in Classes,
           s \notin Foreign => classIdOf[o] # -1,
           NEW v, v.class \in {Static(s), Copy(s)}, v.payload = View(o, s)
    PROVE  ReadType(t, v) =
             IF v.class = Copy(t)       THEN View(o, t)
             ELSE IF ~Derives(t, t)     THEN Error
             ELSE IF {s, t} \cap Foreign = {} /\ IsA(o, t)
                                        THEN View(o, t)
                                        ELSE Null
<1>1. o \in Objects /\ View(o, s) # Null
  BY RegistrationAssumption DEF Tables, TypeOK, View, Null
<1>2. v.class # Unbound /\ v.class.type = s
  BY NoClassAssumption DEF Unbound, Static, Copy
<1>3. DynamicCast(t, View(o, s), v.class) =
        IF v.class = Copy(t)    THEN View(o, t)
        ELSE IF {s, t} \cap Foreign = {} /\ IsA(o, t)
                                THEN View(o, t)
                                ELSE Null
  <2>1. CASE v.class = Copy(t)
    BY <1>2, <2>1 DEF DynamicCast, Copy
  <2>2. CASE v.class # Copy(t) /\ s \in Foreign
    BY <1>2, <2>2 DEF DynamicCast, Upcast
  <2>3. CASE v.class # Copy(t) /\ s \notin Foreign
    BY <1>2, <2>3, CastOfAView
  <2> QED
    BY <2>1, <2>2, <2>3
<1> QED
  BY <1>1, <1>2, <1>3 DEF ReadType

(* In every reachable state of a ready system a Lua value of an object      *)
(* whose class has the object's own layout reads back as what the object is.*)
THEOREM ReadsAreCorrect == CastSpec => []ReadsGiveTheObject
<1>1. Tables /\ LayoutOK /\ LuaValuesAreWritten => ReadsGiveTheObject
  <2> SUFFICES ASSUME Tables, LayoutOK, LuaValuesAreWritten, phase = "ready",
                      NEW v \in luaValues, NEW t \in Classes, HasOwnLayout(v)
               PROVE  LET o == v.payload.object
                          s == v.class.type
                      IN  /\ ReadType(t, v) \in {Error, Null, View(o, t)}
                          /\ ReadType(t, v) = View(o, t) => t = s \/ IsA(o, t)
                          /\ v.class = Copy(t) => ReadType(t, v) = View(o, t)
                          /\ {s, t} \cap Foreign = {} /\ IsA(o, t)
                                /\ t # ClassOf[o] => ReadType(t, v) = View(o, t)
    BY DEF ReadsGiveTheObject
  <2>1. PICK o \in constructed, s \in Classes :
          /\ v.class \in {Unbound, Static(s), Copy(s)}
          /\ s \in Foreign => v.payload = View(o, s)
          /\ s \notin Foreign =>
                classIdOf[o] # -1 /\ v.payload = View(o, ClassOf[o])
    BY DEF LuaValuesAreWritten, HasOwnLayout, IsWritten
  <2>2. /\ v.class \in {Static(s), Copy(s)} /\ v.class.type = s
        /\ s \notin Foreign =>
              offset[s] = offset[ClassOf[v.payload.object]]
    BY <2>1 DEF HasOwnLayout, Static, Copy
  <2>3. v.payload.object = o /\ v.payload = View(o, s)
    <3>1. CASE s \in Foreign
      BY <2>1, <3>1 DEF View
    <3>2. CASE s \notin Foreign
      <4>1. ClassOf[o] \notin Foreign
        BY <2>1, <3>2, ReadyFacts
      <4> QED
        BY <2>1, <2>2, <3>2, <4>1 DEF View
    <3> QED
      BY <3>1, <3>2
  <2>4. o \in Objects /\ o # NoObject
    BY RegistrationAssumption DEF Tables, TypeOK
  <2>5. View(o, t) # Error /\ View(o, t) # Null
    BY <2>4 DEF View, Error, Null
  <2>6. v.class = Copy(t) => t = s
    BY <2>2 DEF Copy
  <2>7. ReadType(t, v) =
          IF v.class = Copy(t)       THEN View(o, t)
          ELSE IF ~Derives(t, t)     THEN Error
          ELSE IF {s, t} \cap Foreign = {} /\ IsA(o, t)
                                     THEN View(o, t)
                                     ELSE Null
    BY <2>1, <2>2, <2>3, ReadOfAView
  <2>8. {s, t} \cap Foreign = {} /\ IsA(o, t) /\ t # ClassOf[o] => Derives(t, t)
    BY <2>1, BasesHoldTheirId
  <2> QED
    BY <2>2, <2>3, <2>5, <2>6, <2>7, <2>8
<1> QED
  BY <1>1, TablesHold, LayoutHolds, ValuesAreWritten, PTL
-----------------------------------------------------------------------------

(* What scripts do is casts, reads and writes, and the construction of an   *)
(* object: they neither touch the tables nor move the parts of an object.   *)
LEMMA BridgeRefinesSystem == BridgeSpec => Spec
<1>1. BridgeInit => Init
  BY DEF BridgeInit, CastInit
<1>2. [BridgeNext]_bridgeVars => [Next]_vars
  <2> SUFFICES ASSUME [BridgeNext]_bridgeVars PROVE [Next]_vars
    OBVIOUS
  <2>1. ASSUME NEW c \in Classes, NEW arg, MetaLuaNew(c, arg) PROVE Next
    BY <2>1 DEF MetaLuaNew, Next, Construct
  <2>2. ASSUME NEW c, NEW v, NEW arg,
               MetaLuaDelete(c, v, arg) \/ MetaLuaDeleteNull(c, v)
                 \/ MetaLuaCast(c, v)
        PROVE  UNCHANGED vars
    BY <2>2 DEF MetaLuaDelete, MetaLuaDeleteNull, MetaLuaCast, bridgeVars,
                castVars
  <2>3. ASSUME NEW c, NEW o, BindClass(c) \/ Write(o, c) \/ PopValues
        PROVE  UNCHANGED vars
    BY <2>3 DEF BindClass, Write, PopValues
  <2> QED
    BY <2>1, <2>2, <2>3 DEF BridgeNext, bridgeVars, castVars, Next
<1> QED
  BY <1>1, <1>2, PTL DEF BridgeSpec, Spec

(* The tables are as complete under scripts as under casts alone.           *)
LEMMA BridgeTables == BridgeSpec => []Tables
  BY BridgeRefinesSystem, TypeCorrect, NumberingCorrect, InitializeCorrect,
     ListsAreCorrect, TableIsCorrect, ObjectsResolve, PTL DEF Tables

(* Scripts delete what they made, as objects derived from Object, and what  *)
(* is foreign to Object has no distance to it.                              *)
ScriptInv ==
    /\ alive \subseteq constructed
    /\ \A o \in alive : builtAs[o] \in Classes \ Foreign
    /\ \A c \in Foreign : offset[c] = 0

(* The step of a script is one of the program's, or it makes an object: the *)
(* cast of the engine only ever gives nil.                                  *)
LEMMA BridgeStepIs ==
    ASSUME Tables, ScriptInv, [BridgeNext]_bridgeVars
    PROVE  \/ [CastNext]_castVars
           \/ \E c \in Classes, arg \in HeapArguments : MetaLuaNew(c, arg)
<1>1. ASSUME NEW c, NEW v, MetaLuaCast(c, v) PROVE CastNext
  <2>1. CastTo(c, v) = Null
    BY <1>1 DEF MetaLuaCast, CastTo, IsDerivedFrom
  <2>2. WriteNull
    BY <1>1, <2>1 DEF MetaLuaCast, WriteNull
  <2> QED
    BY <2>2 DEF CastNext
<1>2. ASSUME NEW c, NEW v, NEW arg,
             MetaLuaDelete(c, v, arg) \/ MetaLuaDeleteNull(c, v)
      PROVE  UNCHANGED castVars
  BY <1>2 DEF MetaLuaDelete, MetaLuaDeleteNull, bridgeVars
<1>3. ASSUME NEW c \in Classes, NEW o \in alive, BindClass(c) \/ Write(o, c)
      PROVE  CastNext
  <2>1. o \in Objects
    BY DEF ScriptInv, Tables, TypeOK
  <2> QED
    BY <1>3, <2>1 DEF CastNext
<1>4. ASSUME NEW c \in Classes, BindClass(c) PROVE CastNext
  BY <1>4 DEF CastNext
<1>5. PopValues => CastNext
  BY DEF CastNext
<1>6. ASSUME \/ InitializeStep
             \/ \E o \in Objects : Initialize(o) \/ Construct(o),
             UNCHANGED <<layout, lua>>
      PROVE  CastNext
  BY <1>6 DEF CastNext, Next
<1>7. UNCHANGED bridgeVars => UNCHANGED castVars
  BY DEF bridgeVars
<1> QED
  BY <1>1, <1>2, <1>3, <1>4, <1>5, <1>6, <1>7 DEF BridgeNext

(* ScriptInv holds in every reachable state.                                *)
LEMMA ScriptInvHolds == BridgeSpec => []ScriptInv
<1>1. BridgeInit => ScriptInv
  BY DEF BridgeInit, CastInit, ScriptInv
<1>2. ScriptInv /\ [BridgeNext]_bridgeVars => ScriptInv'
  <2> SUFFICES ASSUME ScriptInv, [BridgeNext]_bridgeVars PROVE ScriptInv'
    OBVIOUS
  <2> DEFINE Keeps ==
               /\ constructed \subseteq constructed' /\ UNCHANGED layout
               /\ alive' \subseteq alive
                     \cup {o \in constructed' : builtAs[o] \in Classes \ Foreign}
  <2>1. Keeps
    <3>1. ASSUME NEW c \in Classes, NEW arg, MetaLuaNew(c, arg) PROVE Keeps
      BY <3>1 DEF MetaLuaNew
    <3>2. ASSUME NEW c, NEW v, NEW arg,
                 MetaLuaDelete(c, v, arg) \/ MetaLuaDeleteNull(c, v)
                   \/ MetaLuaCast(c, v)
          PROVE  Keeps
      BY <3>2 DEF MetaLuaDelete, MetaLuaDeleteNull, MetaLuaCast, bridgeVars,
                  castVars, vars, objects
    <3>3. ASSUME NEW c, NEW o, BindClass(c) \/ Write(o, c) \/ PopValues,
                 UNCHANGED alive
          PROVE  Keeps
      BY <3>3 DEF BindClass, Write, PopValues, vars, objects
    <3>4. ASSUME NEW o, Construct(o) \/ Initialize(o) \/ InitializeStep,
                 UNCHANGED <<layout, alive>>
          PROVE  Keeps
      BY <3>4 DEF Construct, Initialize, InitializeStep, CopyType, FillTable,
                  Visit, Number, EarlyReturn, AboutToNumber, Descend,
                  TooManyClasses, Store, BindFunction, Finish, objects
    <3>5. UNCHANGED bridgeVars => Keeps
      BY DEF bridgeVars, castVars, vars, objects
    <3> HIDE DEF Keeps
    <3> QED
      BY <3>1, <3>2, <3>3, <3>4, <3>5 DEF BridgeNext
  <2> QED
    BY <2>1 DEF ScriptInv, layout
<1> QED
  BY <1>1, <1>2, PTL DEF BridgeSpec

(* What WriteType stores for an object with an id: the object as its own    *)
(* class sees it.                                                           *)
OwnViewIsWritten ==
    phase = "ready" =>
        \A o \in constructed, c \in Classes \ Foreign :
            classIdOf[o] # -1 => WriteType(c, View(o, c)) = View(o, ClassOf[o])

(* A value is written with the pointer of the class it is written as.       *)
LEMMA WritesOwnView == Tables /\ LayoutOK => OwnViewIsWritten
<1> SUFFICES ASSUME Tables, LayoutOK, phase = "ready", NEW o \in constructed,
                    NEW c \in Classes \ Foreign, classIdOf[o] # -1
             PROVE  WriteType(c, View(o, c)) = View(o, ClassOf[o])
  BY DEF OwnViewIsWritten
<1>1. /\ Upcast(c, View(o, c)) = [object |-> o, at |-> 0]
      /\ Upcast(c, View(o, c)) # Null
      /\ ObjectClass(Upcast(c, View(o, c))) = ClassOf[o]
      /\ ClassOf[o] # NoClass
  BY UpcastFindsObject
<1>2. o \in Objects /\ ClassOf[o] \in Classes /\ ClassOf[o] \notin Foreign
  BY ReadyFacts
<1>3. WriteType(c, View(o, c)) = Downcast(ClassOf[o], [object |-> o, at |-> 0])
  BY <1>1 DEF WriteType
<1> QED
  BY <1>2, <1>3, DowncastFindsView

(* The same in the state in which a new object has been written.            *)
LEMMA WritesOwnViewNext == Tables' /\ LayoutOK' => OwnViewIsWritten'
  BY WritesOwnView, PTL

(* An object a script makes is given an id, since the system is ready, and  *)
(* the value it gets is that object.                                        *)
LEMMA NewIsWritten ==
    ASSUME Tables, Tables', LayoutOK, LayoutOK', LuaInv,
           NEW c \in Classes, NEW arg, MetaLuaNew(c, arg)
    PROVE  LuaInv'
<1>0. PICK o \in Objects \ constructed :
         /\ constructed' = constructed \cup {o}
         /\ classIdOf' = [classIdOf EXCEPT ![o] = MetaClassId(ClassOf[o])]
         /\ luaValues' = luaValues \cup
              {[class |-> bindings[c], payload |-> WriteType(c, View(o, c))']}
  BY DEF MetaLuaNew
<1>1. PICK v :
         /\ v = [class |-> bindings[c], payload |-> WriteType(c, View(o, c))']
         /\ luaValues' = luaValues \cup {v}
  BY <1>0
<1>2. /\ phase = "ready" /\ phase' = "ready" /\ c \notin Foreign
      /\ UNCHANGED <<offset, bindings>>
  BY DEF MetaLuaNew, layout
<1>3. classIdOf'[o] # -1
  <2>1. ClassOf[o] \in Classes /\ Numbered(ClassOf[o]) /\ copied = Types
    BY <1>2, RegistrationAssumption DEF Tables, InitializeInv, TableInv,
                                        CopyLoopInv
  <2>2. MetaClassId(ClassOf[o]) # -1
    BY <2>1, RegistrationAssumption DEF MetaClassId, Numbered
  <2>3. classIdOf \in [Objects -> Int]
    BY DEF Tables, TypeOK
  <2> QED
    BY <1>0, <1>1, <2>2, <2>3
<1>4. IsWritten(v)'
  <2>1. WriteType(c, View(o, c))' = View(o, ClassOf[o])'
    BY <1>0, <1>1, <1>2, <1>3, WritesOwnViewNext DEF OwnViewIsWritten
  <2>2. v.class \in {Unbound, Static(c), Copy(c)}
    BY <1>0, <1>1 DEF LuaInv, BindingsOK
  <2>3. v.payload = View(o, ClassOf[o])' /\ o \in constructed'
    BY <1>0, <1>1, <2>1
  <2> QED
    BY <1>2, <1>3, <2>2, <2>3 DEF IsWritten, Unbound, Static, Copy
<1>5. \A q \in constructed : classIdOf'[q] = classIdOf[q]
  BY <1>0, <1>1 DEF Tables, TypeOK
<1> QED
  BY <1>0, <1>1, <1>2, <1>4, <1>5, LuaInvStays

(* The layouts and the Lua values are in order under scripts too.           *)
LEMMA BridgeValues == BridgeSpec => [](LayoutOK /\ LuaInv)
<1>1. BridgeInit => LuaInv /\ LayoutOK
  BY CastAssumption DEF BridgeInit, CastInit, LuaInv, BindingsOK,
                        LuaValuesAreWritten, LayoutOK
<1>2. ASSUME LayoutOK, LuaInv, Tables, Tables', ScriptInv,
             [BridgeNext]_bridgeVars
      PROVE  LayoutOK' /\ LuaInv'
  <2>1. CASE [CastNext]_castVars
    <3>1. UNCHANGED layout
      BY <2>1 DEF CastNext, castVars, BindClass, Write, WriteNull, PopValues
    <3> QED
      BY <1>2, <2>1, <3>1, LuaStep DEF LayoutOK, layout
  <2>2. ASSUME NEW c \in Classes, NEW arg, MetaLuaNew(c, arg)
        PROVE  LayoutOK' /\ LuaInv'
    <3>1. LayoutOK'
      BY <1>2, <2>2 DEF MetaLuaNew, LayoutOK, layout
    <3> QED
      BY <1>2, <2>2, <3>1, NewIsWritten
  <2> QED
    BY <1>2, <2>1, <2>2, BridgeStepIs
<1> QED
  BY <1>1, <1>2, BridgeTables, ScriptInvHolds, PTL DEF BridgeSpec
-----------------------------------------------------------------------------
(* A delete that keeps the rules reads the pointer new returned, unless the *)
(* classes it went through lay Object out differently.                      *)
LEMMA DeleteReadsTheBlock ==
    ASSUME Tables, LayoutOK, LuaInv, ScriptInv, phase = "ready",
           NEW c \in Classes, NEW v \in luaValues, v.payload.object \in alive,
           ReadType(c, v) \notin {Error, Null},
           SameLayout({c, v.class.type, builtAs[v.payload.object],
                       ClassOf[v.payload.object]})
    PROVE  ReadType(c, v) = View(v.payload.object, builtAs[v.payload.object])
<1> DEFINE o == v.payload.object
           b == builtAs[o]
<1>1. o \in Objects /\ o \in constructed /\ o # NoObject /\ b \in Classes \ Foreign
  BY RegistrationAssumption DEF ScriptInv, Tables, TypeOK
<1>2. PICK q \in constructed, s \in Classes :
         /\ v.class \in {Unbound, Static(s), Copy(s)}
         /\ s \in Foreign => v.payload = View(q, s)
         /\ s \notin Foreign =>
               classIdOf[q] # -1 /\ v.payload = View(q, ClassOf[q])
  BY <1>1 DEF LuaInv, LuaValuesAreWritten, IsWritten, Null
<1>3. o = q /\ v.payload # Null
  BY <1>1, <1>2 DEF View, Null
<1>4. v.class \in {Static(s), Copy(s)} /\ v.class.type = s
  BY <1>2, <1>3 DEF ReadType, Static, Copy
<1>5. offset[c] = offset[b] /\ offset[s] = offset[b] /\ offset[ClassOf[o]] = offset[b]
  BY <1>4 DEF SameLayout
<1>6. v.payload = View(o, s)
  <2>1. s \notin Foreign => ClassOf[o] \notin Foreign
    BY <1>1, CastAssumption
  <2> QED
    BY <1>2, <1>3, <1>5, <2>1 DEF View
<1>7. ReadType(c, v) = View(o, c) /\ (c = s \/ {s, c} \cap Foreign = {})
  <2>1. ReadType(c, v) =
          IF v.class = Copy(c)       THEN View(o, c)
          ELSE IF ~Derives(c, c)     THEN Error
          ELSE IF {s, c} \cap Foreign = {} /\ IsA(o, c)
                                     THEN View(o, c)
                                     ELSE Null
    BY <1>1, <1>2, <1>3, <1>4, <1>6, ReadOfAView
  <2>2. v.class = Copy(c) => c = s
    BY <1>4 DEF Copy
  <2> QED
    BY <2>1, <2>2
<1>8. View(o, c) = View(o, b)
  <2>1. CASE c \in Foreign
    <3>1. offset[c] = 0 /\ offset[b] = 0
      BY <1>5, <2>1 DEF ScriptInv
    <3> QED
      BY <1>1, <2>1, <3>1 DEF View
  <2>2. CASE c \notin Foreign
    BY <1>1, <1>5, <2>2 DEF View
  <2> QED
    BY <2>1, <2>2
<1> QED
  BY <1>7, <1>8

(* Every delete of a script frees the block its object was allocated in,    *)
(* for any hierarchy, layout, numbering and bindings: only classes that lay *)
(* Object out differently can make it free another address.                 *)
THEOREM DeletesAreCorrect == BridgeSpec => []DeletesFreeTheBlock
<1>1. BridgeInit => DeletesFreeTheBlock
  BY DEF BridgeInit, DeletesFreeTheBlock
<1>2. ASSUME DeletesFreeTheBlock, Tables, LayoutOK, LuaInv, ScriptInv,
             [BridgeNext]_bridgeVars
      PROVE  DeletesFreeTheBlock'
  <2>1. ASSUME NEW c \in Classes, NEW v \in luaValues, NEW arg,
               MetaLuaDelete(c, v, arg)
        PROVE  DeletesFreeTheBlock'
    <3> DEFINE o == v.payload.object
               p == ReadType(c, v)
               m == [object |-> o, as |-> c, tag |-> v.class.type]
    <3>1. /\ phase = "ready" /\ o \in alive /\ p \notin {Error, Null}
          /\ misfreed' = IF p = View(o, builtAs[o]) THEN misfreed
                         ELSE misfreed \cup {m}
          /\ UNCHANGED layout
      BY <2>1 DEF MetaLuaDelete, castVars
    <3>2. p = View(o, builtAs[o])
            \/ ~SameLayout({c, v.class.type, builtAs[o], ClassOf[o]})
      BY <1>2, <3>1, DeleteReadsTheBlock
    <3> HIDE DEF p
    <3>3. \A x \in misfreed' : x \in misfreed \/ (x = m /\
             ~SameLayout({c, v.class.type, builtAs[o], ClassOf[o]}))
      BY <3>1, <3>2
    <3>4. \A x \in misfreed' :
             ~SameLayout({x.as, x.tag, builtAs[x.object], ClassOf[x.object]})
      BY <1>2, <3>3 DEF DeletesFreeTheBlock
    <3> QED
      BY <3>1, <3>4 DEF DeletesFreeTheBlock, SameLayout, layout
  <2>2. ASSUME UNCHANGED <<layout, misfreed>> PROVE DeletesFreeTheBlock'
    BY <1>2, <2>2 DEF DeletesFreeTheBlock, SameLayout, layout
  <2>3. ASSUME ~ \E c \in Classes, v \in luaValues, arg \in HeapArguments :
                   MetaLuaDelete(c, v, arg)
        PROVE  UNCHANGED <<layout, misfreed>>
    <3>1. ASSUME NEW c, NEW v, NEW arg,
                 MetaLuaNew(c, arg) \/ MetaLuaDeleteNull(c, v)
                   \/ MetaLuaCast(c, v)
          PROVE  UNCHANGED <<layout, misfreed>>
      BY <3>1 DEF MetaLuaNew, MetaLuaDeleteNull, MetaLuaCast, bridgeVars, castVars
    <3>2. ASSUME NEW c, NEW o, BindClass(c) \/ Write(o, c) \/ PopValues
          PROVE  UNCHANGED layout
      BY <3>2 DEF BindClass, Write, PopValues
    <3>3. UNCHANGED bridgeVars => UNCHANGED <<layout, misfreed>>
      BY DEF bridgeVars, castVars
    <3> QED
      BY <1>2, <2>3, <3>1, <3>2, <3>3 DEF BridgeNext
  <2> QED
    BY <2>1, <2>2, <2>3
<1> QED
  BY <1>1, <1>2, BridgeTables, BridgeValues, ScriptInvHolds, PTL DEF BridgeSpec

(* Two values of classes derived from Object compare equal in Lua exactly   *)
(* when they are the same object, whatever classes they were written as.    *)
THEOREM EqualityIsCorrect == BridgeSpec => []SameObjectIsEqual
<1>1. Tables /\ LuaInv => SameObjectIsEqual
  <2> SUFFICES ASSUME Tables, LuaInv, NEW v \in luaValues, NEW w \in luaValues,
                      v.payload # Null, w.payload # Null,
                      {v.class.type, w.class.type}
                        \cap (Foreign \cup {NoClass}) = {}
               PROVE  MetaLuaEq(v, w) <=> v.payload.object = w.payload.object
    BY DEF SameObjectIsEqual
  <2>1. ASSUME NEW x \in luaValues, x.payload # Null,
               x.class.type \notin Foreign \cup {NoClass}
        PROVE  x.payload = View(x.payload.object, ClassOf[x.payload.object])
    <3>1. PICK q \in constructed, s \in Classes :
             /\ x.class \in {Unbound, Static(s), Copy(s)}
             /\ s \in Foreign => x.payload = View(q, s)
             /\ s \notin Foreign =>
                   classIdOf[q] # -1 /\ x.payload = View(q, ClassOf[q])
      BY <2>1 DEF LuaInv, LuaValuesAreWritten, IsWritten
    <3>2. x.class.type = s /\ s \notin Foreign
      BY <2>1, <3>1 DEF Unbound, Static, Copy
    <3> QED
      BY <3>1, <3>2 DEF View
  <2>2. /\ v.payload = View(v.payload.object, ClassOf[v.payload.object])
        /\ w.payload = View(w.payload.object, ClassOf[w.payload.object])
    BY <2>1
  <2> QED
    BY <2>2 DEF MetaLuaEq
<1> QED
  BY <1>1, BridgeTables, BridgeValues, PTL
=============================================================================
