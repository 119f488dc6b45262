----------------------------- MODULE MetaSystem -----------------------------
(* MetaSystemExample of Base/Meta.hpp and Base/Meta.cpp: how the metatypes  *)
(* that file-scope statics registered become the tables the program uses.   *)
(*                                                                          *)
(* All registrations happened before main. Initialize then walks the list   *)
(* of metatypes and makes an active copy of each, fills the id table with   *)
(* void, numbers the classes in the order an unordered_map happens to give, *)
(* parents first through m_RecursiveInit, resolves the signatures of the    *)
(* member functions and corrects the id of the system object itself. A      *)
(* failed SkyAssert halts the program.                                      *)
(*                                                                          *)
(* A registered name belongs to one static (the registration macros define  *)
(* a C++ object with that name), so tables keyed by name are keyed by the   *)
(* metatype itself here.                                                    *)
EXTENDS Inheritance, Sequences, FiniteSets

CONSTANTS
    Types,          \* the registered metatypes, classes among them
    VoidClass,      \* the metatype of "void", which answers AsClass()
    SystemClass,    \* the metaclass of MetaSystemExample
    MaxClasses,     \* kMaxClasses, 0xA00 in the code
    Objects,        \* the objects the program may construct
    ClassOf,        \* the C++ class of each object
    NoObject,       \* nullptr
    Functions,      \* the registered member functions
    FunctionClass,  \* the class each one is a member of
    FunctionTypes   \* the types in its signature

ASSUME RegistrationAssumption ==
    /\ IsFiniteSet(Types)
    /\ Classes \subseteq Types
    /\ VoidClass \in Classes
    /\ SystemClass \in Classes
    /\ VoidClass # SystemClass
    /\ MaxClasses \in Nat \ {0}
    /\ ClassOf \in [Objects -> Classes]
    /\ NoObject \notin Objects
    /\ FunctionClass \in [Functions -> Classes]
    /\ FunctionTypes \in [Functions -> SUBSET Types]

VARIABLES
    phase,          \* how far Initialize is; "halted" after a failed assert
    metaSystem,     \* g_metaSystem
    parent,         \* m_parent of each class
    copied,         \* the statics whose m_self is the copy; also m_metaTypes
    globalId,       \* m_globalId of the active copy
    topoOrder,      \* m_topoOrder of the active copy
    baseTopoIds,    \* m_baseTopoIdList of the active copy, as a set
    nextGlobalId,   \* Initialize's counter globalId
    nextTopoId,     \* Initialize's counter topoOrder
    pending,        \* the classes the numbering loop has still to visit
    visiting,       \* the class its iterator is at
    stack,          \* the frames of m_RecursiveInit, innermost first
    classTable,     \* m_classes
    signature,      \* the metatypes each member function's copy points at
    bound,          \* the member functions stored in their class' container
    classIdOf,      \* m_metaClassId of each object
    constructed     \* the objects that exist

registry  == <<parent, copied>>
numbering == <<globalId, topoOrder, baseTopoIds, nextGlobalId, nextTopoId>>
control   == <<pending, visiting, stack>>
functions == <<signature, bound>>
objects   == <<classIdOf, constructed>>
vars == <<phase, metaSystem, registry, numbering, control, classTable,
          functions, objects>>

Ids == 0 .. MaxClasses - 1
Phases == {"static", "copy", "fill", "number", "bind", "ready", "halted"}

Numbered(c) == globalId[c] # -1

\* Slip: m_self of the static still names the static.
Active_StaticOnly(t) == [type |-> t, copy |-> FALSE]

(* What GetActive returns for a static: the copy once there is one.         *)
Active(t) == [type |-> t, copy |-> t \in copied]

\* Slip: the id of the static is read, not of its active copy.
MetaClassId_OfStatic(c) == -1

(* MetaClassId(T): only a copy is ever numbered, a static keeps -1.         *)
MetaClassId(c) == IF c \in copied THEN globalId[c] ELSE -1

Init ==
    /\ phase = "static"
    /\ metaSystem = NoObject
    /\ parent \in Forests
    /\ parent[VoidClass] = NoClass /\ parent[SystemClass] = NoClass
    /\ \A c \in Classes : parent[c] # VoidClass
    /\ copied = {}
    /\ globalId = [c \in Classes |-> -1]
    /\ topoOrder = [c \in Classes |-> -1]
    /\ baseTopoIds = [c \in Classes |-> {}]
    /\ nextGlobalId = 0
    /\ nextTopoId = 0
    /\ pending = {}
    /\ visiting = NoClass
    /\ stack = <<>>
    /\ classTable = [i \in Ids |-> NoClass]
    /\ signature = [f \in Functions |-> {}]
    /\ bound = {}
    /\ classIdOf = [o \in Objects |-> -1]
    /\ constructed = {}

(* The constructor of an object records the id its class has at that time.  *)
(* Nothing constructs objects while Initialize runs.                        *)
Construct(o) ==
    /\ phase \in {"static", "ready"}
    /\ o \notin constructed
    /\ constructed' = constructed \cup {o}
    /\ classIdOf' = [classIdOf EXCEPT ![o] = MetaClassId(ClassOf[o])]
    /\ UNCHANGED <<phase, metaSystem, registry, numbering, control,
                   classTable, functions>>

(* Initialize on o up to its first loop. g_metaSystem is set already when   *)
(* some system was initialized before: the assertion stops the program.     *)
Initialize(o) ==
    /\ phase \in {"static", "ready"}
    /\ o \in constructed
    /\ ClassOf[o] = SystemClass
    /\ \/ /\ metaSystem = NoObject
          /\ metaSystem' = o
          /\ phase' = "copy"
       \/ /\ metaSystem # NoObject
          /\ phase' = "halted"
          /\ UNCHANGED metaSystem
    /\ UNCHANGED <<registry, numbering, control, classTable, functions,
                   objects>>

\* Slip: types that are not classes go into m_metaClasses too.
CopyType_AllAreClasses(t) ==
    /\ phase = "copy"
    /\ t \notin copied
    /\ copied' = copied \cup {t}
    /\ pending' = pending \cup {t}
    /\ phase' = IF copied' = Types THEN "fill" ELSE phase
    /\ UNCHANGED <<metaSystem, parent, numbering, visiting, stack, classTable,
                   functions, objects>>

(* One turn of the copy loop: Copy, SetActive on both, into the name tables.*)
CopyType(t) ==
    /\ phase = "copy"
    /\ t \notin copied
    /\ copied' = copied \cup {t}
    /\ pending' = IF t \in Classes THEN pending \cup {t} ELSE pending
    /\ phase' = IF copied' = Types THEN "fill" ELSE phase
    /\ UNCHANGED <<metaSystem, parent, numbering, visiting, stack, classTable,
                   functions, objects>>

(* Every slot of the table answers void until a class is stored in it.      *)
FillTable ==
    /\ phase = "fill"
    /\ classTable' = [i \in Ids |-> VoidClass]
    /\ phase' = "number"
    /\ UNCHANGED <<metaSystem, registry, numbering, control, functions,
                   objects>>

\* Slip: the iterator does not move on.
Visit_Again(c) ==
    /\ phase = "number"
    /\ visiting = NoClass
    /\ c \in pending
    /\ visiting' = c
    /\ stack' = <<c>>
    /\ UNCHANGED <<phase, metaSystem, registry, numbering, pending, classTable,
                   functions, objects>>

(* The numbering loop takes its next class and calls m_RecursiveInit on it. *)
Visit(c) ==
    /\ phase = "number"
    /\ visiting = NoClass
    /\ c \in pending
    /\ pending' = pending \ {c}
    /\ visiting' = c
    /\ stack' = <<c>>
    /\ UNCHANGED <<phase, metaSystem, registry, numbering, classTable,
                   functions, objects>>

(* m_RecursiveInit returns at once from a class that has its number.        *)
EarlyReturn ==
    /\ phase = "number"
    /\ stack # <<>>
    /\ Numbered(Head(stack))
    /\ stack' = Tail(stack)
    /\ UNCHANGED <<phase, metaSystem, registry, numbering, pending, visiting,
                   classTable, functions, objects>>

(* m_RecursiveInit calls itself on a parent that has no number yet.         *)
Descend ==
    /\ phase = "number"
    /\ stack # <<>>
    /\ LET c == Head(stack) IN
         /\ ~Numbered(c)
         /\ parent[c] # NoClass
         /\ ~Numbered(parent[c])
         /\ stack' = <<parent[c]>> \o stack
    /\ UNCHANGED <<phase, metaSystem, registry, numbering, pending, visiting,
                   classTable, functions, objects>>

(* The innermost frame can number its class: the parent, if any, is done.   *)
AboutToNumber(c) ==
    /\ phase = "number"
    /\ stack # <<>>
    /\ c = Head(stack)
    /\ ~Numbered(c)
    /\ parent[c] # NoClass => Numbered(parent[c])

\* Slip: a base gets a new id from each derived class.
BecomesBase_EachTime(p) == p # NoClass

(* The first class numbered below p makes p a base: it gets a topology id   *)
(* of its own and enters its own list. A p that has one keeps it.           *)
BecomesBase(p) == p # NoClass /\ topoOrder[p] = -1

TopoOrderWith(p) ==
    IF BecomesBase(p) THEN [topoOrder EXCEPT ![p] = nextTopoId] ELSE topoOrder

BaseTopoIdsWith(p) ==
    IF BecomesBase(p) THEN [baseTopoIds EXCEPT ![p] = @ \cup {nextTopoId}]
                      ELSE baseTopoIds

\* Slips: the list is copied before the parent enters it; only the parent's
\* own id is inherited.
InheritedList_TooEarly(p) == IF p = NoClass THEN {} ELSE baseTopoIds[p]
InheritedList_ParentOnly(p) == IF p = NoClass THEN {} ELSE {TopoOrderWith(p)[p]}

(* What a class below p copies into its own, cleared list.                  *)
InheritedList(p) == IF p = NoClass THEN {} ELSE BaseTopoIdsWith(p)[p]

\* Slip: one id too many.
HasIdLeft_OffByOne == nextGlobalId <= MaxClasses

(* The assertion that an id below kMaxClasses is left.                      *)
HasIdLeft == nextGlobalId < MaxClasses

(* The rest of m_RecursiveInit for a class whose parent is done. The data   *)
(* container of the class is created with its number.                       *)
Number(c) ==
    /\ AboutToNumber(c)
    /\ HasIdLeft
    /\ globalId' = [globalId EXCEPT ![c] = nextGlobalId]
    /\ nextGlobalId' = nextGlobalId + 1
    /\ LET p == parent[c] IN
         /\ topoOrder' = TopoOrderWith(p)
         /\ nextTopoId' = IF BecomesBase(p) THEN nextTopoId + 1 ELSE nextTopoId
         /\ baseTopoIds' = [BaseTopoIdsWith(p) EXCEPT ![c] = InheritedList(p)]
    /\ stack' = Tail(stack)
    /\ UNCHANGED <<phase, metaSystem, registry, pending, visiting, classTable,
                   functions, objects>>

(* The assertion fails: one class too many was registered.                  *)
TooManyClasses(c) ==
    /\ AboutToNumber(c)
    /\ ~HasIdLeft
    /\ phase' = "halted"
    /\ UNCHANGED <<metaSystem, registry, numbering, control, classTable,
                   functions, objects>>

\* Slip: the slot of the class numbered last, not of the class visited.
Store_LastNumbered ==
    /\ phase = "number"
    /\ visiting # NoClass
    /\ stack = <<>>
    /\ classTable' = [classTable EXCEPT ![nextGlobalId - 1] = visiting]
    /\ visiting' = NoClass
    /\ phase' = IF pending = {} THEN "bind" ELSE phase
    /\ UNCHANGED <<metaSystem, registry, numbering, pending, stack, functions,
                   objects>>

(* The loop body stores the class it visited, and only that one, in the     *)
(* table; parents numbered on the way are stored when their turn comes.     *)
Store ==
    /\ phase = "number"
    /\ visiting # NoClass
    /\ stack = <<>>
    /\ classTable' = [classTable EXCEPT ![globalId[visiting]] = visiting]
    /\ visiting' = NoClass
    /\ phase' = IF pending = {} THEN "bind" ELSE phase
    /\ UNCHANGED <<metaSystem, registry, numbering, pending, stack, functions,
                   objects>>

(* One turn of the member function loop: copy, resolve the signature, store *)
(* the copy in the container of the function's class.                       *)
BindFunction(f) ==
    /\ phase = "bind"
    /\ f \notin bound
    /\ signature' = [signature EXCEPT ![f] =
                        {Active(t) : t \in FunctionTypes[f]}]
    /\ bound' = bound \cup {f}
    /\ UNCHANGED <<phase, metaSystem, registry, numbering, control,
                   classTable, objects>>

\* Slip: the system object keeps the id it was constructed with.
Finish_KeepsId ==
    /\ phase = "bind"
    /\ bound = Functions
    /\ phase' = "ready"
    /\ UNCHANGED <<metaSystem, registry, numbering, control, classTable,
                   functions, objects>>

(* Initialize's last statement: the system object was constructed before    *)
(* its class had a number, and is given it now.                             *)
Finish ==
    /\ phase = "bind"
    /\ bound = Functions
    /\ classIdOf' = [classIdOf EXCEPT ![metaSystem] = MetaClassId(SystemClass)]
    /\ phase' = "ready"
    /\ UNCHANGED <<metaSystem, registry, numbering, control, classTable,
                   functions, constructed>>

(* The steps of a call to Initialize that is under way.                     *)
InitializeStep ==
    \/ \E t \in Types : CopyType(t)
    \/ FillTable
    \/ \E c \in Classes : Visit(c) \/ Number(c) \/ TooManyClasses(c)
    \/ EarlyReturn
    \/ Descend
    \/ Store
    \/ \E f \in Functions : BindFunction(f)
    \/ Finish

Next ==
    \/ \E o \in Objects : Construct(o) \/ Initialize(o)
    \/ InitializeStep

Spec == Init /\ [][Next]_vars

(* Initialize is a plain call: once entered its thread keeps running it.    *)
FairSpec == Spec /\ WF_vars(InitializeStep)
-----------------------------------------------------------------------------
TypeOK ==
    /\ phase \in Phases
    /\ metaSystem \in Objects \cup {NoObject}
    /\ parent \in ParentMaps
    /\ copied \subseteq Types
    /\ globalId \in [Classes -> Int]
    /\ topoOrder \in [Classes -> Int]
    /\ baseTopoIds \in [Classes -> SUBSET Int]
    /\ nextGlobalId \in Nat
    /\ nextTopoId \in Nat
    /\ pending \subseteq Classes
    /\ visiting \in Classes \cup {NoClass}
    /\ stack \in Seq(Classes)
    /\ classTable \in [Ids -> Classes \cup {NoClass}]
    /\ signature \in [Functions -> SUBSET [type : Types, copy : BOOLEAN]]
    /\ bound \subseteq Functions
    /\ classIdOf \in [Objects -> Int]
    /\ constructed \subseteq Objects

(* The test DynamicCast makes on the class of an object (Meta.cpp:212-225): *)
(* d was given a topology id, and it is in the list c inherited.            *)
Derives(c, d) == topoOrder[d] # -1 /\ topoOrder[d] \in baseTopoIds[c]

(* The ids answer "is d a base class of c" exactly as the parent links do,  *)
(* for every hierarchy, whatever order the unordered_map numbers it in and  *)
(* although a base gets its topology id only when a first class derives     *)
(* from it, after other lists may have been copied from its own.            *)
BaseListsAreAncestors ==
    \A c, d \in Classes :
        Numbered(c) /\ c # d => (Derives(c, d) <=> IsBaseOf(parent, d, c))

(* Why the lists are right, in the parts each step of m_RecursiveInit keeps:*)
(* ids and topology ids are given out once, upwards from 0;                 *)
IdsAreGivenOnce ==
    /\ \A c \in Classes :
          /\ Numbered(c) => globalId[c] \in 0 .. nextGlobalId - 1
          /\ topoOrder[c] # -1 => topoOrder[c] \in 0 .. nextTopoId - 1
    /\ \A c, d \in Classes :
          /\ Numbered(c) /\ globalId[c] = globalId[d] => c = d
          /\ topoOrder[c] # -1 /\ topoOrder[c] = topoOrder[d] => c = d

(* lists hold given ids, those of the class itself included, and a class    *)
(* without a number has neither a topology id nor a list;                   *)
ListsHoldGivenIds ==
    \A c \in Classes :
        /\ baseTopoIds[c] \subseteq 0 .. nextTopoId - 1
        /\ topoOrder[c] # -1 => topoOrder[c] \in baseTopoIds[c]
        /\ ~Numbered(c) => topoOrder[c] = -1 /\ baseTopoIds[c] = {}

(* the parent of a numbered class has a smaller number and is a known base; *)
ParentsAreKnownBases ==
    \A c \in Classes :
        Numbered(c) /\ parent[c] # NoClass =>
            /\ Numbered(parent[c])
            /\ globalId[parent[c]] < globalId[c]
            /\ topoOrder[parent[c]] # -1

(* among the classes that have a topology id, a numbered class' list names  *)
(* its ancestors.                                                           *)
ListsNameAncestors ==
    \A c, d \in Classes :
        Numbered(c) /\ topoOrder[d] # -1 =>
            (topoOrder[d] \in baseTopoIds[c] <=> d \in Ancestors(parent, c))

(* Together they are inductive: what BaseListsAreAncestors, ParentsFirst    *)
(* and the refinement below follow from.                                    *)
NumberingInv ==
    /\ IdsAreGivenOnce
    /\ ListsHoldGivenIds
    /\ ParentsAreKnownBases
    /\ ListsNameAncestors

(* A parent is always initialized before its children (MetaTest.cpp:442):   *)
(* it has a number, and a smaller one.                                      *)
ParentsFirst ==
    \A c \in Classes :
        Numbered(c) /\ parent[c] # NoClass =>
            Numbered(parent[c]) /\ globalId[parent[c]] < globalId[c]

(* GetMetaClassById inverts GetId: no two classes ever share a slot, and    *)
(* after the numbering loop each class is found at its id, void elsewhere,  *)
(* although the loop stores only the classes it visits itself.              *)
TableInvertsIds ==
    /\ phase \in {"number", "bind", "ready"} =>
          \A i \in Ids : classTable[i] # VoidClass => globalId[classTable[i]] = i
    /\ phase \in {"bind", "ready"} =>
          \A c \in Classes : globalId[c] \in Ids /\ classTable[globalId[c]] = c

(* How far Initialize has come, in the parts its steps keep: before the     *)
(* numbering loop;                                                          *)
CopyLoopInv ==
    /\ phase = "static" <=> metaSystem = NoObject
    /\ phase = "static" => copied = {} /\ pending = {}
    /\ phase \in {"static", "copy", "fill"} => visiting = NoClass /\ stack = <<>>
    /\ phase \in {"copy", "fill"} => pending = copied \cap Classes
    /\ phase \in {"fill", "number", "bind", "ready"} => copied = Types

(* in it, where the class visited has its number once m_RecursiveInit is    *)
(* back from its outermost call;                                            *)
VisitInv ==
    /\ stack # <<>> => visiting # NoClass /\ stack[Len(stack)] = visiting
    /\ phase = "number" /\ visiting # NoClass /\ stack = <<>> => Numbered(visiting)

(* and in the table, where every class whose turn is over has its slot.     *)
TableInv ==
    /\ nextGlobalId <= MaxClasses
    /\ phase \in {"number", "bind", "ready"} =>
          \A i \in Ids : /\ classTable[i] \in Classes
                         /\ classTable[i] # VoidClass => globalId[classTable[i]] = i
    /\ phase = "number" =>
          \A c \in Classes : \/ c \in pending \cup {visiting}
                             \/ Numbered(c) /\ classTable[globalId[c]] = c
    /\ phase \in {"bind", "ready"} =>
          \A c \in Classes : Numbered(c) /\ classTable[globalId[c]] = c

InitializeInv == CopyLoopInv /\ VisitInv /\ TableInv

(* An object is found under its own class or, built before that class had a *)
(* number, carries -1; it never resolves to a class it is not. The system   *)
(* object, always built too early, resolves once Initialize is done.        *)
ObjectsNeverMisresolve ==
    phase \in {"static", "ready"} =>
        \A o \in constructed :
            IF classIdOf[o] = -1 THEN o # metaSystem \/ phase = "static"
            ELSE classIdOf[o] \in Ids /\ classTable[classIdOf[o]] = ClassOf[o]

(* What keeps objects right: an object's id was read from its own class     *)
(* once that had its final value, and the system object was corrected.      *)
ObjectInv ==
    /\ \A o \in Objects : classIdOf[o] \in {-1, globalId[ClassOf[o]]}
    /\ phase = "static" => \A o \in Objects : classIdOf[o] = -1
    /\ metaSystem # NoObject => ClassOf[metaSystem] = SystemClass
    /\ phase = "ready" => classIdOf[metaSystem] # -1

(* The capacity assertion stops the program exactly when more classes were  *)
(* registered than m_classes has slots: never before, and never too late.   *)
CapacityIsChecked ==
    /\ nextGlobalId <= MaxClasses
    /\ phase \in {"bind", "ready"} => Cardinality(Classes) <= MaxClasses
    /\ phase = "halted" /\ (\E c \in Classes : ~Numbered(c)) =>
          Cardinality(Classes) > MaxClasses

(* The signature of a bound function names active copies only, and the      *)
(* container it was stored in existed: resolving it one loop earlier would  *)
(* keep pointers to statics no comparison with an active type ever matches. *)
SignaturesUseCopies ==
    \A f \in bound :
        /\ signature[f] = {[type |-> t, copy |-> TRUE] : t \in FunctionTypes[f]}
        /\ Numbered(FunctionClass[f])

(* Ids are written once, and the list of a numbered class only ever gains   *)
(* the class' own topology id: what a derived class copied stays right.     *)
IdsAreWrittenOnce ==
    [][\A c \in Classes :
         /\ Numbered(c) => globalId'[c] = globalId[c]
         /\ topoOrder[c] # -1 => topoOrder'[c] = topoOrder[c]
         /\ Numbered(c) =>
               /\ baseTopoIds[c] \subseteq baseTopoIds'[c]
               /\ baseTopoIds'[c] \ baseTopoIds[c] \subseteq {topoOrder'[c]}
      ]_vars

(* Once the system is in use its tables are frozen, a second Initialize     *)
(* included, and an object constructed from then on resolves to its class.  *)
ReadyIsForever ==
    [][phase = "ready" =>
         /\ UNCHANGED <<metaSystem, registry, numbering, classTable, functions>>
         /\ \A o \in constructed' \ constructed :
               classIdOf'[o] \in Ids /\ classTable[classIdOf'[o]] = ClassOf[o]
      ]_vars

(* A call to Initialize ends: with every table built when the classes fit,  *)
(* at the capacity assertion when they do not.                              *)
InitializeEnds ==
    phase = "copy" ~>
        IF Cardinality(Classes) <= MaxClasses THEN phase = "ready"
                                              ELSE phase = "halted"
-----------------------------------------------------------------------------
(* The promise of ClassHierarchy, kept by these tables.                     *)
derivesPairs ==
    {e \in Classes \X Classes : e[1] # e[2] /\ Derives(e[1], e[2])}

isOpen ==
    \/ phase = "ready"
    \/ phase = "halted" /\ \A c \in Classes : Numbered(c)

Hierarchy == INSTANCE ClassHierarchy
                WITH number <- globalId, count <- nextGlobalId,
                     derives <- derivesPairs, open <- isOpen

(* Initialize refines the abstract registration of a class hierarchy.       *)
ImplementsHierarchy == Hierarchy!Spec
=============================================================================
