----------------------------- MODULE LuaBridge -----------------------------
(* What a script does with the table of a bound class: new, delete, cast    *)
(* and __eq of Base/LuaInterface.cpp, over the casts and Lua values of      *)
(* MetaCast. An object a script made lives on the Heap passed to new, or in *)
(* the runtime's memory, until a script deletes it.                         *)
(*                                                                          *)
(* Scripts are taken to keep to the rules of manual memory: they delete an  *)
(* object once, pass the heap they made it with, and read it only before.   *)
(* Destructors are taken to be virtual where it is deleted as a base, and   *)
(* an allocation to succeed. The classes of scripts are bound once          *)
(* Initialize is over, and one order of numbering is looked at: MetaCast    *)
(* has the others.                                                          *)
EXTENDS MetaCast

CONSTANTS
    Parent,         \* m_parent of each class
    Numbering,      \* the id each class is given
    Heaps,          \* the heaps of the program
    HeapClass,      \* the metaclass of Heap
    RootClass,      \* the metaclass of Object
    Abstract        \* the classes that are not constructed

ASSUME BridgeAssumption ==
    /\ Numbering \in [Classes -> Nat]
    /\ {HeapClass, RootClass} \subseteq Classes \ Foreign
    /\ Parent[HeapClass] = NoClass
    /\ VoidClass \in Abstract
    /\ Heaps \cap (Objects \cup {NoObject}) = {}

VARIABLES
    alive,      \* the objects scripts made and did not delete
    home,       \* the heap each of them was allocated on, or Null
    misfreed    \* deletes that freed no block of the object: a history

bridgeVars == <<castVars, alive, home, misfreed>>

HeapAt(h) == [object |-> h, at |-> 0]

BridgeInit ==
    /\ parent = Parent
    /\ CastInit
    /\ offset[RootClass] = 0 /\ offset[HeapClass] = 0
    /\ alive = {}
    /\ home = [o \in Objects |-> Null]
    /\ misfreed = {}
-----------------------------------------------------------------------------
Nil == [class |-> Unbound, payload |-> Null]

(* A missing argument counts as nil. Values of other classes are refused.   *)
HeapArguments ==
    {Nil} \cup luaValues
      \cup {[class |-> bindings[HeapClass], payload |-> HeapAt(h)] : h \in Heaps}

HeapIn(arg) == ReadType(HeapClass, arg)

IsBound(c) == bindings[c] # Unbound

(* Class.new(heap), and the constructor it runs. An error leaves nothing.   *)
MetaLuaNew(c, arg) ==
    /\ phase = "ready"
    /\ IsBound(c)
    /\ c \notin Abstract \cup Foreign
    /\ HeapIn(arg) # Error
    /\ Cardinality(luaValues) < LuaValueBound
    /\ \E o \in Objects \ constructed :
          /\ builtAs[o] = c
          /\ constructed' = constructed \cup {o}
          /\ classIdOf' = [classIdOf EXCEPT ![o] = MetaClassId(ClassOf[o])]
          /\ alive' = alive \cup {o}
          /\ home' = [home EXCEPT ![o] = HeapIn(arg)]
          /\ UNCHANGED <<phase, metaSystem, registry, numbering, control,
                         classTable, functions, layout, bindings, misfreed>>
          /\ luaValues' = luaValues \cup
                {[class |-> bindings[c], payload |-> WriteType(c, View(o, c))']}

(* Class.delete(value, heap). What it frees is the pointer it reads.        *)
MetaLuaDelete(c, v, arg) ==
    LET o == v.payload.object
        p == ReadType(c, v)
    IN  /\ phase = "ready"
        /\ IsBound(c)
        /\ o \in alive
        /\ p \notin {Error, Null}
        /\ HeapIn(arg) = home[o]
        /\ alive' = alive \ {o}
        /\ misfreed' = IF p = View(o, builtAs[o]) THEN misfreed
                       ELSE misfreed \cup
                              {[object |-> o, as |-> c, tag |-> v.class.type]}
        /\ UNCHANGED <<castVars, home>>

(* A null pointer is no object: without a heap nothing is deleted, and on a *)
(* heap the destructor of nothing is undefined.                             *)
MetaLuaDeleteNull(c, v) ==
    /\ phase = "ready"
    /\ IsBound(c)
    /\ ReadType(c, v) = Null
    /\ UNCHANGED bridgeVars

\* The stub the engine has.
IsDerivedFrom(s, t) == FALSE

(* What value:cast() of the table of c returns for v.                       *)
CastTo(c, v) ==
    LET p == ReadType(RootClass, v)
        s == ObjectClass(p)
    IN  IF p = Error                               THEN Error
        ELSE IF p = Null \/ ~IsDerivedFrom(s, c)   THEN Null
        ELSE Downcast(s, p)

MetaLuaCast(c, v) ==
    /\ phase = "ready"
    /\ IsBound(c)
    /\ v = Nil \/ v.payload.object \in alive
    /\ CastTo(c, v) # Error
    /\ Cardinality(luaValues) < LuaValueBound
    /\ luaValues' = luaValues \cup
          {[class |-> IF CastTo(c, v) = Null THEN Unbound
                      ELSE bindings[ObjectClass(CastTo(c, v))],
            payload |-> CastTo(c, v)]}
    /\ UNCHANGED <<vars, layout, bindings, alive, home, misfreed>>

(* __eq compares the pointers in two userdata.                              *)
MetaLuaEq(v, w) == v.payload # Null /\ w.payload # Null /\ v.payload = w.payload

InOrder == \A c \in Classes : globalId'[c] \in {-1, Numbering[c]}

(* The program itself constructs the system and no other object. It passes  *)
(* objects on to scripts as any of their classes.                           *)
BridgeNext ==
    \/ /\ \/ InitializeStep /\ InOrder
          \/ \E o \in Objects : Initialize(o)
          \/ \E o \in Objects : ClassOf[o] = SystemClass /\ Construct(o)
       /\ UNCHANGED <<layout, lua, alive, home, misfreed>>
    \/ /\ \/ \E c \in Classes : phase = "ready" /\ BindClass(c)
          \/ \E o \in alive, c \in Classes : Write(o, c)
          \/ PopValues
       /\ UNCHANGED <<alive, home, misfreed>>
    \/ \E c \in Classes, arg \in HeapArguments : MetaLuaNew(c, arg)
    \/ \E c \in Classes, v \in luaValues, arg \in HeapArguments :
          MetaLuaDelete(c, v, arg)
    \/ \E c \in Classes, v \in luaValues :
          MetaLuaDeleteNull(c, v) \/ MetaLuaCast(c, v)

BridgeSpec == BridgeInit /\ [][BridgeNext]_bridgeVars
-----------------------------------------------------------------------------
SameLayout(S) == \A c, d \in S : offset[c] = offset[d]

(* A delete frees the block new allocated, whichever of the object's bound  *)
(* classes deletes it and as whichever it was written, wherever that block  *)
(* is: an address that is wrong comes from classes that lay out Object      *)
(* differently.                                                             *)
DeletesFreeTheBlock ==
    \A m \in misfreed :
        ~SameLayout({m.as, m.tag, builtAs[m.object], ClassOf[m.object]})

(* __eq calls two values of classes derived from Object equal when, and     *)
(* only when, they are the same object, also when they were written as      *)
(* different classes with different layouts.                                *)
SameObjectIsEqual ==
    \A v, w \in luaValues :
        v.payload # Null /\ w.payload # Null
          /\ {v.class.type, w.class.type} \cap (Foreign \cup {NoClass}) = {} =>
            (MetaLuaEq(v, w) <=> v.payload.object = w.payload.object)
=============================================================================
