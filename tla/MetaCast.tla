------------------------------ MODULE MetaCast ------------------------------
(* Pointers to reflected objects: MetaClass::DynamicCast over the tables    *)
(* MetaSystem built, and what WriteType puts on the Lua stack and ReadType  *)
(* takes off it.                                                            *)
(*                                                                          *)
(* Object need not be the first part of an object (a virtual function in a  *)
(* class below it moves it), so a pointer is an object and a place in it,   *)
(* counted from its Object part. The conversions MetaClassImpl<T> compiles  *)
(* in are the distance between the two parts, one number for each class.    *)
EXTENDS MetaSystem

CONSTANTS
    Offsets,        \* how far Object may lie behind the start of a class
    Foreign,        \* the classes not derived from Object; void is one
    Addresses,      \* where in its class a member variable may lie
    LuaClassBound,  \* how many classes are bound in Lua together
    LuaValueBound   \* how many Lua values are looked at together

ASSUME CastAssumption ==
    /\ Offsets \subseteq Int
    /\ Foreign \subseteq Classes
    /\ VoidClass \in Foreign
    /\ SystemClass \notin Foreign
    /\ \A o \in Objects : ClassOf[o] \notin Foreign
    /\ Addresses \subseteq Nat
    /\ LuaClassBound \in Nat /\ LuaValueBound \in Nat

VARIABLES
    offset,     \* the distance from the start of each class to its Object
    builtAs,    \* the class an object really has; ClassOf is the one whose
                \* id its constructor passed on, which may be a base's
    bindings,   \* the __metaclass of each class' global table in Lua
    luaValues   \* the values on the Lua stack

layout == <<offset, builtAs>>
lua == <<bindings, luaValues>>
castVars == <<vars, layout, lua>>

(* What is no place in an object: nullptr, an address that is garbage, and  *)
(* the Lua error or failed assertion that comes instead of one.             *)
Null  == [object |-> NoObject, at |-> 0]
Wild  == [object |-> NoObject, at |-> 1]
Error == [object |-> NoObject, at |-> 2]

Pointers == [object : Objects, at : Int]

(* A pointer of static type c to o. Nothing looks through a foreign one.    *)
View(o, c) == [object |-> o, at |-> IF c \in Foreign THEN 0 ELSE -offset[c]]

(* The static types C++ gives pointers to o.                                *)
Views(o) == Ancestors(parent, builtAs[o]) \cup {VoidClass}

Static(c) == [type |-> c, copy |-> FALSE]
Copy(c)   == [type |-> c, copy |-> TRUE]
Unbound   == [type |-> NoClass, copy |-> FALSE]

CastInit ==
    /\ Init
    /\ \A c \in Foreign : parent[c] \in Foreign \cup {NoClass}
    /\ offset \in [Classes -> Offsets]
    /\ \A c \in Foreign \cup {SystemClass} : offset[c] = 0
    /\ builtAs \in [Objects -> Classes]
    /\ \A o \in Objects :
          /\ ClassOf[o] \in Ancestors(parent, builtAs[o])
          /\ ClassOf[o] = SystemClass => builtAs[o] = SystemClass
    /\ bindings = [c \in Classes |-> Unbound]
    /\ luaValues = {}
-----------------------------------------------------------------------------
(* MetaClassImpl's conversions to Object and from it, static_casts both.    *)
Upcast(c, p) ==
    IF c \in Foreign \/ p = Null THEN Null ELSE [p EXCEPT !.at = @ + offset[c]]

Downcast(c, p) ==
    IF c \in Foreign \/ p = Null THEN Null ELSE [p EXCEPT !.at = @ - offset[c]]

(* The class an Object names: none when the id is outside the table or the  *)
(* pointer does not point at an Object, and what is read there is garbage.  *)
ObjectClass(p) ==
    IF p.at = 0 /\ classIdOf[p.object] \in Ids
    THEN classTable[classIdOf[p.object]]
    ELSE NoClass

\* Slip: the static type decides instead of the id the object carries.
DynamicCast_StaticType(t, p, source) ==
    LET s == source.type
        up == Upcast(s, p)
    IN  IF source = Copy(t)                    THEN p
        ELSE IF s \notin Classes               THEN Null
        ELSE IF up = Null                      THEN Null
        ELSE IF s = t \/ Derives(s, t)         THEN Downcast(t, up)
        ELSE Null

(* DynamicCast of p, a pointer of type source, to the class t.              *)
DynamicCast(t, p, source) ==
    LET s == source.type
        up == Upcast(s, p)
        c == ObjectClass(up)
    IN  IF source = Copy(t)                    THEN p
        ELSE IF s \notin Classes               THEN Null
        ELSE IF up = Null                      THEN Null
        ELSE IF c = NoClass                    THEN Wild
        ELSE IF c = t \/ Derives(c, t)         THEN Downcast(t, up)
        ELSE Null

\* Slip: the pointer is taken as one to t.
ResolveMember_NoCast(t, p, source, address) ==
    IF t = VoidClass THEN Null
    ELSE IF p = Null THEN Error
    ELSE [p EXCEPT !.at = @ + address]

(* ResolveMember of the class t: the place of a member of t in the object   *)
(* at p. Void has no members; an object that is no t fails an assertion.    *)
ResolveMember(t, p, source, address) ==
    LET q == DynamicCast(t, p, source)
    IN  IF t = VoidClass THEN Null
        ELSE IF q = Null THEN Error
        ELSE [q EXCEPT !.at = @ + address]

(* Where Count looks for the length of an array member of the class t. The  *)
(* pointer is taken as one to t.                                            *)
CountPlace(t, p, address) == ResolveMember(t, p, Copy(t), address)

BoundClasses == {c \in Classes : bindings[c] # Unbound}

(* MetaLuaBindClass makes a table for c and keeps the metaclass it is given *)
(* in it. Before Initialize that is the static.                             *)
BindClass(c) ==
    /\ phase \in {"static", "ready"}
    /\ Cardinality(BoundClasses \ {c}) < LuaClassBound
    /\ bindings' = [bindings EXCEPT ![c] = Active(c)]
    /\ UNCHANGED <<vars, layout, luaValues>>

\* Slips: the pointer is stored as it was given; as an Object's.
WriteType_Raw(c, p) == p
WriteType_AsObject(c, p) == IF Upcast(c, p) = Null THEN p ELSE Upcast(c, p)

(* What WriteType of the class c stores in the userdata for p: the object   *)
(* as its own class sees it.                                                *)
WriteType(c, p) ==
    LET up == Upcast(c, p)
        own == ObjectClass(up)
    IN  IF up = Null            THEN p
        ELSE IF own = NoClass   THEN Wild
        ELSE Downcast(own, up)

(* The userdata's metatable is the global table of c, if there is one. A    *)
(* program that writes an object without a proper id is undefined.          *)
Write(o, c) ==
    /\ phase = "ready"
    /\ o \in constructed
    /\ c \in Views(o)
    /\ Cardinality(luaValues) < LuaValueBound
    /\ WriteType(c, View(o, c)) # Wild
    /\ luaValues' = luaValues \cup
          {[class |-> bindings[c], payload |-> WriteType(c, View(o, c))]}
    /\ UNCHANGED <<vars, layout, bindings>>

(* A null pointer is written as nil.                                        *)
WriteNull ==
    /\ phase = "ready"
    /\ Cardinality(luaValues) < LuaValueBound
    /\ luaValues' = luaValues \cup {[class |-> Unbound, payload |-> Null]}
    /\ UNCHANGED <<vars, layout, bindings>>

(* The values go when the function that used them returns.                  *)
PopValues ==
    /\ luaValues # {}
    /\ luaValues' = {}
    /\ UNCHANGED <<vars, layout, bindings>>

\* Slip: what the userdata holds is taken without a cast.
ReadType_Raw(t, v) ==
    IF v.payload = Null                                   THEN Null
    ELSE IF v.class = Unbound                             THEN Error
    ELSE IF v.class # Copy(t) /\ ~Derives(t, t)           THEN Error
    ELSE v.payload

(* ReadType of the class t: nil is nullptr, a value without a metaclass an  *)
(* error. The list it searches for t's topology id is the list of t.        *)
ReadType(t, v) ==
    IF v.payload = Null                                   THEN Null
    ELSE IF v.class = Unbound                             THEN Error
    ELSE IF v.class # Copy(t) /\ ~Derives(t, t)           THEN Error
    ELSE DynamicCast(t, v.payload, v.class)

CastNext ==
    \/ Next /\ UNCHANGED <<layout, lua>>
    \/ \E c \in Classes : BindClass(c)
    \/ \E o \in Objects, c \in Classes : Write(o, c)
    \/ WriteNull
    \/ PopValues

CastSpec == CastInit /\ [][CastNext]_castVars
-----------------------------------------------------------------------------
(* A class o is: the one whose id it carries, and every base of it.         *)
IsA(o, t) == t \in Ancestors(parent, ClassOf[o])

(* DynamicCast answers from topology ids and lists what the parent links    *)
(* and the object's layout say: a cast to the pointer's own type changes    *)
(* nothing, and any other finds the part of the object the target names, at *)
(* its own place, exactly when the object is one. An object that was built  *)
(* before its class had an id is excluded.                                  *)
CastsFindTheObject ==
    phase = "ready" =>
        \A o \in constructed, t \in Classes :
            classIdOf[o] # -1 =>
              /\ \A s \in Views(o) :
                   DynamicCast(t, View(o, s), Active(s)) =
                     IF s = t \/ ({s, t} \cap Foreign = {} /\ IsA(o, t))
                     THEN View(o, t)
                     ELSE Null
              /\ \A s \in Types \ Classes :
                   DynamicCast(t, View(o, ClassOf[o]), Active(s)) = Null

(* A member of the class t is found at its place in t's part of the object, *)
(* through a pointer of any class the object is, and through no other; the  *)
(* length of an array is found like any member.                             *)
MembersAreFound ==
    phase = "ready" =>
        \A o \in constructed, t \in Classes \ Foreign, a \in Addresses :
            classIdOf[o] # -1 =>
              LET place == [object |-> o, at |-> a - offset[t]]
              IN  /\ \A s \in Views(o) :
                       ResolveMember(t, View(o, s), Active(s), a) =
                         IF s = t \/ (s \notin Foreign /\ IsA(o, t))
                         THEN place ELSE Error
                  /\ CountPlace(t, View(o, t), a) = place

(* A value written as a class with the layout of the object's own class.    *)
HasOwnLayout(v) ==
    /\ v.payload # Null
    /\ v.class # Unbound
    /\ v.class.type \notin Foreign =>
          offset[v.class.type] = offset[ClassOf[v.payload.object]]

(* A Lua value whose class has the layout of the object's own class is read *)
(* back as what it is or refused: every base class of the object, and the   *)
(* class it was written as when its table was bound after Initialize, gives *)
(* the object; no read gives a wrong place in it, and only classes it is    *)
(* give it at all.                                                          *)
ReadsGiveTheObject ==
    phase = "ready" =>
        \A v \in luaValues, t \in Classes :
            HasOwnLayout(v) =>
              LET o == v.payload.object
                  s == v.class.type
              IN  /\ ReadType(t, v) \in {Error, Null, View(o, t)}
                  /\ ReadType(t, v) = View(o, t) => t = s \/ IsA(o, t)
                  /\ v.class = Copy(t) => ReadType(t, v) = View(o, t)
                  /\ {s, t} \cap Foreign = {} /\ IsA(o, t) /\ t # ClassOf[o] =>
                        ReadType(t, v) = View(o, t)

(* A value that is nil, or o as the class c: as the pointer was when c is   *)
(* foreign, and otherwise as the class whose id o carries sees it.          *)
IsWritten(v) ==
    \/ v = [class |-> Unbound, payload |-> Null]
    \/ \E o \in constructed, c \in Classes :
          /\ v.class \in {Unbound, Static(c), Copy(c)}
          /\ c \in Foreign => v.payload = View(o, c)
          /\ c \notin Foreign =>
                classIdOf[o] # -1 /\ v.payload = View(o, ClassOf[o])

(* Every Lua value was written by a ready system: nil or a constructed      *)
(* object, with the table bound for its class then, if any. An object built *)
(* too early to have an id never reaches Lua as a class derived from Object.*)
LuaValuesAreWritten ==
    /\ luaValues # {} => phase \in {"ready", "halted"}
    /\ \A v \in luaValues : IsWritten(v)

-----------------------------------------------------------------------------
(* What a comment says of Lua values; see the violation run. "The expected   *)
(* type must have a valid topological order, and the base class list of the *)
(* actual type contains this order" (Meta.cpp:305).                         *)
OtherClassesAreRefused ==
    \A v \in luaValues, t \in Classes :
        v.class # Unbound /\ v.class # Copy(t) /\ ~Derives(v.class.type, t) =>
            ReadType(t, v) = Error
=============================================================================
