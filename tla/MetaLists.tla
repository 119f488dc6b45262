----------------------------- MODULE MetaLists -----------------------------
(***************************************************************************)
(* MetaObject and MetaData of Base/Meta.hpp: the intrusive lists static    *)
(* objects chain themselves onto, the chains of key-value pairs attached   *)
(* to them, and the loops of MetaSystemExample::Initialize that copy what  *)
(* is on the lists and enter the copies in the maps the lookups use.  A    *)
(* copy takes over its original's two pointers, so it shares the pairs     *)
(* attached so far, and the rest of the list, with it.                     *)
(***************************************************************************)
EXTENDS SequencesExt

CONSTANTS Classes,      \* statics META_REGISTER_CLASS makes; each names itself
          Functions,    \* statics META_REGISTER_FUNCTION_MEMBER makes
          Detached,     \* objects constructed with the NoListTag
          ClassOf,      \* the class each function is a member of
          NameOf,       \* the name of each function
          Datas,        \* MetaData objects
          Keys, Values,
          Null

ASSUME ListsAssumption ==
    /\ ClassOf \in [Functions -> Classes]
    /\ \A f, g \in Functions : ClassOf[f] = ClassOf[g] /\ NameOf[f] = NameOf[g] => f = g

VARIABLES m_List,       \* the head of each list
          object,       \* the MetaObjects that exist: fields, prev and self
          data,         \* the MetaDatas that exist: key, value and prev
          m_metaClasses,\* the map of classes by name, Null before Initialize
          m_functions,  \* each class's container of functions by name
          context,      \* what SetMetaSystem was told last
          registered,   \* history: what was put on each list, oldest first
          attached      \* history: the pairs of each object, oldest first

vars == <<m_List, object, data, m_metaClasses, m_functions, context, registered, attached>>

Statics == Classes \cup Functions \cup Detached
Copy(s) == <<"copy of", s>>
Copies == {Copy(s) : s \in Classes \cup Functions}
Objects == Statics \cup Copies
Kind(o) == IF o \in Classes THEN "MetaType" ELSE "MetaMemberFunction"
Kinds == {"MetaType", "MetaMemberFunction"}

\* An object is of one sort, and the null pointer is none of them.
ASSUME ObjectsAssumption ==
    /\ Classes \cap Functions = {} /\ Detached \cap (Classes \cup Functions) = {}
    /\ Copies \cap Statics = {}
    /\ Null \notin Objects \cup Datas \cup {"default", "user"}

\* The loops "for (auto it = m_List(); it; it = it->GetPrev())", whose order
\* is the newest object first.
Walk(kind) ==
    LET From[o \in DOMAIN object \cup {Null}] ==
            IF o = Null THEN << >> ELSE <<o>> \o From[object[o].prev]
    IN From[m_List[kind]]

\* The value of the first pair of o's chain that has the key.
GetMetaData(o, key) ==
    LET Search[d \in DOMAIN data \cup {Null}] ==
            IF d = Null THEN Null
            ELSE IF data[d].key = key THEN data[d].value ELSE Search[data[d].prev]
    IN Search[object[o].fields]

GetActive(s) == object[s].self

\* GetMetaClassByName_default looks in the map of g_metaSystem; a context the
\* host sets answers for itself, and without one there is no answer.
GetMetaClassByName(name) ==
    IF context = "default" /\ name \in DOMAIN m_metaClasses
    THEN m_metaClasses[name] ELSE Null

FindFunction(class, name) ==
    IF name \in DOMAIN m_functions[class] THEN m_functions[class][name] ELSE Null
-----------------------------------------------------------------------------
Init ==
    /\ m_List = [kind \in Kinds |-> Null]
    /\ object = << >> /\ data = << >>
    /\ m_metaClasses = << >> /\ m_functions = [c \in Copies |-> << >>]
    /\ context = Null
    /\ registered = [kind \in Kinds |-> << >>]
    /\ attached = [o \in Objects |-> << >>]

\* The constructor puts the object at the head of its kind's list, unless it
\* is given the NoListTag.
Lists(s) == s \notin Detached

\* A MetaObject is constructed: a static before main, or any later.
Register(s) ==
    /\ s \notin DOMAIN object
    /\ object' = [o \in DOMAIN object \cup {s} |->
                    IF o = s THEN [fields |-> Null, self |-> s,
                                   prev |-> IF Lists(s) THEN m_List[Kind(s)] ELSE Null]
                    ELSE object[o]]
    /\ m_List' = IF Lists(s) THEN [m_List EXCEPT ![Kind(s)] = s] ELSE m_List
    /\ registered' = IF s \in Detached THEN registered
                     ELSE [registered EXCEPT ![Kind(s)] = Append(@, s)]
    /\ UNCHANGED <<data, m_metaClasses, m_functions, context, attached>>

\* Slip: a new pair cuts off the older ones.
Linked_Alone(o, key, value) == [key |-> key, value |-> value, prev |-> Null]

Linked(o, key, value) == [key |-> key, value |-> value, prev |-> object[o].fields]

\* A MetaData is constructed on a target, which may be a copy.
Attach(d, o, key, value) ==
    /\ d \notin DOMAIN data /\ o \in DOMAIN object
    /\ data' = [p \in DOMAIN data \cup {d} |->
                  IF p = d THEN Linked(o, key, value) ELSE data[p]]
    /\ object' = [object EXCEPT ![o].fields = d]
    /\ attached' = [attached EXCEPT ![o] = Append(@, d)]
    /\ UNCHANGED <<m_List, m_metaClasses, m_functions, context, registered>>

\* A pair that several chains share changes for all of them.
SetValue(d, value) ==
    /\ d \in DOMAIN data
    /\ data' = [data EXCEPT ![d].value = value]
    /\ UNCHANGED <<m_List, object, m_metaClasses, m_functions, context, registered, attached>>

\* The copy constructor takes the original's two pointers and links nothing;
\* a copied type is its own active one.
Copied(s) == [fields |-> object[s].fields, prev |-> object[s].prev, self |-> Copy(s)]

\* Slip: one container for the functions of all classes.
Entered_OneContainer(functions, c) ==
    [name \in {NameOf[f] : f \in functions} |-> Copy(CHOOSE f \in functions : NameOf[f] = name)]

\* Functions go to the container of their own class, by their own name.
Entered(functions, c) ==
    [name \in {NameOf[f] : f \in {f \in functions : Copy(ClassOf[f]) = c}} |->
        Copy(CHOOSE f \in functions : Copy(ClassOf[f]) = c /\ NameOf[f] = name)]

\* Initialize runs once and finds a class for every function: a program that
\* registers a function links its class.
Initialize ==
    \E classes \in {ToSet(Walk("MetaType"))}, functions \in {ToSet(Walk("MetaMemberFunction"))} :
        /\ DOMAIN object \cap Copies = {} /\ classes # {}
        /\ \A f \in functions : ClassOf[f] \in classes
        /\ object' = [o \in DOMAIN object \cup {Copy(s) : s \in classes \cup functions} |->
                        IF o \in Copies THEN Copied(o[2])
                        ELSE IF o \in classes THEN [object[o] EXCEPT !.self = Copy(o)]
                        ELSE object[o]]
        /\ m_metaClasses' = [c \in classes |-> Copy(c)]
        /\ m_functions' = [c \in Copies |-> Entered(functions, c)]
        /\ attached' = [o \in Objects |-> IF o \in Copies THEN attached[o[2]] ELSE attached[o]]
        /\ context' = "default"
        /\ UNCHANGED <<m_List, data, registered>>

\* A host sets a system of its own, before or after Initialize.
SetMetaSystem ==
    /\ context' = "user"
    /\ UNCHANGED <<m_List, object, data, m_metaClasses, m_functions, registered, attached>>

Next ==
    \/ \E s \in Statics : Register(s)
    \/ \E d \in Datas, o \in Objects, key \in Keys, value \in Values : Attach(d, o, key, value)
    \/ \E d \in Datas, value \in Values : SetValue(d, value)
    \/ Initialize
    \/ SetMetaSystem

Spec == Init /\ [][Next]_vars
-----------------------------------------------------------------------------
\* A walk of a list (Meta.cpp:420 and 452) finds every object that was put on
\* it exactly once, the newest first, and nothing else: no copy, although the
\* copies hold links into it (Meta.hpp:396), and no NoListTag object.
ListsAreRegistrations ==
    \A kind \in Kinds : Walk(kind) = Reverse(registered[kind])

\* GetMetaData answers the value of the pair last attached to the object, or
\* to its original before it was copied, whatever was attached since to the
\* other objects that share its chain (Meta.hpp:391 and 410).
AnswersAreLatest ==
    \A o \in DOMAIN object, key \in Keys :
        LET pairs == attached[o]
            with == {i \in DOMAIN pairs : data[pairs[i]].key = key}
        IN GetMetaData(o, key) = IF with = {} THEN Null ELSE data[pairs[Max(with)]].value

\* A class that was on the list when Initialize walked it has a copy, which is
\* its own active class and the original's, and the one GetMetaClassByName
\* finds; a class registered later is its own and is not found.
ClassesAreFound ==
    \A c \in Classes \cap DOMAIN object :
        LET found == GetMetaClassByName(c)
        IN /\ GetActive(GetActive(c)) = GetActive(c)
           /\ context = "default" => found = IF GetActive(c) = c THEN Null ELSE GetActive(c)
           /\ context = Null => found = Null /\ GetActive(c) = c

\* The container of a class finds the copies of its own member functions
\* (Meta.cpp:459), also when another class has a function of the same name.
FunctionsAreFound ==
    \A f \in Functions :
        Copy(f) \in DOMAIN object => FindFunction(GetActive(ClassOf[f]), NameOf[f]) = Copy(f)

\* What the lookups find is what was registered in time.
LookupsAgree == ListsAreRegistrations /\ ClassesAreFound /\ FunctionsAreFound
=============================================================================
