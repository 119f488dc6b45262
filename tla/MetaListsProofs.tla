-------------------------- MODULE MetaListsProofs --------------------------
(* Proofs about MetaLists: what the walks of the lists and of the chains    *)
(* find, and what the lookups answer, whatever static objects and pairs the *)
(* program makes and in whatever order.                                     *)
EXTENDS MetaLists, SequenceTheorems, WellFoundedInduction, TLAPS

Listed == Classes \cup Functions

\* The fields have the types the code gives them; the histories are sequences.
TypeInv ==
    /\ DOMAIN object \subseteq Objects /\ DOMAIN data \subseteq Datas
    /\ object \in [DOMAIN object -> [fields : Datas \cup {Null}, self : Objects,
                                     prev : Objects \cup {Null}]]
    /\ data \in [DOMAIN data -> [key : Keys, value : Values, prev : Datas \cup {Null}]]
    /\ m_List \in [Kinds -> Objects \cup {Null}]
    /\ registered \in [Kinds -> Seq(Listed)]
    /\ attached \in [Objects -> Seq(Datas)]

\* The object under position i of a list, and the one under an object.
Under(kind, i) == IF i = 1 THEN Null ELSE registered[kind][i - 1]

\* A list is the objects of its kind, each once and linked to the one that was
\* registered before it.
ListInv ==
    /\ \A kind \in Kinds :
         /\ m_List[kind] = Under(kind, Len(registered[kind]) + 1)
         /\ \A i \in 1..Len(registered[kind]) :
              /\ registered[kind][i] \in DOMAIN object
              /\ Kind(registered[kind][i]) = kind
              /\ object[registered[kind][i]].prev = Under(kind, i)
         /\ \A i, j \in 1..Len(registered[kind]) :
              registered[kind][i] = registered[kind][j] => i = j
    /\ \A s \in DOMAIN object \cap Listed :
         \E i \in 1..Len(registered[Kind(s)]) : registered[Kind(s)][i] = s
    /\ \A s \in DOMAIN object \cap Detached : object[s].prev = Null
    /\ \A s \in Listed : Copy(s) \in DOMAIN object =>
         s \in DOMAIN object /\ object[Copy(s)].prev = object[s].prev

\* The pair under position i of an object's chain.
Older(o, i) == IF i = 1 THEN Null ELSE attached[o][i - 1]

\* A chain is the pairs of its object; a pair two objects have is at the same
\* place of both, over the same older pairs, and every pair has an object.
ChainInv ==
    /\ \A o \in Objects \ DOMAIN object : attached[o] = << >>
    /\ \A o \in DOMAIN object : object[o].fields = Older(o, Len(attached[o]) + 1)
    /\ \A o \in Objects : \A i \in 1..Len(attached[o]) :
         /\ attached[o][i] \in DOMAIN data
         /\ data[attached[o][i]].prev = Older(o, i)
    /\ \A o, p \in Objects : \A i \in 1..Len(attached[o]), j \in 1..Len(attached[p]) :
         attached[o][i] = attached[p][j]
         => i = j /\ \A n \in 1..i : attached[o][n] = attached[p][n]
    /\ \A d \in DOMAIN data : \E o \in Objects : \E i \in 1..Len(attached[o]) : attached[o][i] = d

\* The maps hold the copies that were made, and a class's active one is its
\* copy when it has one.
MapInv ==
    /\ context = Null => DOMAIN object \cap Copies = {}
    /\ \A s \in Classes \cap DOMAIN object :
         object[s].self = IF Copy(s) \in DOMAIN object THEN Copy(s) ELSE s
    /\ \A s \in Classes : Copy(s) \in DOMAIN object => object[Copy(s)].self = Copy(s)
    /\ m_metaClasses = [c \in {c \in Classes : Copy(c) \in DOMAIN object} |-> Copy(c)]
    /\ \A f \in Functions : Copy(f) \in DOMAIN object =>
         /\ Copy(ClassOf[f]) \in DOMAIN object
         /\ NameOf[f] \in DOMAIN m_functions[Copy(ClassOf[f])]
         /\ m_functions[Copy(ClassOf[f])][NameOf[f]] = Copy(f)

Inv == TypeInv /\ ListInv /\ ChainInv /\ MapInv
-----------------------------------------------------------------------------
(* Every set of naturals has a least element: a walk or a search that went  *)
(* wrong has a first place where it does.                                   *)
LEMMA LeastNat ==
    ASSUME NEW T \in SUBSET Nat, T # {}
    PROVE  \E x \in T : \A y \in T : x <= y
<1>1. IsWellFoundedOn(OpToRel(<, Nat), Nat)
  BY NatLessThanWellFounded
<1>2. PICK x \in T : \A y \in T : ~ (<<y, x>> \in OpToRel(<, Nat))
  BY <1>1, WFMin
<1>3. \A y \in T : ~(y < x)
  BY <1>2 DEF OpToRel
<1> QED
  BY <1>3

(* The objects are of one sort each, and a copy names its original.         *)
LEMMA Sorts ==
    /\ Null \notin Objects /\ Null \notin Datas
    /\ Null # "default" /\ Null # "user"
    /\ Listed \subseteq Objects /\ Listed \cap Copies = {} /\ Listed \cap Detached = {}
    /\ Detached \cap Copies = {} /\ Objects = Listed \cup Detached \cup Copies
    /\ \A s \in Listed : Copy(s) \in Copies /\ Copy(s)[2] = s /\ Kind(s) \in Kinds
    /\ \A c \in Copies : c[2] \in Listed /\ c = Copy(c[2])
    /\ Classes \cap Functions = {}
<1>1. \A s \in Listed : Copy(s) \in Copies /\ Copy(s)[2] = s /\ Kind(s) \in Kinds
  BY DEF Copies, Copy, Listed, Kind, Kinds
<1>2. \A c \in Copies : c[2] \in Listed /\ c = Copy(c[2])
  <2> SUFFICES ASSUME NEW c \in Copies PROVE c[2] \in Listed /\ c = Copy(c[2])
    OBVIOUS
  <2>1. PICK s \in Listed : c = Copy(s)
    BY DEF Copies, Listed
  <2> QED
    BY <2>1, <1>1
<1>3. Objects = Listed \cup Detached \cup Copies
  BY DEF Objects, Statics, Listed
<1>4. Listed \cap Copies = {} /\ Listed \cap Detached = {} /\ Detached \cap Copies = {}
  BY ObjectsAssumption DEF Listed, Statics
<1> QED
  BY <1>1, <1>2, <1>3, <1>4, ObjectsAssumption DEF Listed

(* A sequence with one element before it.                                   *)
LEMMA Pushed ==
    ASSUME NEW S, NEW s \in Seq(S), NEW x \in S
    PROVE  <<x>> \o s = [i \in 1..(Len(s) + 1) |-> IF i = 1 THEN x ELSE s[i - 1]]
<1> DEFINE t == [i \in 1..(Len(s) + 1) |-> IF i = 1 THEN x ELSE s[i - 1]]
<1>1. Len(s) \in Nat /\ \A i \in 1..Len(s) : s[i] \in S
  BY LenProperties, ElementOfSeq
<1>2. t \in Seq(S) /\ Len(t) = Len(s) + 1
  <2>1. t \in [1..(Len(s) + 1) -> S]
    BY <1>1
  <2> QED
    BY <2>1, <1>1, SeqDef, LenProperties
<1>3. /\ <<x>> \in Seq(S) /\ Len(<<x>>) = 1 /\ <<x>>[1] = x
  OBVIOUS
<1>4. /\ <<x>> \o s \in Seq(S) /\ Len(<<x>> \o s) = 1 + Len(s)
      /\ \A i \in 1..(1 + Len(s)) : (<<x>> \o s)[i] = IF i <= 1 THEN <<x>>[i] ELSE s[i - 1]
  BY <1>3, ConcatProperties
<1>5. \A i \in 1..Len(t) : (<<x>> \o s)[i] = t[i]
  BY <1>1, <1>2, <1>3, <1>4
<1> QED
  BY <1>1, <1>2, <1>4, <1>5, SeqEqual

\* The walk of a list from its object at position n down.
Stacked(kind, n) == [i \in 1..n |-> registered[kind][n + 1 - i]]

(* The walk from a position is its object and the walk from the one below.  *)
LEMMA StackedStep ==
    ASSUME TypeInv, NEW kind \in Kinds, NEW n \in 1..Len(registered[kind])
    PROVE  /\ Stacked(kind, n) = <<registered[kind][n]>> \o Stacked(kind, n - 1)
           /\ Stacked(kind, 0) = << >>
<1> DEFINE r == registered[kind]
<1>1. r \in Seq(Listed) /\ Len(r) \in Nat /\ \A i \in 1..Len(r) : r[i] \in Listed
  BY LenProperties, ElementOfSeq DEF TypeInv
<1>2. Stacked(kind, n - 1) \in Seq(Listed) /\ Len(Stacked(kind, n - 1)) = n - 1
  <2>1. Stacked(kind, n - 1) \in [1..(n - 1) -> Listed]
    BY <1>1 DEF Stacked
  <2> QED
    BY <2>1, <1>1, SeqDef, LenProperties
<1>3. <<r[n]>> \o Stacked(kind, n - 1)
      = [i \in 1..n |-> IF i = 1 THEN r[n] ELSE Stacked(kind, n - 1)[i - 1]]
  <2>1. r[n] \in Listed
    BY <1>1
  <2> HIDE DEF r
  <2> QED
    BY <2>1, <1>2, Pushed
<1>4. \A i \in 1..n : i # 1 => Stacked(kind, n - 1)[i - 1] = r[n + 1 - i]
  <2> SUFFICES ASSUME NEW i \in 1..n, i # 1 PROVE Stacked(kind, n - 1)[i - 1] = r[n + 1 - i]
    OBVIOUS
  <2>1. i - 1 \in 1..(n - 1) /\ (n - 1) + 1 - (i - 1) = n + 1 - i
    BY <1>1
  <2> QED
    BY <2>1 DEF Stacked
<1>5. n \in Int /\ \A i \in 1..n : n + 1 - i = IF i = 1 THEN n ELSE n + 1 - i
  BY <1>1
<1>6. Stacked(kind, n) = [i \in 1..n |-> IF i = 1 THEN r[n] ELSE r[n + 1 - i]]
  BY <1>5 DEF Stacked
<1>7. Stacked(kind, 0) = << >>
  <2>1. Stacked(kind, 0) \in [1..0 -> Listed]
    BY DEF Stacked
  <2> QED
    BY <2>1, SeqDef, EmptySeq, LenProperties
<1> QED
  BY <1>3, <1>4, <1>6, <1>7

-----------------------------------------------------------------------------
\* What the walk of a list is, from any object on.
IsWalk(f) ==
    f = [o \in DOMAIN object \cup {Null} |->
            IF o = Null THEN << >> ELSE <<o>> \o f[object[o].prev]]

Original(o) == IF o \in Copies THEN o[2] ELSE o
Index(s) == CHOOSE i \in 1..Len(registered[Kind(s)]) : registered[Kind(s)][i] = s

\* What a walk finds under an object.
Below(o) ==
    IF o \in Detached THEN << >>
    ELSE Stacked(Kind(Original(o)), Index(Original(o)) - 1)

(* A registered object has one position on the list of its kind.            *)
LEMMA Positions ==
    ASSUME TypeInv, ListInv, NEW kind \in Kinds, NEW i \in 1..Len(registered[kind])
    PROVE  /\ registered[kind][i] \in Listed \cap DOMAIN object
           /\ Kind(registered[kind][i]) = kind
           /\ Index(registered[kind][i]) = i
<1> DEFINE s == registered[kind][i]
<1>1. s \in Listed /\ s \in DOMAIN object /\ Kind(s) = kind
  BY ElementOfSeq DEF TypeInv, ListInv
<1>2. \A j \in 1..Len(registered[kind]) : registered[kind][j] = s => j = i
  BY DEF ListInv
<1> QED
  BY <1>1, <1>2 DEF Index

(* The object under an object is the first that the walk finds there.       *)
LEMMA BelowIsPrev ==
    ASSUME TypeInv, ListInv, NEW o \in DOMAIN object
    PROVE  LET p == object[o].prev IN
           /\ p = Null => Below(o) = << >>
           /\ p # Null => p \in DOMAIN object /\ Below(o) = <<p>> \o Below(p)
<1> DEFINE p == object[o].prev
<1>1. CASE o \in Detached
  <2>1. object[o].prev = Null
    BY <1>1 DEF ListInv
  <2> QED
    BY <2>1, <1>1 DEF Below
<1>2. CASE o \notin Detached
  <2> DEFINE s == Original(o)
             k == Kind(s)
             i == Index(s)
  <2>1. /\ s \in Listed /\ s \in DOMAIN object /\ object[s].prev = p /\ k \in Kinds
    <3>1. o \in Objects
      BY DEF TypeInv
    <3>2. CASE o \in Copies
      <4>1. o[2] \in Listed /\ o = Copy(o[2])
        BY <3>2, Sorts
      <4>2. o[2] \in DOMAIN object /\ object[Copy(o[2])].prev = object[o[2]].prev
        BY <4>1 DEF ListInv
      <4> QED
        BY <4>1, <4>2, <3>2, Sorts DEF Original
    <3>3. CASE o \notin Copies
      BY <3>1, <3>3, <1>2, Sorts DEF Original
    <3> QED
      BY <3>2, <3>3
  <2>2. i \in 1..Len(registered[k]) /\ registered[k][i] = s
    <3>1. \E j \in 1..Len(registered[k]) : registered[k][j] = s
      BY <2>1 DEF ListInv
    <3> QED
      BY <3>1 DEF Index
  <2>3. Below(o) = Stacked(k, i - 1)
    BY <1>2 DEF Below
  <2>4. p = IF i = 1 THEN Null ELSE registered[k][i - 1]
    <3>1. object[registered[k][i]].prev = Under(k, i)
      <4> HIDE DEF k, i
      <4> QED
        BY <2>1, <2>2 DEF ListInv
    <3> QED
      BY <3>1, <2>1, <2>2 DEF Under
  <2> HIDE DEF p, s, k, i
  <2>5. Len(registered[k]) \in Nat
    BY <2>1, LenProperties DEF TypeInv
  <2>6. CASE i = 1
    <3>1. Stacked(k, 0) = << >>
      BY <2>1, <2>2, StackedStep
    <3>2. i - 1 = 0 /\ p = Null
      BY <2>4, <2>6
    <3> QED
      BY <3>1, <3>2, <2>3 DEF p
  <2>7. CASE i # 1
    <3>1. i - 1 \in 1..Len(registered[k]) /\ p = registered[k][i - 1]
      BY <2>2, <2>4, <2>5, <2>7
    <3>2. p \in Listed /\ p \in DOMAIN object /\ Kind(p) = k /\ Index(p) = i - 1
      BY <3>1, <2>1, Positions
    <3>3. Below(p) = Stacked(k, (i - 1) - 1)
      BY <3>2, Sorts DEF Below, Original
    <3>4. Stacked(k, i - 1) = <<p>> \o Stacked(k, (i - 1) - 1)
      BY <3>1, <2>1, StackedStep
    <3>5. p # Null
      BY <3>2, Sorts
    <3> QED
      BY <3>2, <3>3, <3>4, <3>5, <2>3 DEF p
  <2> QED
    BY <2>6, <2>7
<1> QED
  BY <1>1, <1>2

(* The walk is defined: its equation has a solution.                        *)
LEMMA WalksExist ==
    ASSUME TypeInv, ListInv
    PROVE  \E f : IsWalk(f)
<1> DEFINE f == [o \in DOMAIN object \cup {Null} |->
                    IF o = Null THEN << >> ELSE <<o>> \o Below(o)]
<1>1. ASSUME NEW o \in DOMAIN object \cup {Null}
      PROVE  f[o] = IF o = Null THEN << >> ELSE <<o>> \o f[object[o].prev]
  <2>1. CASE o = Null
    BY <2>1
  <2>2. CASE o # Null
    <3>1. object[o].prev \in DOMAIN object \cup {Null} /\ f[object[o].prev] = Below(o)
      BY <2>2, BelowIsPrev
    <3> QED
      BY <2>2, <3>1
  <2> QED
    BY <2>1, <2>2
<1>2. f = [o \in DOMAIN f |-> f[o]] /\ DOMAIN f = DOMAIN object \cup {Null}
  OBVIOUS
<1> HIDE DEF f
<1>3. f = [o \in DOMAIN object \cup {Null} |->
              IF o = Null THEN << >> ELSE <<o>> \o f[object[o].prev]]
  BY <1>1, <1>2
<1> QED
  BY <1>3 DEF IsWalk

(* From a position of a list, it finds the objects down to the oldest.      *)
LEMMA WalksStack ==
    ASSUME TypeInv, ListInv, NEW f, IsWalk(f), NEW kind \in Kinds,
           NEW n \in 0..Len(registered[kind])
    PROVE  f[Under(kind, n + 1)] = Stacked(kind, n)
<1> DEFINE Wrong == {m \in 0..Len(registered[kind]) : f[Under(kind, m + 1)] # Stacked(kind, m)}
<1>0. Len(registered[kind]) \in Nat
  BY LenProperties DEF TypeInv
<1> SUFFICES ASSUME Wrong # {} PROVE FALSE
  <2>1. n \in Wrong \/ f[Under(kind, n + 1)] = Stacked(kind, n)
    OBVIOUS
  <2> QED
    BY <2>1
<1>a. Wrong \in SUBSET Nat
  BY <1>0
<1>1. PICK m \in Wrong : \A y \in Wrong : m <= y
  BY <1>a, LeastNat
<1>2. m \in 0..Len(registered[kind]) /\ f[Under(kind, m + 1)] # Stacked(kind, m)
  OBVIOUS
<1>3. CASE m = 0
  <2>1. Under(kind, m + 1) = Null
    BY <1>3 DEF Under
  <2>2. f[Null] = << >>
    BY DEF IsWalk
  <2>3. Stacked(kind, 0) = << >>
    <3>1. Stacked(kind, 0) \in [1..0 -> Listed]
      BY DEF Stacked
    <3> QED
      BY <3>1, SeqDef, EmptySeq, LenProperties
  <2> QED
    BY <1>2, <1>3, <2>1, <2>2, <2>3
<1>4. CASE m # 0
  <2> DEFINE o == registered[kind][m]
  <2>1. m \in 1..Len(registered[kind]) /\ m - 1 \in 0..Len(registered[kind]) /\ ~(m <= m - 1)
        /\ (m - 1) + 1 = m /\ (m + 1) - 1 = m /\ m + 1 # 1
    BY <1>0, <1>2, <1>4
  <2>2. f[Under(kind, m)] = Stacked(kind, m - 1)
    BY <1>1, <2>1
  <2>3. o \in DOMAIN object /\ o # Null
    BY <2>1, Positions, Sorts
  <2>4. object[o].prev = Under(kind, m)
    BY <2>1 DEF ListInv
  <2>5. f[o] = <<o>> \o f[object[o].prev]
    BY <2>3 DEF IsWalk
  <2>6. Under(kind, m + 1) = o
    BY <2>1 DEF Under
  <2> QED
    BY <1>2, <2>1, <2>2, <2>4, <2>5, <2>6, StackedStep
<1> QED
  BY <1>3, <1>4

(* A walk of a list finds its registrations, the newest first.              *)
LEMMA ListsHold ==
    ASSUME TypeInv, ListInv
    PROVE  ListsAreRegistrations
<1> SUFFICES ASSUME NEW kind \in Kinds PROVE Walk(kind) = Reverse(registered[kind])
  BY DEF ListsAreRegistrations
<1> DEFINE f == CHOOSE From : IsWalk(From)
           r == registered[kind]
<1>1. IsWalk(f)
  BY WalksExist
<1>2. Walk(kind) = f[m_List[kind]]
  BY DEF Walk, IsWalk
<1>3. Len(r) \in Nat /\ Len(r) \in 0..Len(r)
  BY LenProperties DEF TypeInv
<1>4. m_List[kind] = Under(kind, Len(r) + 1)
  BY DEF ListInv
<1> HIDE DEF f
<1>5. Walk(kind) = Stacked(kind, Len(r))
  BY <1>1, <1>2, <1>3, <1>4, WalksStack
<1>6. \A i \in 1..Len(r) : Len(r) + 1 - i = (Len(r) - i) + 1
  BY <1>3
<1> QED
  BY <1>5, <1>6 DEF Stacked, Reverse

-----------------------------------------------------------------------------
(* A set of positions has a last one.                                       *)
LEMMA MaxIsLast ==
    ASSUME NEW n \in Nat, NEW S \in SUBSET (1..n), S # {}
    PROVE  Max(S) \in S /\ \A y \in S : Max(S) >= y
<1> DEFINE T == {n - x : x \in S}
<1>1. T \in SUBSET Nat /\ T # {}
  <2>1. \A x \in S : x \in 1..n /\ n - x \in Nat
    OBVIOUS
  <2> QED
    BY <2>1
<1>2. PICK t \in T : \A y \in T : t <= y
  BY <1>1, LeastNat
<1>3. PICK x \in S : t = n - x
  OBVIOUS
<1>4. \A y \in S : n - y \in T
  OBVIOUS
<1>5. \A y \in S : n - x <= n - y
  BY <1>2, <1>3, <1>4
<1>6. \A y \in S : x >= y
  BY <1>5
<1> QED
  BY <1>6 DEF Max

\* The value of the latest of the first n pairs of an object, for a key.
With(o, n, key) == {i \in 1..n : data[attached[o][i]].key = key}
LatestIn(o, n, key) ==
    IF With(o, n, key) = {} THEN Null ELSE data[attached[o][Max(With(o, n, key))]].value

(* No pairs have no value.                                                  *)
LEMMA LatestOfNone == \A o, key : LatestIn(o, 0, key) = Null
<1>1. 1..0 = {}
  OBVIOUS
<1> QED
  BY <1>1 DEF LatestIn, With

(* The pair attached last decides, or the ones before it do.                *)
LEMMA LatestStep ==
    ASSUME NEW o, NEW key, NEW n \in Nat \ {0}
    PROVE  LatestIn(o, n, key)
             = IF data[attached[o][n]].key = key THEN data[attached[o][n]].value
               ELSE LatestIn(o, n - 1, key)
<1>1. CASE data[attached[o][n]].key = key
  <2>1. With(o, n, key) \in SUBSET (1..n) /\ n \in With(o, n, key)
    BY <1>1 DEF With
  <2>2. /\ Max(With(o, n, key)) \in With(o, n, key)
        /\ \A y \in With(o, n, key) : Max(With(o, n, key)) >= y
    BY <2>1, MaxIsLast
  <2>3. Max(With(o, n, key)) = n
    BY <2>1, <2>2
  <2> QED
    BY <1>1, <2>1, <2>3 DEF LatestIn
<1>2. CASE data[attached[o][n]].key # key
  <2>1. \A i \in 1..n : i = n \/ i \in 1..(n - 1)
    OBVIOUS
  <2>2. 1..(n - 1) \subseteq 1..n
    OBVIOUS
  <2>3. With(o, n, key) = With(o, n - 1, key)
    BY <1>2, <2>1, <2>2 DEF With
  <2> QED
    BY <1>2, <2>3 DEF LatestIn
<1> QED
  BY <1>1, <1>2

(* Objects that share a pair share the answer from it on.                   *)
LEMMA LatestIsShared ==
    ASSUME TypeInv, ChainInv, NEW key, NEW o \in Objects, NEW p \in Objects,
           NEW i \in 1..Len(attached[o]), NEW j \in 1..Len(attached[p]),
           attached[o][i] = attached[p][j]
    PROVE  LatestIn(o, i, key) = LatestIn(p, j, key)
<1>1. i = j /\ \A n \in 1..i : attached[o][n] = attached[p][n]
  BY DEF ChainInv
<1>2. With(o, i, key) = With(p, j, key)
  BY <1>1 DEF With
<1>3. With(o, i, key) # {} => Max(With(o, i, key)) \in 1..i
  <2>1. i \in Nat /\ With(o, i, key) \in SUBSET (1..i)
    BY LenProperties DEF TypeInv, With
  <2> QED
    BY <2>1, MaxIsLast
<1> QED
  BY <1>1, <1>2, <1>3 DEF LatestIn

\* What the search for a key finds, from any pair on.
IsSearch(f, key) ==
    f = [d \in DOMAIN data \cup {Null} |->
            IF d = Null THEN Null
            ELSE IF data[d].key = key THEN data[d].value ELSE f[data[d].prev]]

\* An object that has a pair, and where.
Home(d) == CHOOSE h \in Objects \X Nat :
              h[2] \in 1..Len(attached[h[1]]) /\ attached[h[1]][h[2]] = d

(* Every pair has an object.                                                *)
LEMMA HomesExist ==
    ASSUME TypeInv, ChainInv, NEW d \in DOMAIN data
    PROVE  /\ Home(d)[1] \in Objects /\ Home(d)[2] \in 1..Len(attached[Home(d)[1]])
           /\ attached[Home(d)[1]][Home(d)[2]] = d
<1>0. PICK o \in Objects : \E i \in 1..Len(attached[o]) : attached[o][i] = d
  BY DEF ChainInv
<1>1. PICK i \in 1..Len(attached[o]) : attached[o][i] = d
  BY <1>0
<1>2. i \in Nat
  BY LenProperties DEF TypeInv
<1>3. <<o, i>> \in Objects \X Nat /\ <<o, i>>[1] = o /\ <<o, i>>[2] = i
  BY <1>2
<1>4. \E h \in Objects \X Nat : h[2] \in 1..Len(attached[h[1]]) /\ attached[h[1]][h[2]] = d
  BY <1>1, <1>3
<1> DEFINE h == Home(d)
<1>5. h \in Objects \X Nat /\ h[2] \in 1..Len(attached[h[1]]) /\ attached[h[1]][h[2]] = d
  BY <1>4 DEF Home
<1> QED
  BY <1>5

(* The search is defined: its equation has a solution.                      *)
LEMMA SearchesExist ==
    ASSUME TypeInv, ChainInv, NEW key
    PROVE  \E f : IsSearch(f, key)
<1> DEFINE f == [d \in DOMAIN data \cup {Null} |->
                    IF d = Null THEN Null ELSE LatestIn(Home(d)[1], Home(d)[2], key)]
<1>1. ASSUME NEW d \in DOMAIN data \cup {Null}
      PROVE  f[d] = IF d = Null THEN Null
                    ELSE IF data[d].key = key THEN data[d].value ELSE f[data[d].prev]
  <2>1. CASE d = Null
    BY <2>1
  <2>2. CASE d # Null
    <3> DEFINE o == Home(d)[1]
               i == Home(d)[2]
    <3>1. o \in Objects /\ i \in 1..Len(attached[o]) /\ attached[o][i] = d
      BY <2>2, HomesExist
    <3>2. f[d] = LatestIn(o, i, key)
      BY <2>2
    <3> HIDE DEF o, i
    <3>3. i \in Nat \ {0} /\ Len(attached[o]) \in Nat
      BY <3>1, LenProperties DEF TypeInv
    <3>4. data[d].prev = IF i = 1 THEN Null ELSE attached[o][i - 1]
      BY <3>1 DEF ChainInv, Older
    <3>5. f[data[d].prev] = LatestIn(o, i - 1, key)
      <4>1. CASE i = 1
        <5>1. LatestIn(o, i - 1, key) = Null
          BY <4>1, LatestOfNone
        <5> QED
          BY <4>1, <5>1, <3>4
      <4>2. CASE i # 1
        <5> DEFINE q == attached[o][i - 1]
        <5>1. i - 1 \in 1..Len(attached[o])
          BY <3>1, <3>3, <4>2
        <5>2. q \in DOMAIN data
          BY <3>1, <5>1 DEF ChainInv
        <5>3. q # Null
          BY <5>2, Sorts DEF TypeInv
        <5>4. LatestIn(Home(q)[1], Home(q)[2], key) = LatestIn(o, i - 1, key)
          <6> DEFINE p == Home(q)[1]
                     j == Home(q)[2]
          <6>1. p \in Objects /\ j \in 1..Len(attached[p]) /\ attached[p][j] = attached[o][i - 1]
            BY <5>2, HomesExist
          <6> HIDE DEF p, j, q
          <6>2. LatestIn(p, j, key) = LatestIn(o, i - 1, key)
            BY <6>1, <5>1, <3>1, LatestIsShared
          <6> QED
            BY <6>2 DEF p, j
        <5> QED
          BY <5>2, <5>3, <5>4, <4>2, <3>4
      <4> QED
        BY <4>1, <4>2
    <3> HIDE DEF f
    <3>6. LatestIn(o, i, key) = IF data[d].key = key THEN data[d].value ELSE LatestIn(o, i - 1, key)
      BY <3>1, <3>3, LatestStep
    <3> QED
      BY <2>2, <3>2, <3>5, <3>6
  <2> QED
    BY <2>1, <2>2
<1>2. f = [d \in DOMAIN f |-> f[d]] /\ DOMAIN f = DOMAIN data \cup {Null}
  OBVIOUS
<1> HIDE DEF f
<1>3. f = [d \in DOMAIN data \cup {Null} |->
              IF d = Null THEN Null
              ELSE IF data[d].key = key THEN data[d].value ELSE f[data[d].prev]]
  BY <1>1, <1>2
<1> QED
  BY <1>3 DEF IsSearch

(* From a pair of an object, it finds the latest of the pairs up to there.  *)
LEMMA SearchesFind ==
    ASSUME TypeInv, ChainInv, NEW key, NEW f, IsSearch(f, key), NEW o \in Objects,
           NEW n \in 0..Len(attached[o])
    PROVE  f[Older(o, n + 1)] = LatestIn(o, n, key)
<1> DEFINE Wrong == {m \in 0..Len(attached[o]) : f[Older(o, m + 1)] # LatestIn(o, m, key)}
<1>0. Len(attached[o]) \in Nat
  BY LenProperties DEF TypeInv
<1> SUFFICES ASSUME Wrong # {} PROVE FALSE
  <2>1. n \in Wrong \/ f[Older(o, n + 1)] = LatestIn(o, n, key)
    OBVIOUS
  <2> QED
    BY <2>1
<1>a. Wrong \in SUBSET Nat
  BY <1>0
<1>1. PICK m \in Wrong : \A y \in Wrong : m <= y
  BY <1>a, LeastNat
<1>2. m \in 0..Len(attached[o]) /\ f[Older(o, m + 1)] # LatestIn(o, m, key)
  OBVIOUS
<1>3. CASE m = 0
  <2>1. Older(o, m + 1) = Null
    BY <1>3 DEF Older
  <2>2. f[Null] = Null
    BY DEF IsSearch
  <2>3. LatestIn(o, 0, key) = Null
    BY LatestOfNone
  <2> QED
    BY <1>2, <1>3, <2>1, <2>2, <2>3
<1>4. CASE m # 0
  <2> DEFINE d == attached[o][m]
  <2>1. m \in 1..Len(attached[o]) /\ m - 1 \in 0..Len(attached[o]) /\ ~(m <= m - 1)
        /\ (m - 1) + 1 = m /\ (m + 1) - 1 = m /\ m + 1 # 1 /\ m \in Nat \ {0}
    BY <1>0, <1>2, <1>4
  <2>2. f[Older(o, m)] = LatestIn(o, m - 1, key)
    BY <1>1, <2>1
  <2>3. d \in DOMAIN data /\ data[d].prev = Older(o, m)
    BY <2>1 DEF ChainInv
  <2>4. d # Null
    BY <2>3, Sorts DEF TypeInv
  <2>5. f[d] = IF data[d].key = key THEN data[d].value ELSE f[data[d].prev]
    BY <2>3, <2>4 DEF IsSearch
  <2>6. Older(o, m + 1) = d
    BY <2>1 DEF Older
  <2> QED
    BY <1>2, <2>1, <2>2, <2>3, <2>5, <2>6, LatestStep
<1> QED
  BY <1>3, <1>4

(* GetMetaData answers the pair attached last.                              *)
LEMMA AnswersHold ==
    ASSUME TypeInv, ChainInv
    PROVE  AnswersAreLatest
<1> SUFFICES ASSUME NEW o \in DOMAIN object, NEW key \in Keys
             PROVE  LET pairs == attached[o]
                        with == {i \in DOMAIN pairs : data[pairs[i]].key = key}
                    IN GetMetaData(o, key)
                       = IF with = {} THEN Null ELSE data[pairs[Max(with)]].value
  BY DEF AnswersAreLatest
<1> DEFINE f == CHOOSE Search : IsSearch(Search, key)
           n == Len(attached[o])
<1>1. IsSearch(f, key)
  BY SearchesExist
<1>2. GetMetaData(o, key) = f[object[o].fields]
  BY DEF GetMetaData, IsSearch
<1>3. o \in Objects /\ n \in Nat /\ n \in 0..n /\ DOMAIN attached[o] = 1..n
  BY LenProperties DEF TypeInv
<1>4. object[o].fields = Older(o, n + 1)
  BY DEF ChainInv
<1> HIDE DEF f
<1>5. GetMetaData(o, key) = LatestIn(o, n, key)
  BY <1>1, <1>2, <1>3, <1>4, SearchesFind
<1> QED
  BY <1>3, <1>5 DEF LatestIn, With

-----------------------------------------------------------------------------
(* Nothing exists at first.                                                 *)
LEMMA InitInv ==
    ASSUME Init PROVE Inv
<1>1. Kinds # {} /\ \A kind \in Kinds : registered[kind] = << >> /\ m_List[kind] = Null
  BY DEF Init, Kinds
<1>2. DOMAIN object = {} /\ DOMAIN data = {} /\ \A o \in Objects : attached[o] = << >>
  BY DEF Init
<1>3. Len(<< >>) = 0
  OBVIOUS
<1>4. TypeInv
  <2>1. registered \in [Kinds -> Seq(Listed)] /\ attached \in [Objects -> Seq(Datas)]
    BY DEF Init
  <2>2. m_List \in [Kinds -> Objects \cup {Null}]
    BY DEF Init
  <2>3. object \in [DOMAIN object -> [fields : Datas \cup {Null}, self : Objects,
                                      prev : Objects \cup {Null}]]
    BY <1>2 DEF Init
  <2>4. data \in [DOMAIN data -> [key : Keys, value : Values, prev : Datas \cup {Null}]]
    BY <1>2 DEF Init
  <2> QED
    BY <1>2, <2>1, <2>2, <2>3, <2>4 DEF TypeInv
<1>5. ListInv
  BY <1>1, <1>2, <1>3 DEF ListInv, Under
<1>6. ChainInv
  BY <1>2, <1>3 DEF ChainInv, Older
<1>7. MapInv
  <2>1. {c \in Classes : Copy(c) \in DOMAIN object} = {}
    BY <1>2
  <2>2. m_metaClasses = [c \in {} |-> Copy(c)]
    BY DEF Init
  <2> QED
    BY <1>2, <2>1, <2>2 DEF MapInv
<1> QED
  BY <1>4, <1>5, <1>6, <1>7 DEF Inv

-----------------------------------------------------------------------------
(* A new object: what the constructor leaves alone and what it sets.        *)
LEMMA RegisterIs ==
    ASSUME Inv, NEW s \in Statics, Register(s)
    PROVE  /\ s \in Objects /\ s \notin Copies /\ s \notin DOMAIN object
           /\ DOMAIN object' = DOMAIN object \cup {s}
           /\ \A o \in DOMAIN object : o # s /\ object'[o] = object[o]
           /\ object'[s].fields = Null /\ object'[s].self = s
           /\ object'[s] \in [fields : Datas \cup {Null}, self : Objects,
                              prev : Objects \cup {Null}]
           /\ s \in Detached =>
                /\ object'[s].prev = Null
                /\ m_List' = m_List /\ registered' = registered
           /\ s \notin Detached =>
                /\ s \in Listed /\ Kind(s) \in Kinds
                /\ object'[s].prev = m_List[Kind(s)]
                /\ m_List' = [m_List EXCEPT ![Kind(s)] = s]
                /\ registered' = [registered EXCEPT ![Kind(s)] = Append(registered[Kind(s)], s)]
<1>1. s \in Objects /\ s \notin Copies /\ (s \notin Detached => s \in Listed)
  BY Sorts, ObjectsAssumption DEF Objects, Statics, Listed
<1>2. s \notin Detached => Kind(s) \in Kinds
  BY <1>1, Sorts
<1>3. (s \notin Detached) => m_List[Kind(s)] \in Objects \cup {Null}
  BY <1>2 DEF Inv, TypeInv
<1> QED
  BY <1>1, <1>2, <1>3 DEF Register, Lists

(* The new object is put at the head of its list.                           *)
LEMMA RegisterAppends ==
    ASSUME Inv, NEW s \in Statics, Register(s), s \notin Detached
    PROVE  LET k == Kind(s) n == Len(registered[Kind(s)]) IN
           /\ n \in Nat /\ Len(registered'[k]) = n + 1
           /\ registered'[k] \in Seq(Listed)
           /\ \A i \in 1..n : registered'[k][i] = registered[k][i]
           /\ registered'[k][n + 1] = s
           /\ \A kind \in Kinds : kind # k => registered'[kind] = registered[kind]
           /\ m_List'[k] = s
           /\ \A kind \in Kinds : kind # k => m_List'[kind] = m_List[kind]
<1>1. /\ s \in Listed /\ Kind(s) \in Kinds
      /\ m_List' = [m_List EXCEPT ![Kind(s)] = s]
      /\ registered' = [registered EXCEPT ![Kind(s)] = Append(registered[Kind(s)], s)]
  BY RegisterIs
<1>2. registered[Kind(s)] \in Seq(Listed) /\ DOMAIN registered = Kinds /\ DOMAIN m_List = Kinds
  BY <1>1 DEF Inv, TypeInv
<1>3. registered'[Kind(s)] = Append(registered[Kind(s)], s)
  BY <1>1, <1>2
<1>4. Len(registered[Kind(s)]) \in Nat
  BY <1>2, LenProperties
<1> QED
  BY <1>1, <1>2, <1>3, <1>4, AppendProperties

(* A registration keeps the types.                                          *)
LEMMA RegisterTypes ==
    ASSUME Inv, NEW s \in Statics, Register(s)
    PROVE  TypeInv'
<1> DEFINE Fields == [fields : Datas \cup {Null}, self : Objects, prev : Objects \cup {Null}]
<1>1. /\ s \in Objects
      /\ DOMAIN object' = DOMAIN object \cup {s}
      /\ \A o \in DOMAIN object : object'[o] = object[o]
      /\ object'[s] \in Fields
  BY RegisterIs
<1>2. /\ s \in Detached => m_List' = m_List /\ registered' = registered
      /\ s \notin Detached =>
           /\ s \in Listed /\ Kind(s) \in Kinds
           /\ m_List' = [m_List EXCEPT ![Kind(s)] = s]
           /\ registered' = [registered EXCEPT ![Kind(s)] = Append(registered[Kind(s)], s)]
  BY RegisterIs
<1>3. /\ DOMAIN object \subseteq Objects /\ \A o \in DOMAIN object : object[o] \in Fields
      /\ m_List \in [Kinds -> Objects \cup {Null}] /\ registered \in [Kinds -> Seq(Listed)]
  BY DEF Inv, TypeInv
<1>4. object' = [o \in DOMAIN object' |-> object'[o]]
  BY DEF Register
<1> HIDE DEF Fields
<1>5. object' \in [DOMAIN object' -> Fields]
  <2>1. \A o \in DOMAIN object' : object'[o] \in Fields
    BY <1>1, <1>3
  <2> QED
    BY <1>4, <2>1
<1>6. m_List' \in [Kinds -> Objects \cup {Null}]
  BY <1>1, <1>2, <1>3
<1>7. registered' \in [Kinds -> Seq(Listed)]
  <2>1. CASE s \in Detached
    BY <2>1, <1>2, <1>3
  <2>2. CASE s \notin Detached
    <3>1. registered[Kind(s)] \in Seq(Listed)
      BY <2>2, <1>2, <1>3
    <3>2. Append(registered[Kind(s)], s) \in Seq(Listed)
      BY <3>1, <2>2, <1>2, AppendProperties
    <3> QED
      BY <3>2, <2>2, <1>2, <1>3
  <2> QED
    BY <2>1, <2>2
<1>8. data' = data /\ attached' = attached
  BY DEF Register
<1> QED
  BY <1>1, <1>3, <1>5, <1>6, <1>7, <1>8 DEF Inv, TypeInv, Fields

(* It keeps the lists: the new object is on top of the one that was there.  *)
LEMMA RegisterLists ==
    ASSUME Inv, NEW s \in Statics, Register(s)
    PROVE  ListInv'
<1> USE DEF Inv
<1>1. /\ s \notin DOMAIN object /\ s \notin Copies
      /\ DOMAIN object' = DOMAIN object \cup {s}
      /\ \A o \in DOMAIN object : o # s /\ object'[o] = object[o]
  BY RegisterIs
<1>2. \A t \in Listed : Copy(t) \in DOMAIN object' =>
         t \in DOMAIN object' /\ object'[Copy(t)].prev = object'[t].prev
  <2> SUFFICES ASSUME NEW t \in Listed, Copy(t) \in DOMAIN object'
               PROVE  t \in DOMAIN object' /\ object'[Copy(t)].prev = object'[t].prev
    OBVIOUS
  <2>1. Copy(t) # s
    BY <1>1, Sorts
  <2>2. Copy(t) \in DOMAIN object
    BY <2>1, <1>1
  <2>3. t \in DOMAIN object /\ object[Copy(t)].prev = object[t].prev
    BY <2>2 DEF ListInv
  <2> QED
    BY <2>2, <2>3, <1>1
<1>3. CASE s \in Detached
  <2>1. registered' = registered /\ m_List' = m_List /\ object'[s].prev = Null
    BY <1>3, RegisterIs
  <2>2. \A t \in Listed : t # s
    BY <1>3, Sorts
  <2>3. \A kind \in Kinds :
         /\ m_List'[kind] = Under(kind, Len(registered[kind]) + 1)
         /\ \A i \in 1..Len(registered[kind]) :
              /\ registered[kind][i] \in DOMAIN object'
              /\ Kind(registered[kind][i]) = kind
              /\ object'[registered[kind][i]].prev = Under(kind, i)
         /\ \A i, j \in 1..Len(registered[kind]) :
              registered[kind][i] = registered[kind][j] => i = j
    BY <1>1, <2>1 DEF ListInv
  <2>4. \A t \in DOMAIN object' \cap Listed :
           \E i \in 1..Len(registered[Kind(t)]) : registered[Kind(t)][i] = t
    BY <1>1, <2>2 DEF ListInv
  <2>5. \A t \in DOMAIN object' \cap Detached : object'[t].prev = Null
    BY <1>1, <2>1 DEF ListInv
  <2> QED
    BY <1>2, <2>1, <2>3, <2>4, <2>5 DEF ListInv, Under
<1>4. CASE s \notin Detached
  <2> DEFINE k == Kind(s)
             n == Len(registered[k])
  <2>1. s \in Listed /\ k \in Kinds /\ object'[s].prev = m_List[k]
    BY <1>4, RegisterIs
  <2>2. /\ n \in Nat /\ Len(registered'[k]) = n + 1
        /\ \A i \in 1..n : registered'[k][i] = registered[k][i]
        /\ registered'[k][n + 1] = s
        /\ \A kind \in Kinds : kind # k => registered'[kind] = registered[kind]
        /\ m_List'[k] = s
        /\ \A kind \in Kinds : kind # k => m_List'[kind] = m_List[kind]
    BY <1>4, RegisterAppends
  <2>k. k = Kind(s)
    OBVIOUS
  <2> HIDE DEF k
  <2>3. \A i \in 1..n : /\ registered[k][i] \in DOMAIN object /\ Kind(registered[k][i]) = k
                        /\ object[registered[k][i]].prev = IF i = 1 THEN Null ELSE registered[k][i - 1]
                        /\ registered[k][i] # s
    BY <2>1, <1>1 DEF ListInv, Under
  <2>4. object'[s].prev = IF n = 0 THEN Null ELSE registered[k][n]
    <3>1. m_List[k] = Under(k, n + 1)
      BY <2>1 DEF ListInv
    <3> QED
      BY <3>1, <2>1, <2>2 DEF Under
  <2>5. ASSUME NEW i \in 1..(n + 1)
        PROVE  /\ registered'[k][i] \in DOMAIN object' /\ Kind(registered'[k][i]) = k
               /\ object'[registered'[k][i]].prev = IF i = 1 THEN Null ELSE registered'[k][i - 1]
    <3>1. CASE i \in 1..n
      <4>1. i # 1 => i - 1 \in 1..n
        BY <3>1, <2>2
      <4>2. registered'[k][i] = registered[k][i]
        BY <3>1, <2>2
      <4>3. i # 1 => registered'[k][i - 1] = registered[k][i - 1]
        BY <4>1, <2>2
      <4>4. /\ registered[k][i] \in DOMAIN object /\ Kind(registered[k][i]) = k
            /\ object[registered[k][i]].prev = IF i = 1 THEN Null ELSE registered[k][i - 1]
        BY <3>1, <2>3
      <4>5. object'[registered[k][i]] = object[registered[k][i]]
        BY <4>4, <1>1
      <4> QED
        BY <4>2, <4>3, <4>4, <4>5, <1>1
    <3>2. CASE i \notin 1..n
      <4>0. n \in Nat
        BY <2>2
      <4>1. i = n + 1 /\ (i = 1 <=> n = 0) /\ i - 1 = n /\ (i # 1 => n \in 1..n)
        <5> HIDE DEF n
        <5>1. i \in Nat /\ 1 <= i /\ i <= n + 1 /\ ~(i <= n)
          BY <4>0, <2>5, <3>2
        <5> QED
          BY <4>0, <5>1
      <4> QED
        BY <4>1, <2>2, <2>4, <2>k, <1>1
    <3> QED
      BY <3>1, <3>2
  <2>6. ASSUME NEW i \in 1..(n + 1), NEW j \in 1..(n + 1), registered'[k][i] = registered'[k][j]
        PROVE  i = j
    <3>1. \A l \in 1..(n + 1) : l \in 1..n \/ l = n + 1
      BY <2>2
    <3>2. \A l, m \in 1..n : registered[k][l] = registered[k][m] => l = m
      BY <2>1 DEF ListInv
    <3>3. \A l \in 1..n : registered'[k][l] = registered[k][l] /\ registered'[k][l] # s
      BY <2>2, <2>3
    <3> QED
      BY <2>2, <2>6, <3>1, <3>2, <3>3
  <2>7. m_List'[k] = IF n + 2 = 1 THEN Null ELSE registered'[k][(n + 2) - 1]
    BY <2>2
  <2>8. ASSUME NEW kind \in Kinds
        PROVE  /\ m_List'[kind] = Under(kind, Len(registered[kind]) + 1)'
               /\ \A i \in 1..Len(registered'[kind]) :
                    /\ registered'[kind][i] \in DOMAIN object'
                    /\ Kind(registered'[kind][i]) = kind
                    /\ object'[registered'[kind][i]].prev
                       = IF i = 1 THEN Null ELSE registered'[kind][i - 1]
               /\ \A i, j \in 1..Len(registered'[kind]) :
                    registered'[kind][i] = registered'[kind][j] => i = j
    <3>1. CASE kind = k
      <4>1. (n + 1) + 1 = n + 2
        BY <2>2
      <4> HIDE DEF n
      <4> QED
        BY <3>1, <4>1, <2>2, <2>5, <2>6, <2>7 DEF Under
    <3>2. CASE kind # k
      <4>1. registered'[kind] = registered[kind] /\ m_List'[kind] = m_List[kind]
        BY <3>2, <2>2
      <4>2. m_List'[kind] = Under(kind, Len(registered[kind]) + 1)'
        BY <4>1 DEF ListInv, Under
      <4>3. \A i \in 1..Len(registered[kind]) :
                    /\ registered[kind][i] \in DOMAIN object
                    /\ Kind(registered[kind][i]) = kind
                    /\ object[registered[kind][i]].prev
                       = IF i = 1 THEN Null ELSE registered[kind][i - 1]
        BY DEF ListInv, Under
      <4>4. \A i, j \in 1..Len(registered[kind]) :
                    registered[kind][i] = registered[kind][j] => i = j
        BY DEF ListInv
      <4> QED
        BY <4>1, <4>2, <4>3, <4>4, <1>1
    <3> QED
      BY <3>1, <3>2
  <2>9. ASSUME NEW t \in DOMAIN object' \cap Listed
        PROVE  \E i \in 1..Len(registered'[Kind(t)]) : registered'[Kind(t)][i] = t
    <3>1. CASE t = s
      <4>1. n + 1 \in 1..(n + 1)
        BY <2>2
      <4> QED
        BY <3>1, <4>1, <2>2, <2>k
    <3>2. CASE t # s
      <4>1. PICK i \in 1..Len(registered[Kind(t)]) : registered[Kind(t)][i] = t
        BY <3>2, <1>1 DEF ListInv
      <4>2. Kind(t) \in Kinds
        BY Sorts
      <4>3. Kind(t) = k => i \in 1..(n + 1)
        BY <2>2
      <4> QED
        BY <4>1, <4>2, <4>3, <2>2
    <3> QED
      BY <3>1, <3>2
  <2>10. \A t \in DOMAIN object' \cap Detached : object'[t].prev = Null
    BY <1>1, <1>4 DEF ListInv
  <2> QED
    BY <1>2, <2>8, <2>9, <2>10 DEF ListInv, Under
<1> QED
  BY <1>3, <1>4

(* It keeps the chains: the new object has no pair.                         *)
LEMMA RegisterChains ==
    ASSUME Inv, NEW s \in Statics, Register(s)
    PROVE  ChainInv'
<1> USE DEF Inv
<1>1. /\ s \notin DOMAIN object /\ s \in Objects
      /\ DOMAIN object' = DOMAIN object \cup {s}
      /\ \A o \in DOMAIN object : o # s /\ object'[o] = object[o]
      /\ object'[s].fields = Null
  BY RegisterIs
<1>2. data' = data /\ attached' = attached
  BY DEF Register
<1>3. attached[s] = << >> /\ Len(attached[s]) = 0
  BY <1>1 DEF ChainInv
<1>4. object'[s].fields = Older(s, Len(attached[s]) + 1)
  BY <1>1, <1>3 DEF Older
<1>5. \A o \in DOMAIN object' : object'[o].fields = Older(o, Len(attached[o]) + 1)
  BY <1>1, <1>4 DEF ChainInv
<1>6. \A o \in Objects \ DOMAIN object' : attached[o] = << >>
  BY <1>1 DEF ChainInv
<1>7. \A o \in Objects : \A i \in 1..Len(attached[o]) :
         /\ attached[o][i] \in DOMAIN data
         /\ data[attached[o][i]].prev = Older(o, i)
  BY DEF ChainInv
<1>8. \A o, p \in Objects : \A i \in 1..Len(attached[o]), j \in 1..Len(attached[p]) :
         attached[o][i] = attached[p][j]
         => i = j /\ \A n \in 1..i : attached[o][n] = attached[p][n]
  BY DEF ChainInv
<1>9. \A d \in DOMAIN data : \E o \in Objects : \E i \in 1..Len(attached[o]) : attached[o][i] = d
  BY DEF ChainInv
<1> QED
  BY <1>2, <1>5, <1>6, <1>7, <1>8, <1>9 DEF ChainInv, Older

(* It keeps the maps: the new object has no copy.                           *)
LEMMA RegisterMaps ==
    ASSUME Inv, NEW s \in Statics, Register(s)
    PROVE  MapInv'
<1> USE DEF Inv
<1>1. /\ s \notin DOMAIN object /\ s \in Objects /\ s \notin Copies
      /\ DOMAIN object' = DOMAIN object \cup {s}
      /\ \A o \in DOMAIN object : o # s /\ object'[o] = object[o]
      /\ object'[s].self = s
  BY RegisterIs
<1>2. context' = context /\ m_metaClasses' = m_metaClasses /\ m_functions' = m_functions
  BY DEF Register
<1>3. \A t \in Listed : Copy(t) \in DOMAIN object' <=> Copy(t) \in DOMAIN object
  BY <1>1, Sorts
<1>4. Classes \subseteq Listed /\ Functions \subseteq Listed
  BY DEF Listed
<1>5. context' = Null => DOMAIN object' \cap Copies = {}
  BY <1>1, <1>2 DEF MapInv
<1>6. ASSUME NEW t \in Classes \cap DOMAIN object'
      PROVE  object'[t].self = IF Copy(t) \in DOMAIN object' THEN Copy(t) ELSE t
  <2>1. CASE t = s
    <3>1. Copy(t) \notin DOMAIN object
      BY <2>1, <1>1, <1>4 DEF ListInv
    <3> QED
      BY <2>1, <3>1, <1>1, <1>3, <1>4
  <2>2. CASE t # s
    BY <2>2, <1>1, <1>3, <1>4 DEF MapInv
  <2> QED
    BY <2>1, <2>2
<1>7. \A t \in Classes : Copy(t) \in DOMAIN object' => object'[Copy(t)].self = Copy(t)
  BY <1>1, <1>3, <1>4 DEF MapInv
<1>8. {c \in Classes : Copy(c) \in DOMAIN object'} = {c \in Classes : Copy(c) \in DOMAIN object}
  BY <1>3, <1>4
<1>9. m_metaClasses' = [c \in {c \in Classes : Copy(c) \in DOMAIN object'} |-> Copy(c)]
  BY <1>2, <1>8 DEF MapInv
<1>10. ASSUME NEW f \in Functions, Copy(f) \in DOMAIN object'
       PROVE  /\ Copy(ClassOf[f]) \in DOMAIN object'
              /\ NameOf[f] \in DOMAIN m_functions'[Copy(ClassOf[f])]
              /\ m_functions'[Copy(ClassOf[f])][NameOf[f]] = Copy(f)
  BY <1>10, <1>1, <1>2, <1>3, <1>4 DEF MapInv
<1> QED
  BY <1>5, <1>6, <1>7, <1>9, <1>10 DEF MapInv

-----------------------------------------------------------------------------
(* The lists are not disturbed by a step that leaves the links of objects.  *)
LEMMA ListsStay ==
    ASSUME ListInv, registered' = registered, m_List' = m_List,
           DOMAIN object' = DOMAIN object,
           \A o \in DOMAIN object : object'[o].prev = object[o].prev
    PROVE  ListInv'
<1>1. \A kind \in Kinds :
         /\ m_List[kind] = Under(kind, Len(registered[kind]) + 1)
         /\ \A i \in 1..Len(registered[kind]) :
              /\ registered[kind][i] \in DOMAIN object'
              /\ Kind(registered[kind][i]) = kind
              /\ object'[registered[kind][i]].prev = Under(kind, i)
         /\ \A i, j \in 1..Len(registered[kind]) :
              registered[kind][i] = registered[kind][j] => i = j
  BY DEF ListInv
<1>2. \A s \in DOMAIN object' \cap Listed :
         \E i \in 1..Len(registered[Kind(s)]) : registered[Kind(s)][i] = s
  BY DEF ListInv
<1>3. \A s \in DOMAIN object' \cap Detached : object'[s].prev = Null
  BY DEF ListInv
<1>4. \A s \in Listed : Copy(s) \in DOMAIN object' =>
         s \in DOMAIN object' /\ object'[Copy(s)].prev = object'[s].prev
  BY DEF ListInv
<1> QED
  BY <1>1, <1>2, <1>3, <1>4 DEF ListInv, Under

(* Nor the maps by one that leaves the actives and the maps.                *)
LEMMA MapsStay ==
    ASSUME MapInv, m_metaClasses' = m_metaClasses, m_functions' = m_functions,
           context' = context \/ context' # Null,
           DOMAIN object' = DOMAIN object,
           \A o \in DOMAIN object : object'[o].self = object[o].self
    PROVE  MapInv'
<1>1. context' = Null => DOMAIN object' \cap Copies = {}
  BY DEF MapInv
<1>2. \A s \in Classes \cap DOMAIN object' :
         object'[s].self = IF Copy(s) \in DOMAIN object' THEN Copy(s) ELSE s
  BY DEF MapInv
<1>3. \A s \in Classes : Copy(s) \in DOMAIN object' => object'[Copy(s)].self = Copy(s)
  BY DEF MapInv
<1>4. m_metaClasses' = [c \in {c \in Classes : Copy(c) \in DOMAIN object'} |-> Copy(c)]
  BY DEF MapInv
<1>5. \A f \in Functions : Copy(f) \in DOMAIN object' =>
         /\ Copy(ClassOf[f]) \in DOMAIN object'
         /\ NameOf[f] \in DOMAIN m_functions'[Copy(ClassOf[f])]
         /\ m_functions'[Copy(ClassOf[f])][NameOf[f]] = Copy(f)
  BY DEF MapInv
<1> QED
  BY <1>1, <1>2, <1>3, <1>4, <1>5 DEF MapInv

(* A new pair: what its constructor sets.                                   *)
LEMMA AttachIs ==
    ASSUME Inv, NEW d \in Datas, NEW o \in Objects, NEW key \in Keys, NEW value \in Values,
           Attach(d, o, key, value)
    PROVE  /\ d \notin DOMAIN data /\ o \in DOMAIN object
           /\ DOMAIN data' = DOMAIN data \cup {d}
           /\ \A q \in DOMAIN data : q # d /\ data'[q] = data[q]
           /\ data'[d] \in [key : Keys, value : Values, prev : Datas \cup {Null}]
           /\ data'[d].prev = object[o].fields
           /\ DOMAIN object' = DOMAIN object
           /\ \A p \in DOMAIN object : /\ object'[p].prev = object[p].prev
                                       /\ object'[p].self = object[p].self
                                       /\ p # o => object'[p].fields = object[p].fields
           /\ object'[o].fields = d
<1>1. o \in DOMAIN object /\ d \notin DOMAIN data
  BY DEF Attach
<1>2. \A p \in DOMAIN object : object[p] \in [fields : Datas \cup {Null}, self : Objects,
                                              prev : Objects \cup {Null}]
  BY DEF Inv, TypeInv
<1>3. object' = [object EXCEPT ![o] = [object[o] EXCEPT !.fields = d]]
  BY DEF Attach
<1>4. data' = [p \in DOMAIN data \cup {d} |-> IF p = d THEN Linked(o, key, value) ELSE data[p]]
  BY DEF Attach
<1> QED
  BY <1>1, <1>2, <1>3, <1>4 DEF Linked

(* The pair is the object's latest, and the other objects' pairs stay.      *)
LEMMA AttachAppends ==
    ASSUME Inv, NEW d \in Datas, NEW o \in Objects, NEW key \in Keys, NEW value \in Values,
           Attach(d, o, key, value)
    PROVE  LET n == Len(attached[o]) IN
           /\ n \in Nat /\ Len(attached'[o]) = n + 1
           /\ attached' \in [Objects -> Seq(Datas)]
           /\ \A i \in 1..n : attached'[o][i] = attached[o][i]
           /\ attached'[o][n + 1] = d
           /\ \A p \in Objects : p # o => attached'[p] = attached[p]
<1>1. attached[o] \in Seq(Datas) /\ attached \in [Objects -> Seq(Datas)]
  BY DEF Inv, TypeInv
<1>2. attached' = [attached EXCEPT ![o] = Append(attached[o], d)]
  BY DEF Attach
<1>3. Append(attached[o], d) \in Seq(Datas) /\ Len(attached[o]) \in Nat
  BY <1>1, AppendProperties, LenProperties
<1>4. attached'[o] = Append(attached[o], d)
  BY <1>1, <1>2
<1>5. /\ attached' \in [Objects -> Seq(Datas)]
      /\ \A p \in Objects : p # o => attached'[p] = attached[p]
  BY <1>1, <1>2, <1>3
<1> QED
  BY <1>1, <1>3, <1>4, <1>5, AppendProperties

(* A new pair keeps the types.                                              *)
LEMMA AttachTypes ==
    ASSUME Inv, NEW d \in Datas, NEW o \in Objects, NEW key \in Keys, NEW value \in Values,
           Attach(d, o, key, value)
    PROVE  TypeInv'
<1>1. DOMAIN data' = DOMAIN data \cup {d} /\ DOMAIN object' = DOMAIN object /\ o \in DOMAIN object
      /\ data'[d] \in [key : Keys, value : Values, prev : Datas \cup {Null}]
      /\ \A q \in DOMAIN data : data'[q] = data[q]
  BY AttachIs
<1>a. object' = [object EXCEPT ![o] = [object[o] EXCEPT !.fields = d]]
  BY DEF Attach
<1>2. attached' \in [Objects -> Seq(Datas)]
  BY AttachAppends
<1>3. TypeInv
  BY DEF Inv
<1>4. object' \in [DOMAIN object' -> [fields : Datas \cup {Null}, self : Objects,
                                      prev : Objects \cup {Null}]]
  <2>1. /\ o \in DOMAIN object /\ DOMAIN object' = DOMAIN object
        /\ object \in [DOMAIN object -> [fields : Datas \cup {Null}, self : Objects,
                                         prev : Objects \cup {Null}]]
    BY <1>1, <1>3 DEF TypeInv
  <2>2. object[o] \in [fields : Datas \cup {Null}, self : Objects, prev : Objects \cup {Null}]
    BY <2>1
  <2>3. [object[o] EXCEPT !.fields = d]
          \in [fields : Datas \cup {Null}, self : Objects, prev : Objects \cup {Null}]
    BY <2>2
  <2> QED
    BY <2>1, <2>3, <1>a
<1>5. data' \in [DOMAIN data' -> [key : Keys, value : Values, prev : Datas \cup {Null}]]
  <2>3. \A q \in DOMAIN data : data[q] \in [key : Keys, value : Values, prev : Datas \cup {Null}]
    BY <1>3 DEF TypeInv
  <2>4. data' = [q \in DOMAIN data' |-> data'[q]]
    BY DEF Attach
  <2>5. \A q \in DOMAIN data' : data'[q] \in [key : Keys, value : Values, prev : Datas \cup {Null}]
    BY <2>3, <1>1
  <2> QED
    BY <2>4, <2>5
<1>6. m_List' = m_List /\ registered' = registered
  BY DEF Attach
<1> QED
  BY <1>1, <1>2, <1>3, <1>4, <1>5, <1>6 DEF TypeInv

(* It keeps the chains: no object had it, and it is on top of its own.      *)
LEMMA AttachChains ==
    ASSUME Inv, NEW d \in Datas, NEW o \in Objects, NEW key \in Keys, NEW value \in Values,
           Attach(d, o, key, value)
    PROVE  ChainInv'
<1> DEFINE n == Len(attached[o])
<1>1. /\ d \notin DOMAIN data /\ o \in DOMAIN object
      /\ DOMAIN data' = DOMAIN data \cup {d}
      /\ \A q \in DOMAIN data : q # d /\ data'[q] = data[q]
      /\ data'[d].prev = object[o].fields
      /\ DOMAIN object' = DOMAIN object
      /\ \A p \in DOMAIN object : p # o => object'[p].fields = object[p].fields
      /\ object'[o].fields = d
  BY AttachIs
<1>2. /\ n \in Nat /\ Len(attached'[o]) = n + 1
      /\ \A i \in 1..n : attached'[o][i] = attached[o][i]
      /\ attached'[o][n + 1] = d
      /\ \A p \in Objects : p # o => attached'[p] = attached[p]
  BY AttachAppends
<1>3. ChainInv /\ TypeInv
  BY DEF Inv
<1>4. \A p \in Objects : \A i \in 1..Len(attached[p]) :
         /\ attached[p][i] \in DOMAIN data
         /\ data[attached[p][i]].prev = IF i = 1 THEN Null ELSE attached[p][i - 1]
  BY <1>3 DEF ChainInv, Older
<1>5. \A p \in Objects : Len(attached[p]) \in Nat
  BY <1>3, LenProperties DEF TypeInv
\* Where the new pair is, and that the others are where they were.
<1>6. ASSUME NEW p \in Objects, NEW i \in 1..Len(attached'[p])
      PROVE  \/ p = o /\ i = n + 1 /\ attached'[p][i] = d
             \/ /\ i \in 1..Len(attached[p]) /\ attached'[p][i] # d
                /\ \A m \in 1..i : attached'[p][m] = attached[p][m]
  <2>1. CASE p = o /\ i = n + 1
    BY <2>1, <1>2
  <2>2. CASE ~(p = o /\ i = n + 1)
    <3>1. i \in 1..Len(attached[p])
      BY <2>2, <1>2, <1>5
    <3>2. \A m \in 1..i : m \in 1..Len(attached[p])
      BY <3>1, <1>5
    <3>3. \A m \in 1..Len(attached[p]) : attached'[p][m] = attached[p][m]
      BY <1>2
    <3>4. i \in 1..i
      BY <3>1, <1>5
    <3> QED
      BY <3>1, <3>2, <3>3, <3>4, <1>1, <1>4
  <2> QED
    BY <2>1, <2>2
<1> HIDE DEF n
<1>7. \A p \in Objects \ DOMAIN object' : attached'[p] = << >>
  BY <1>1, <1>2, <1>3 DEF ChainInv
<1>8. ASSUME NEW p \in DOMAIN object'
      PROVE  object'[p].fields = IF Len(attached'[p]) + 1 = 1 THEN Null
                                 ELSE attached'[p][(Len(attached'[p]) + 1) - 1]
  <2>1. CASE p = o
    BY <2>1, <1>1, <1>2
  <2>2. CASE p # o
    <3>1. p \in Objects /\ p \in DOMAIN object
      BY <1>1, <1>3 DEF TypeInv
    <3>2. object[p].fields = IF Len(attached[p]) + 1 = 1 THEN Null
                             ELSE attached[p][(Len(attached[p]) + 1) - 1]
      BY <3>1, <1>3 DEF ChainInv, Older
    <3>3. attached'[p] = attached[p] /\ object'[p].fields = object[p].fields
      BY <2>2, <3>1, <1>1, <1>2
    <3> QED
      BY <3>2, <3>3
  <2> QED
    BY <2>1, <2>2
<1>9. ASSUME NEW p \in Objects, NEW i \in 1..Len(attached'[p])
      PROVE  /\ attached'[p][i] \in DOMAIN data'
             /\ data'[attached'[p][i]].prev = IF i = 1 THEN Null ELSE attached'[p][i - 1]
  <2>1. CASE p = o /\ i = n + 1 /\ attached'[p][i] = d
    <3>1. object[o].fields = IF n + 1 = 1 THEN Null ELSE attached[o][(n + 1) - 1]
      BY <1>1, <1>3 DEF ChainInv, Older, n
    <3>2. (n + 1 # 1) => (n + 1) - 1 \in 1..n
      BY <1>2
    <3> QED
      BY <2>1, <3>1, <3>2, <1>1, <1>2
  <2>2. CASE /\ i \in 1..Len(attached[p]) /\ attached'[p][i] # d
             /\ \A m \in 1..i : attached'[p][m] = attached[p][m]
    <3>1. i \in 1..i /\ (i # 1 => i - 1 \in 1..i)
      BY <2>2, <1>5
    <3> QED
      BY <2>2, <3>1, <1>1, <1>4
  <2> QED
    BY <2>1, <2>2, <1>6
<1>10. ASSUME NEW p \in Objects, NEW q \in Objects, NEW i \in 1..Len(attached'[p]),
              NEW j \in 1..Len(attached'[q]), attached'[p][i] = attached'[q][j]
       PROVE  i = j /\ \A m \in 1..i : attached'[p][m] = attached'[q][m]
  <2>1. CASE attached'[p][i] = d
    BY <2>1, <1>6, <1>10
  <2>2. CASE attached'[p][i] # d
    <3>1. /\ i \in 1..Len(attached[p]) /\ \A m \in 1..i : attached'[p][m] = attached[p][m]
          /\ j \in 1..Len(attached[q]) /\ \A m \in 1..j : attached'[q][m] = attached[q][m]
      BY <2>2, <1>6, <1>10
    <3>2. i \in 1..i /\ j \in 1..j
      BY <3>1, <1>5
    <3>3. attached[p][i] = attached[q][j]
      BY <3>1, <3>2, <1>10
    <3>4. i = j /\ \A m \in 1..i : attached[p][m] = attached[q][m]
      BY <3>1, <3>3, <1>3 DEF ChainInv
    <3> QED
      BY <3>1, <3>4
  <2> QED
    BY <2>1, <2>2
<1>11. ASSUME NEW q \in DOMAIN data'
       PROVE  \E p \in Objects : \E i \in 1..Len(attached'[p]) : attached'[p][i] = q
  <2>1. CASE q = d
    <3>1. n + 1 \in 1..(n + 1)
      BY <1>2
    <3> QED
      BY <2>1, <3>1, <1>2
  <2>2. CASE q # d
    <3>1. PICK p \in Objects : \E i \in 1..Len(attached[p]) : attached[p][i] = q
      BY <2>2, <1>1, <1>3 DEF ChainInv
    <3>2. PICK i \in 1..Len(attached[p]) : attached[p][i] = q
      BY <3>1
    <3>3. CASE p # o
      BY <3>2, <3>3, <1>2
    <3>4. CASE p = o
      <4>1. i \in 1..n /\ i \in 1..(n + 1)
        BY <3>2, <3>4, <1>2 DEF n
      <4> QED
        BY <4>1, <3>2, <3>4, <1>2
    <3> QED
      BY <3>3, <3>4
  <2> QED
    BY <2>1, <2>2
<1> QED
  BY <1>7, <1>8, <1>9, <1>10, <1>11 DEF ChainInv, Older

(* A new pair keeps everything.                                             *)
LEMMA AttachKeeps ==
    ASSUME Inv, NEW d \in Datas, NEW o \in Objects, NEW key \in Keys, NEW value \in Values,
           Attach(d, o, key, value)
    PROVE  Inv'
<1>1. /\ DOMAIN object' = DOMAIN object
      /\ \A p \in DOMAIN object : object'[p].prev = object[p].prev /\ object'[p].self = object[p].self
  BY AttachIs
<1>2. /\ m_List' = m_List /\ registered' = registered /\ m_metaClasses' = m_metaClasses
      /\ m_functions' = m_functions /\ context' = context
  BY DEF Attach
<1>3. ListInv /\ MapInv
  BY DEF Inv
<1>4. ListInv'
  BY <1>1, <1>2, <1>3, ListsStay
<1>5. MapInv'
  BY <1>1, <1>2, <1>3, MapsStay
<1> QED
  BY <1>4, <1>5, AttachTypes, AttachChains DEF Inv

(* A new value of a pair keeps everything.                                  *)
LEMMA SetValueKeeps ==
    ASSUME Inv, NEW d \in Datas, NEW value \in Values, SetValue(d, value)
    PROVE  Inv'
<1>1. /\ m_List' = m_List /\ registered' = registered /\ m_metaClasses' = m_metaClasses
      /\ m_functions' = m_functions /\ context' = context /\ object' = object
      /\ attached' = attached /\ d \in DOMAIN data
      /\ data' = [data EXCEPT ![d] = [data[d] EXCEPT !.value = value]]
  BY DEF SetValue
<1>2. TypeInv /\ ListInv /\ ChainInv /\ MapInv
  BY DEF Inv
<1>3. /\ DOMAIN data' = DOMAIN data
      /\ data' \in [DOMAIN data' -> [key : Keys, value : Values, prev : Datas \cup {Null}]]
      /\ \A q \in DOMAIN data : data'[q].prev = data[q].prev
  BY <1>1, <1>2 DEF TypeInv
<1>4. TypeInv'
  BY <1>1, <1>2, <1>3 DEF TypeInv
<1>5. ListInv'
  BY <1>1, <1>2, ListsStay
<1>6. MapInv'
  BY <1>1, <1>2, MapsStay
<1>7. ChainInv'
  <2>1. \A o \in Objects : \A i \in 1..Len(attached[o]) :
           /\ attached[o][i] \in DOMAIN data'
           /\ data'[attached[o][i]].prev = Older(o, i)
    BY <1>2, <1>3 DEF ChainInv
  <2>2. /\ \A o \in Objects \ DOMAIN object : attached[o] = << >>
        /\ \A o \in DOMAIN object : object[o].fields = Older(o, Len(attached[o]) + 1)
        /\ \A o, p \in Objects : \A i \in 1..Len(attached[o]), j \in 1..Len(attached[p]) :
             attached[o][i] = attached[p][j]
             => i = j /\ \A n \in 1..i : attached[o][n] = attached[p][n]
        /\ \A q \in DOMAIN data' : \E o \in Objects : \E i \in 1..Len(attached[o]) : attached[o][i] = q
    BY <1>2, <1>3 DEF ChainInv
  <2> QED
    BY <2>1, <2>2, <1>1 DEF ChainInv, Older
<1> QED
  BY <1>4, <1>5, <1>6, <1>7 DEF Inv

(* And a system the host sets.                                              *)
LEMMA SetMetaSystemKeeps ==
    ASSUME Inv, SetMetaSystem
    PROVE  Inv'
<1>1. /\ m_List' = m_List /\ registered' = registered /\ m_metaClasses' = m_metaClasses
      /\ m_functions' = m_functions /\ context' = "user" /\ object' = object
      /\ attached' = attached /\ data' = data
  BY DEF SetMetaSystem
<1>2. context' # Null
  BY <1>1, Sorts
<1>3. TypeInv /\ ListInv /\ ChainInv /\ MapInv
  BY DEF Inv
<1>4. TypeInv'
  BY <1>1, <1>3 DEF TypeInv
<1>5. ListInv'
  BY <1>1, <1>3, ListsStay
<1>6. MapInv'
  BY <1>1, <1>2, <1>3, MapsStay
<1>7. ChainInv'
  BY <1>1, <1>3 DEF ChainInv, Older
<1> QED
  BY <1>4, <1>5, <1>6, <1>7 DEF Inv

-----------------------------------------------------------------------------
(* Initialize copies every object on the lists, which is every registered   *)
(* one, and only the copies and the actives of the classes are new.         *)
LEMMA InitializeIs ==
    ASSUME Inv, Initialize
    PROVE  /\ DOMAIN object \cap Copies = {}
           /\ \A f \in Functions \cap DOMAIN object : ClassOf[f] \in Classes \cap DOMAIN object
           /\ DOMAIN object' = DOMAIN object \cup {Copy(s) : s \in Listed \cap DOMAIN object}
           /\ \A s \in Listed \cap DOMAIN object : object'[Copy(s)] = Copied(s)
           /\ \A o \in DOMAIN object :
                object'[o] = IF o \in Classes THEN [object[o] EXCEPT !.self = Copy(o)]
                             ELSE object[o]
           /\ object' = [o \in DOMAIN object' |-> object'[o]]
           /\ m_metaClasses' = [c \in Classes \cap DOMAIN object |-> Copy(c)]
           /\ m_functions' = [c \in Copies |-> Entered(Functions \cap DOMAIN object, c)]
           /\ attached' = [o \in Objects |-> IF o \in Copies THEN attached[o[2]] ELSE attached[o]]
           /\ context' = "default"
           /\ m_List' = m_List /\ data' = data /\ registered' = registered
<1>1. TypeInv /\ ListInv
  BY DEF Inv
<1>2. ASSUME NEW kind \in Kinds
      PROVE  ToSet(Walk(kind)) = {o \in Listed \cap DOMAIN object : Kind(o) = kind}
  <2> DEFINE r == registered[kind]
             n == Len(r)
  <2>1. Walk(kind) = Reverse(r)
    BY <1>1, ListsHold DEF ListsAreRegistrations
  <2>2. n \in Nat
    BY <1>1, LenProperties DEF TypeInv
  <2>3. \A i \in 1..n : r[i] \in Listed \cap DOMAIN object /\ Kind(r[i]) = kind
    BY <1>1, Positions
  <2>4. \A o \in Listed \cap DOMAIN object : Kind(o) = kind => \E i \in 1..n : r[i] = o
    BY <1>1 DEF ListInv
  <2> HIDE DEF r, n
  <2>5. Reverse(r) = [i \in 1..n |-> r[(n - i) + 1]]
    BY DEF Reverse, n
  <2>6. ToSet(Reverse(r)) = {r[(n - i) + 1] : i \in 1..n}
    BY <2>5 DEF ToSet
  <2>7. \A i \in 1..n : (n - i) + 1 \in 1..n /\ (n - ((n - i) + 1)) + 1 = i
    BY <2>2
  <2>8. {r[(n - i) + 1] : i \in 1..n} = {r[i] : i \in 1..n}
    <3>1. \A i \in 1..n : r[(n - i) + 1] \in {r[j] : j \in 1..n}
      BY <2>7
    <3>2. \A i \in 1..n : r[i] \in {r[(n - j) + 1] : j \in 1..n}
      BY <2>7
    <3> QED
      BY <3>1, <3>2
  <2>9. {r[i] : i \in 1..n} = {o \in Listed \cap DOMAIN object : Kind(o) = kind}
    BY <2>3, <2>4
  <2> QED
    BY <2>1, <2>6, <2>8, <2>9
<1>3. ToSet(Walk("MetaType")) = Classes \cap DOMAIN object
  <2>1. \A o \in Listed : Kind(o) = "MetaType" <=> o \in Classes
    BY DEF Kind, Listed
  <2> QED
    BY <1>2, <2>1 DEF Kinds, Listed
<1>4. ToSet(Walk("MetaMemberFunction")) = Functions \cap DOMAIN object
  <2>1. \A o \in Listed : Kind(o) = "MetaMemberFunction" <=> o \in Functions
    BY Sorts DEF Kind, Listed
  <2> QED
    BY <1>2, <2>1 DEF Kinds, Listed
<1> DEFINE C == Classes \cap DOMAIN object
           F == Functions \cap DOMAIN object
<1>5. /\ DOMAIN object \cap Copies = {} /\ \A f \in F : ClassOf[f] \in C
      /\ object' = [o \in DOMAIN object \cup {Copy(s) : s \in C \cup F} |->
                      IF o \in Copies THEN Copied(o[2])
                      ELSE IF o \in C THEN [object[o] EXCEPT !.self = Copy(o)]
                      ELSE object[o]]
      /\ m_metaClasses' = [c \in C |-> Copy(c)]
      /\ m_functions' = [c \in Copies |-> Entered(F, c)]
      /\ attached' = [o \in Objects |-> IF o \in Copies THEN attached[o[2]] ELSE attached[o]]
      /\ context' = "default"
      /\ m_List' = m_List /\ data' = data /\ registered' = registered
  <2>1. PICK classes \in {ToSet(Walk("MetaType"))},
             functions \in {ToSet(Walk("MetaMemberFunction"))} :
           /\ DOMAIN object \cap Copies = {} /\ classes # {}
           /\ \A f \in functions : ClassOf[f] \in classes
           /\ object' = [o \in DOMAIN object \cup {Copy(s) : s \in classes \cup functions} |->
                           IF o \in Copies THEN Copied(o[2])
                           ELSE IF o \in classes THEN [object[o] EXCEPT !.self = Copy(o)]
                           ELSE object[o]]
           /\ m_metaClasses' = [c \in classes |-> Copy(c)]
           /\ m_functions' = [c \in Copies |-> Entered(functions, c)]
           /\ attached' = [o \in Objects |-> IF o \in Copies THEN attached[o[2]] ELSE attached[o]]
           /\ context' = "default"
           /\ m_List' = m_List /\ data' = data /\ registered' = registered
    BY DEF Initialize
  <2>2. classes = C /\ functions = F
    BY <1>3, <1>4
  <2> HIDE DEF C, F
  <2> QED
    BY <2>1, <2>2
<1>6. C \cup F = Listed \cap DOMAIN object
  BY DEF Listed
<1>7. \A s \in C \cup F : Copy(s) \in Copies /\ Copy(s)[2] = s
  BY <1>6, Sorts
<1>8. object' = [o \in DOMAIN object' |-> object'[o]]
  BY <1>5
<1>9. DOMAIN object' = DOMAIN object \cup {Copy(s) : s \in C \cup F}
  BY <1>5
<1>10. \A s \in C \cup F : object'[Copy(s)] = Copied(s)
  <2> SUFFICES ASSUME NEW s \in C \cup F PROVE object'[Copy(s)] = Copied(s)
    OBVIOUS
  <2>1. Copy(s) \in DOMAIN object \cup {Copy(t) : t \in C \cup F}
    OBVIOUS
  <2> HIDE DEF C, F
  <2> QED
    BY <2>1, <1>5, <1>7
<1>11. \A o \in DOMAIN object : object'[o] = IF o \in C THEN [object[o] EXCEPT !.self = Copy(o)]
                                             ELSE object[o]
  BY <1>5
<1> QED
  BY <1>5, <1>6, <1>8, <1>9, <1>10, <1>11

(* The links of the originals stay and the copies have theirs.              *)
LEMMA InitializeLinks ==
    ASSUME Inv, Initialize
    PROVE  /\ \A o \in DOMAIN object : /\ o \in DOMAIN object' /\ o \notin Copies
                                       /\ object'[o].prev = object[o].prev
                                       /\ object'[o].fields = object[o].fields
           /\ \A s \in Listed : Copy(s) \in DOMAIN object' <=> s \in DOMAIN object
           /\ \A s \in Listed \cap DOMAIN object : /\ object'[Copy(s)].prev = object[s].prev
                                                   /\ object'[Copy(s)].fields = object[s].fields
                                                   /\ object'[Copy(s)].self = Copy(s)
           /\ \A s \in Classes \cap DOMAIN object : object'[s].self = Copy(s)
<1>1. /\ DOMAIN object \cap Copies = {}
      /\ DOMAIN object' = DOMAIN object \cup {Copy(s) : s \in Listed \cap DOMAIN object}
      /\ \A s \in Listed \cap DOMAIN object : object'[Copy(s)] = Copied(s)
      /\ \A o \in DOMAIN object :
                object'[o] = IF o \in Classes THEN [object[o] EXCEPT !.self = Copy(o)]
                             ELSE object[o]
  BY InitializeIs
<1>2. \A o \in DOMAIN object : object[o] \in [fields : Datas \cup {Null}, self : Objects,
                                              prev : Objects \cup {Null}]
  BY DEF Inv, TypeInv
<1>3. \A s \in Listed : Copy(s) \in Copies /\ Copy(s)[2] = s
  BY Sorts
<1>4. \A s \in Listed : Copy(s) \in DOMAIN object' <=> s \in DOMAIN object
  <2>1. \A s \in Listed : s \in DOMAIN object => Copy(s) \in DOMAIN object'
    BY <1>1
  <2>2. ASSUME NEW s \in Listed, Copy(s) \in DOMAIN object'
        PROVE  s \in DOMAIN object
    <3>1. Copy(s) \in {Copy(t) : t \in Listed \cap DOMAIN object}
      BY <2>2, <1>1, <1>3
    <3>2. PICK t \in Listed \cap DOMAIN object : Copy(s) = Copy(t)
      BY <3>1
    <3> QED
      BY <3>2, <1>3
  <2> QED
    BY <2>1, <2>2
<1>5. \A o \in DOMAIN object : /\ o \in DOMAIN object' /\ o \notin Copies
                               /\ object'[o].prev = object[o].prev
                               /\ object'[o].fields = object[o].fields
  BY <1>1, <1>2
<1>6. \A s \in Listed \cap DOMAIN object : /\ object'[Copy(s)].prev = object[s].prev
                                           /\ object'[Copy(s)].fields = object[s].fields
                                           /\ object'[Copy(s)].self = Copy(s)
  <2> SUFFICES ASSUME NEW s \in Listed \cap DOMAIN object
               PROVE  /\ object'[Copy(s)].prev = object[s].prev
                      /\ object'[Copy(s)].fields = object[s].fields
                      /\ object'[Copy(s)].self = Copy(s)
    OBVIOUS
  <2>1. object'[Copy(s)] = Copied(s)
    BY <1>1
  <2> QED
    BY <2>1 DEF Copied
<1>7. \A s \in Classes \cap DOMAIN object : object'[s].self = Copy(s)
  BY <1>1, <1>2
<1> QED
  BY <1>4, <1>5, <1>6, <1>7

(* Initialize keeps the types.                                              *)
LEMMA InitializeTypes ==
    ASSUME Inv, Initialize
    PROVE  TypeInv'
<1> DEFINE Fields == [fields : Datas \cup {Null}, self : Objects, prev : Objects \cup {Null}]
<1>1. /\ DOMAIN object' = DOMAIN object \cup {Copy(s) : s \in Listed \cap DOMAIN object}
      /\ \A s \in Listed \cap DOMAIN object : object'[Copy(s)] = Copied(s)
      /\ \A o \in DOMAIN object :
                object'[o] = IF o \in Classes THEN [object[o] EXCEPT !.self = Copy(o)]
                             ELSE object[o]
      /\ object' = [o \in DOMAIN object' |-> object'[o]]
  BY InitializeIs
<1>2. /\ attached' = [o \in Objects |-> IF o \in Copies THEN attached[o[2]] ELSE attached[o]]
      /\ m_List' = m_List /\ data' = data /\ registered' = registered
  BY InitializeIs
<1>3. TypeInv
  BY DEF Inv
<1>4. DOMAIN object \subseteq Objects /\ \A o \in DOMAIN object : object[o] \in Fields
  BY <1>3 DEF TypeInv
<1>5. \A s \in Listed : Copy(s) \in Objects
  BY Sorts
<1>6. Classes \subseteq Listed
  BY DEF Listed
<1>7. DOMAIN object' \subseteq Objects
  BY <1>1, <1>4, <1>5
<1>8. \A s \in Listed \cap DOMAIN object : object'[Copy(s)] \in Fields
  <2> SUFFICES ASSUME NEW s \in Listed \cap DOMAIN object PROVE object'[Copy(s)] \in Fields
    OBVIOUS
  <2>1. object'[Copy(s)] = Copied(s) /\ object[s] \in Fields /\ Copy(s) \in Objects
    BY <1>1, <1>4, <1>5
  <2>2. Copied(s) \in Fields
    BY <2>1 DEF Copied
  <2> HIDE DEF Fields
  <2> QED
    BY <2>1, <2>2
<1>9. \A o \in DOMAIN object : object'[o] \in Fields
  <2> SUFFICES ASSUME NEW o \in DOMAIN object PROVE object'[o] \in Fields
    OBVIOUS
  <2>1. object[o] \in Fields /\ (o \in Classes => Copy(o) \in Objects)
    BY <1>4, <1>5, <1>6
  <2>2. o \in Classes => [object[o] EXCEPT !.self = Copy(o)] \in Fields
    BY <2>1
  <2> HIDE DEF Fields
  <2> QED
    BY <2>1, <2>2, <1>1
<1> HIDE DEF Fields
<1>10. object' \in [DOMAIN object' -> Fields]
  <2>1. \A o \in DOMAIN object' : object'[o] \in Fields
    BY <1>1, <1>8, <1>9
  <2> QED
    BY <1>1, <2>1
<1>11. attached' \in [Objects -> Seq(Datas)]
  <2>1. \A o \in Copies : o[2] \in Objects
    BY Sorts
  <2> QED
    BY <1>2, <1>3, <2>1 DEF TypeInv
<1> QED
  BY <1>2, <1>3, <1>7, <1>10, <1>11 DEF TypeInv, Fields

(* It keeps the lists: the copies are on none.                              *)
LEMMA InitializeLists ==
    ASSUME Inv, Initialize
    PROVE  ListInv'
<1>1. /\ \A o \in DOMAIN object : /\ o \in DOMAIN object' /\ o \notin Copies
                                  /\ object'[o].prev = object[o].prev
      /\ \A s \in Listed : Copy(s) \in DOMAIN object' <=> s \in DOMAIN object
      /\ \A s \in Listed \cap DOMAIN object : object'[Copy(s)].prev = object[s].prev
  BY InitializeLinks
<1>2. /\ DOMAIN object' = DOMAIN object \cup {Copy(s) : s \in Listed \cap DOMAIN object}
      /\ m_List' = m_List /\ registered' = registered
  BY InitializeIs
<1>3. ListInv
  BY DEF Inv
<1>4. DOMAIN object' \ Copies \subseteq DOMAIN object
  BY <1>2, Sorts
<1>5. \A kind \in Kinds :
         /\ m_List[kind] = Under(kind, Len(registered[kind]) + 1)
         /\ \A i \in 1..Len(registered[kind]) :
              /\ registered[kind][i] \in DOMAIN object'
              /\ Kind(registered[kind][i]) = kind
              /\ object'[registered[kind][i]].prev = Under(kind, i)
         /\ \A i, j \in 1..Len(registered[kind]) :
              registered[kind][i] = registered[kind][j] => i = j
  BY <1>1, <1>3 DEF ListInv
<1>6. \A s \in DOMAIN object' \cap Listed :
         \E i \in 1..Len(registered[Kind(s)]) : registered[Kind(s)][i] = s
  BY <1>3, <1>4, Sorts DEF ListInv
<1>7. \A s \in DOMAIN object' \cap Detached : object'[s].prev = Null
  BY <1>1, <1>3, <1>4, Sorts DEF ListInv
<1>8. \A s \in Listed : Copy(s) \in DOMAIN object' =>
         s \in DOMAIN object' /\ object'[Copy(s)].prev = object'[s].prev
  BY <1>1
<1> QED
  BY <1>2, <1>5, <1>6, <1>7, <1>8 DEF ListInv, Under

(* It keeps the chains: a copy has the pairs of its original.               *)
LEMMA InitializeChains ==
    ASSUME Inv, Initialize
    PROVE  ChainInv'
<1>1. /\ \A o \in DOMAIN object : /\ o \in DOMAIN object' /\ o \notin Copies
                                  /\ object'[o].fields = object[o].fields
      /\ \A s \in Listed : Copy(s) \in DOMAIN object' <=> s \in DOMAIN object
      /\ \A s \in Listed \cap DOMAIN object : object'[Copy(s)].fields = object[s].fields
  BY InitializeLinks
<1>2. /\ DOMAIN object' = DOMAIN object \cup {Copy(s) : s \in Listed \cap DOMAIN object}
      /\ attached' = [o \in Objects |-> IF o \in Copies THEN attached[o[2]] ELSE attached[o]]
      /\ data' = data
  BY InitializeIs
<1>3. ChainInv /\ TypeInv
  BY DEF Inv
<1>4. \A o \in Objects : Original(o) \in Objects /\ attached'[o] = attached[Original(o)]
  <2>1. \A o \in Copies : o[2] \in Objects
    BY Sorts
  <2> QED
    BY <1>2, <2>1 DEF Original
<1>5. \A o \in Objects : o \in DOMAIN object' <=> Original(o) \in DOMAIN object
  <2> SUFFICES ASSUME NEW o \in Objects
               PROVE  o \in DOMAIN object' <=> Original(o) \in DOMAIN object
    OBVIOUS
  <2>1. CASE o \in Copies
    <3>1. o[2] \in Listed /\ o = Copy(o[2])
      BY <2>1, Sorts
    <3> QED
      BY <3>1, <2>1, <1>1 DEF Original
  <2>2. CASE o \notin Copies
    <3>1. o \in DOMAIN object' => o \in DOMAIN object
      BY <2>2, <1>2, Sorts
    <3> QED
      BY <3>1, <2>2, <1>1 DEF Original
  <2> QED
    BY <2>1, <2>2
<1>6. \A o \in DOMAIN object' : o \in Objects /\ object'[o].fields = object[Original(o)].fields
  <2> SUFFICES ASSUME NEW o \in DOMAIN object'
               PROVE  o \in Objects /\ object'[o].fields = object[Original(o)].fields
    OBVIOUS
  <2>1. CASE o \in DOMAIN object
    BY <2>1, <1>1, <1>3 DEF Original, TypeInv
  <2>2. CASE o \notin DOMAIN object
    <3>1. PICK s \in Listed \cap DOMAIN object : o = Copy(s)
      BY <2>2, <1>2
    <3>2. o \in Copies /\ o[2] = s /\ o \in Objects
      BY <3>1, Sorts
    <3> QED
      BY <3>1, <3>2, <1>1 DEF Original
  <2> QED
    BY <2>1, <2>2
<1>7. \A o \in Objects \ DOMAIN object' : attached'[o] = << >>
  BY <1>3, <1>4, <1>5 DEF ChainInv
<1>8. ASSUME NEW o \in DOMAIN object'
      PROVE  object'[o].fields = IF Len(attached'[o]) + 1 = 1 THEN Null
                                 ELSE attached'[o][(Len(attached'[o]) + 1) - 1]
  <2> DEFINE p == Original(o)
  <2>1. p \in DOMAIN object /\ attached'[o] = attached[p] /\ object'[o].fields = object[p].fields
    BY <1>4, <1>5, <1>6
  <2>2. object[p].fields = IF Len(attached[p]) + 1 = 1 THEN Null
                           ELSE attached[p][(Len(attached[p]) + 1) - 1]
    BY <2>1, <1>3 DEF ChainInv, Older
  <2> QED
    BY <2>1, <2>2
<1>9. ASSUME NEW o \in Objects, NEW i \in 1..Len(attached'[o])
      PROVE  /\ attached'[o][i] \in DOMAIN data'
             /\ data'[attached'[o][i]].prev = IF i = 1 THEN Null ELSE attached'[o][i - 1]
  <2> DEFINE p == Original(o)
  <2>1. p \in Objects /\ attached'[o] = attached[p]
    BY <1>4
  <2> HIDE DEF p
  <2>2. i \in 1..Len(attached[p])
    BY <2>1
  <2>3. /\ attached[p][i] \in DOMAIN data
        /\ data[attached[p][i]].prev = IF i = 1 THEN Null ELSE attached[p][i - 1]
    BY <1>3, <2>1, <2>2 DEF ChainInv, Older
  <2> QED
    BY <1>2, <2>1, <2>3
<1>10. ASSUME NEW o \in Objects, NEW p \in Objects, NEW i \in 1..Len(attached'[o]),
              NEW j \in 1..Len(attached'[p]), attached'[o][i] = attached'[p][j]
       PROVE  i = j /\ \A n \in 1..i : attached'[o][n] = attached'[p][n]
  <2> DEFINE q == Original(o)
             r == Original(p)
  <2>1. q \in Objects /\ attached'[o] = attached[q]
    BY <1>4
  <2>2. r \in Objects /\ attached'[p] = attached[r]
    BY <1>4
  <2> HIDE DEF q, r
  <2>3. i \in 1..Len(attached[q]) /\ j \in 1..Len(attached[r])
        /\ attached[q][i] = attached[r][j]
    BY <1>10, <2>1, <2>2
  <2>4. i = j /\ \A n \in 1..i : attached[q][n] = attached[r][n]
    BY <1>3, <2>1, <2>2, <2>3 DEF ChainInv
  <2> QED
    BY <2>1, <2>2, <2>4
<1>11. ASSUME NEW d \in DOMAIN data'
       PROVE  \E o \in Objects : \E i \in 1..Len(attached'[o]) : attached'[o][i] = d
  <2>1. PICK o \in Objects : \E i \in 1..Len(attached[o]) : attached[o][i] = d
    BY <1>2, <1>3 DEF ChainInv
  <2>2. o \in DOMAIN object
    <3>1. o \notin DOMAIN object => Len(attached[o]) = 0
      BY <1>3 DEF ChainInv
    <3> QED
      BY <3>1, <2>1
  <2>3. attached'[o] = attached[o]
    BY <2>2, <1>1, <1>2
  <2> QED
    BY <2>1, <2>3
<1> QED
  BY <1>7, <1>8, <1>9, <1>10, <1>11 DEF ChainInv, Older

(* It fills the maps with the copies, each function under its own class.    *)
LEMMA InitializeMaps ==
    ASSUME Inv, Initialize
    PROVE  MapInv'
<1>1. /\ \A o \in DOMAIN object : o \in DOMAIN object' /\ o \notin Copies
      /\ \A s \in Listed : Copy(s) \in DOMAIN object' <=> s \in DOMAIN object
      /\ \A s \in Listed \cap DOMAIN object : object'[Copy(s)].self = Copy(s)
      /\ \A s \in Classes \cap DOMAIN object : object'[s].self = Copy(s)
  BY InitializeLinks
<1>2. /\ DOMAIN object' = DOMAIN object \cup {Copy(s) : s \in Listed \cap DOMAIN object}
      /\ \A f \in Functions \cap DOMAIN object : ClassOf[f] \in Classes \cap DOMAIN object
      /\ m_metaClasses' = [c \in Classes \cap DOMAIN object |-> Copy(c)]
      /\ m_functions' = [c \in Copies |-> Entered(Functions \cap DOMAIN object, c)]
      /\ context' = "default"
  BY InitializeIs
<1>3. Classes \subseteq Listed /\ Functions \subseteq Listed
  BY DEF Listed
<1>4. \A s \in Classes : s \in DOMAIN object' <=> s \in DOMAIN object
  BY <1>1, <1>2, <1>3, Sorts
<1>5. context' # Null
  BY <1>2, Sorts
<1>6. \A s \in Classes \cap DOMAIN object' :
         object'[s].self = IF Copy(s) \in DOMAIN object' THEN Copy(s) ELSE s
  BY <1>1, <1>3, <1>4
<1>7. \A s \in Classes : Copy(s) \in DOMAIN object' => object'[Copy(s)].self = Copy(s)
  BY <1>1, <1>3
<1>8. {c \in Classes : Copy(c) \in DOMAIN object'} = Classes \cap DOMAIN object
  BY <1>1, <1>3
<1>9. ASSUME NEW f \in Functions, Copy(f) \in DOMAIN object'
      PROVE  /\ Copy(ClassOf[f]) \in DOMAIN object'
             /\ NameOf[f] \in DOMAIN m_functions'[Copy(ClassOf[f])]
             /\ m_functions'[Copy(ClassOf[f])][NameOf[f]] = Copy(f)
  <2> DEFINE F == Functions \cap DOMAIN object
             c == Copy(ClassOf[f])
  <2>1. f \in F /\ ClassOf[f] \in Classes /\ ClassOf[f] \in DOMAIN object /\ c \in Copies
    BY <1>9, <1>1, <1>2, <1>3, Sorts
  <2>2. m_functions'[c] = Entered(F, c)
    BY <1>2, <2>1
  <2>3. ASSUME NEW g \in F, Copy(ClassOf[g]) = c, NameOf[g] = NameOf[f]
        PROVE  g = f
    <3>1. ClassOf[g] \in Listed /\ ClassOf[f] \in Listed
      BY <2>1, <1>2, <1>3
    <3>2. ClassOf[g] = ClassOf[f]
      BY <3>1, <2>3, Sorts
    <3> QED
      BY <3>2, <2>3, ListsAssumption
  <2>4. (CHOOSE g \in F : Copy(ClassOf[g]) = c /\ NameOf[g] = NameOf[f]) = f
    <3> HIDE DEF F, c
    <3>1. f \in F /\ Copy(ClassOf[f]) = c
      BY <2>1 DEF c
    <3> QED
      BY <3>1, <2>3
  <2>5. NameOf[f] \in {NameOf[g] : g \in {g \in F : Copy(ClassOf[g]) = c}}
    BY <2>1
  <2> HIDE DEF F, c
  <2>6. NameOf[f] \in DOMAIN Entered(F, c) /\ Entered(F, c)[NameOf[f]] = Copy(f)
    BY <2>4, <2>5 DEF Entered
  <2>7. c \in DOMAIN object'
    BY <2>1, <1>1, <1>3 DEF c
  <2> QED
    BY <2>2, <2>6, <2>7 DEF c
<1> QED
  BY <1>2, <1>5, <1>6, <1>7, <1>8, <1>9 DEF MapInv

-----------------------------------------------------------------------------
(* The invariant holds from the first registration on.                      *)
LEMMA InvHolds == Spec => []Inv
<1>1. Init => Inv
  BY InitInv
<1>2. Inv /\ [Next]_vars => Inv'
  <2> SUFFICES ASSUME Inv, [Next]_vars PROVE Inv'
    OBVIOUS
  <2>1. ASSUME NEW s \in Statics, Register(s) PROVE Inv'
    BY <2>1, RegisterTypes, RegisterLists, RegisterChains, RegisterMaps DEF Inv
  <2>2. ASSUME NEW d \in Datas, NEW o \in Objects, NEW key \in Keys, NEW value \in Values,
               Attach(d, o, key, value)
        PROVE  Inv'
    BY <2>2, AttachKeeps
  <2>3. ASSUME NEW d \in Datas, NEW value \in Values, SetValue(d, value) PROVE Inv'
    BY <2>3, SetValueKeeps
  <2>4. CASE Initialize
    BY <2>4, InitializeTypes, InitializeLists, InitializeChains, InitializeMaps DEF Inv
  <2>5. CASE SetMetaSystem
    BY <2>5, SetMetaSystemKeeps
  <2>6. CASE UNCHANGED vars
    BY <2>6 DEF Inv, TypeInv, ListInv, ChainInv, MapInv, Under, Older, vars
  <2> QED
    BY <2>1, <2>2, <2>3, <2>4, <2>5, <2>6 DEF Next
<1> QED
  BY <1>1, <1>2, PTL DEF Spec

(* AnswersAreLatest, whatever pairs are attached to whatever objects and    *)
(* however the chains of originals and copies come to share them: the value *)
(* a lookup answers is that of the object's own latest pair for the key.    *)
THEOREM AnswersAreCorrect == Spec => []AnswersAreLatest
<1>1. Inv => AnswersAreLatest
  BY AnswersHold DEF Inv
<1> QED
  BY <1>1, InvHolds, PTL

(* LookupsAgree, for any classes, functions and objects off the lists, in   *)
(* any order of registration before and after Initialize: the walks find    *)
(* what was registered, and the maps hold what the walks found.             *)
THEOREM LookupsAreCorrect == Spec => []LookupsAgree
<1>1. Inv => LookupsAgree
  <2> SUFFICES ASSUME Inv PROVE LookupsAgree
    OBVIOUS
  <2>1. ListsAreRegistrations
    BY ListsHold DEF Inv
  <2>2. MapInv
    BY DEF Inv
  <2>3. ClassesAreFound
    <3> SUFFICES ASSUME NEW c \in Classes \cap DOMAIN object
                 PROVE  LET found == GetMetaClassByName(c)
                        IN /\ GetActive(GetActive(c)) = GetActive(c)
                           /\ context = "default" =>
                                found = IF GetActive(c) = c THEN Null ELSE GetActive(c)
                           /\ context = Null => found = Null /\ GetActive(c) = c
      BY DEF ClassesAreFound
    <3>1. object[c].self = IF Copy(c) \in DOMAIN object THEN Copy(c) ELSE c
      BY <2>2 DEF MapInv
    <3>2. Copy(c) \in DOMAIN object => object[Copy(c)].self = Copy(c)
      BY <2>2 DEF MapInv
    <3>3. Copy(c) # c /\ Copy(c) \in Copies
      BY Sorts DEF Listed
    <3>4. c \in DOMAIN m_metaClasses <=> Copy(c) \in DOMAIN object
      BY <2>2 DEF MapInv
    <3>5. Copy(c) \in DOMAIN object => m_metaClasses[c] = Copy(c)
      BY <2>2 DEF MapInv
    <3>6. context = Null => Copy(c) \notin DOMAIN object
      BY <2>2, <3>3 DEF MapInv
    <3>7. Null # "default"
      BY Sorts
    <3> QED
      BY <3>1, <3>2, <3>3, <3>4, <3>5, <3>6, <3>7 DEF GetActive, GetMetaClassByName
  <2>4. FunctionsAreFound
    <3> SUFFICES ASSUME NEW f \in Functions, Copy(f) \in DOMAIN object
                 PROVE  FindFunction(GetActive(ClassOf[f]), NameOf[f]) = Copy(f)
      BY DEF FunctionsAreFound
    <3>1. /\ Copy(ClassOf[f]) \in DOMAIN object
          /\ NameOf[f] \in DOMAIN m_functions[Copy(ClassOf[f])]
          /\ m_functions[Copy(ClassOf[f])][NameOf[f]] = Copy(f)
      BY <2>2 DEF MapInv
    <3>2. ClassOf[f] \in Classes /\ ClassOf[f] \in Listed
      BY ListsAssumption DEF Listed
    <3>3. ClassOf[f] \in DOMAIN object
      BY <3>1, <3>2 DEF Inv, ListInv
    <3>4. object[ClassOf[f]].self = Copy(ClassOf[f])
      BY <2>2, <3>1, <3>2, <3>3 DEF MapInv
    <3> QED
      BY <3>1, <3>4 DEF FindFunction, GetActive
  <2> QED
    BY <2>1, <2>3, <2>4 DEF LookupsAgree
<1> QED
  BY <1>1, InvHolds, PTL
=============================================================================
