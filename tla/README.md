# TLA+ models of That Sky Engine

That Sky Engine (`src/`) is a C++ reflection layer and a heap. A program
registers its classes while its static objects are constructed; one call to
`Initialize` numbers them and builds tables; from then on casts, Lua values and
type-erased calls are answered from those tables. The heap serves memory from a
dlmalloc area, an allocator the repository brings along, and falls back to the
runtime's allocator.

These modules model that code, `*.cfg` files check them on small instances with
TLC, and the `*Proofs` modules prove theorems about them for every instance with
TLAPS. `PROJECT.json` lists components, runs, mutants, the lines each definition
stands for, hazards, findings and theorems.

## 1. The parts of the system

Paths are below `src/src/Code/`, those of dlmalloc below `src/libraries/`.

| component | code | state | operations |
|---|---|---|---|
| MetaSystem | `Base/Meta.cpp` 340-508, `Base/Meta.hpp` 1033-1146 | the static registry; `m_classes`, the copies, ids, topology ids and base lists of the classes; `g_metaSystem` | `META_REGISTER_*`, `Initialize`, `m_RecursiveInit`, `GetMetaClassById`, `GetActive`, construction of `Object`s |
| Casts | `Meta.cpp` 168-228, `Meta.hpp` 1188-1216 | none of its own: the tables, the id an object carries, the layout of C++ classes | `DynamicCast`, `Upcast`, `Downcast` |
| Lua values | `Meta.cpp` 242-329, `Base/LuaInterface.cpp` 173-216 | global tables of bound classes, userdata on the Lua stack | `MetaLuaBindClass`, `WriteType`, `ReadType` |
| Lua interface | `Base/LuaInterface.cpp` 6-171 | objects created from Lua, on a `Heap` or with `new` | `new`, `delete`, `cast`, `__eq`, `__index` |
| Apply and value types | `Meta.hpp` 806-1020, 1334-1420 | `Variable` slots, one static text buffer per number type | `ConvertArg`, `Apply`, `ToNumber`, `ToString` |
| Member variables, functions | `Meta.hpp` 500-640, 1312-1328 | signatures, offsets | `FunctionSignature::Initialize`, `ResolveMember`, `Count` |
| MetaObject, MetaData | `Meta.hpp` 370-500, `Meta.cpp` 415-500 | intrusive lists built by static constructors, chains of pairs, the maps lookups use | construct, copy, `SetValue`, `GetMetaData`, `GetMetaClassByName`, the look-up of functions |
| Heap | `Memory/Heap.cpp`, `Memory/Heap.hpp` | area, mspace, two counters, high-water mark, flags, optional lock | `Initialize`, `Terminate`, `Clear`, `Allocate`, `Free`, `GetUsedBytes` |
| dlmalloc | `dlmalloc-2.8.6/malloc.c` | per mspace: chunks with boundary tags, small bins, trees, designated victim, top, segments, footprint | `mspace_malloc`, `free`, `calloc`, `realloc`, `realloc_in_place`, `memalign`, `independent_calloc`, `independent_comalloc`, `bulk_free`, `trim`, create, destroy, set a limit |
| StlAllocator, Lock | `Utils/StlAllocator.cpp`, `Utils/TSPOS.hpp` | the runtime's blocks; a mutex | `Allocate`, `Free`, `GetSize`; `Lock`, `Unlock` |

How they interact: static constructors fill the lists MetaSystem's `Initialize`
walks; casts read the tables `Initialize` built and the id an object's
constructor took from them; `WriteType` and `ReadType` call casts; the Lua
interface calls `ReadType`, `WriteType` and `Heap`. `Heap` calls `StlAllocator`
and dlmalloc, and uses a `Lock` when a host gives it one.

What is hard:

* *Order.* Classes are numbered in the order of an `unordered_map`, the
  recursion pulls parents forward, and a base class gets its topology id only
  when a first class derives from it, after its own list may have been copied.
* *Staleness.* Objects, signatures, Lua tables and base lists keep what they
  read once: a static or a copy, an id or -1.
* *Representation.* A pointer changes value with its static type; the id an
  object carries may be that of a base; the tag of a Lua value and the pointer
  in it are chosen by different classes.
* *Concurrency.* The heap's lock covers one of its two counters.
* *Limits.* 0xA00 class slots; a heap area; counters that wrap; a footprint limit
  that is rounded up.
* *Shared words.* The word before a chunk's head is its neighbour's size while
  that is free, and the end of the neighbour's memory while it is in use; the
  heap keeps a tag pointer in exactly that word.
* *Partial failure.* realloc, the array calls and giving memory back take
  several steps, each of which may get no memory or be refused.

What makes each part correct: MetaSystem answers "is d a base of c" as the
parent links do, and finds every class at its id; a cast finds the part of the
object the target names, or nothing; what is written to Lua reads back as what
it is, or is refused; a chain of pairs answers with its object's latest pair and
the lookups with what was registered in time; the heap's counters say what its
blocks hold, and each block goes back to the allocator it came from; dlmalloc's
books agree with its chunks, its blocks never overlap nor move, no chunk is
leaked, a search finds a best fit, and it fails only when nothing fits.

## 2. Modules

| module | models | checked by | proved in |
|---|---|---|---|
| `Inheritance` | the parent links and what "base class" means, as a closure | - | `ClassHierarchyProofs`, `MetaSystemProofs` |
| `ClassHierarchy` | what a metaclass registration promises, abstractly | `MCMetaSystem`, as what `MetaSystem` implements | `ClassHierarchyProofs` |
| `MetaSystem` | `Initialize` step by step, objects, signatures; refines `ClassHierarchy` | `MCMetaSystem` | `MetaSystemProofs` |
| `MetaCast` | casts, members, bound classes, Lua values; extends `MetaSystem` | `MCMetaCast` | `MetaSystemProofs` |
| `LuaBridge` | `new`, `delete`, `cast` and `__eq` of bound classes, object lifetimes; extends `MetaCast` | `MCLuaBridge` | `MetaSystemProofs` |
| `MetaValue` | numbers, bool and the two string types: conversions, text buffers, Lua | `MCMetaApply` | `MetaApplyProofs` |
| `MetaApply` | type-erased calls of member functions; extends `MetaValue` | `MCMetaApply` | `MetaApplyProofs` |
| `MetaLists` | the intrusive lists, chains of pairs, their copies and the lookups | `MCMetaLists` | `MetaListsProofs` |
| `Heap` | the heap, its lock and the runtime allocator behind it | `MCHeap` | `HeapProofs` |
| `Blocks` | what `Heap` expects of its mspace, abstractly | `MCHeapMspace`, as what `HeapMspace` implements | `MspaceProofs` (that it does) |
| `HeapMspace` | a heap on its dlmalloc mspace, tags included; refines `Blocks` | `MCHeapMspace` | `MspaceProofs` (every property of its run) |
| `Chunks` | dlmalloc's sizes, bins and bits as arithmetic | through all below | `MspaceProofs` |
| `TreeBins` | the digital trees of large free chunks | through those below | `TreeProofs` (with the small bins) |
| `TreeStore` | the trees on their own: chunks come and go in any order | `MCTreeStore` | `TreeStoreProofs` |
| `MspaceState` | an mspace's fields, heads, feet, bins; making one | through all below | `MspaceProofs` |
| `MspaceSystem` | top, segments, mappings, trimming, the limit | `MCMspaceStore` | `MspaceProofs` (the limit) |
| `Mspace` | malloc, free, memalign | `MCHeapMspace`, `MCMspaceStore` | `MspaceProofs` (in an area that does not grow) |
| `MspaceResize` | calloc, realloc, the array calls, bulk free | `MCMspaceStore` | - |
| `MspaceChecks` | what malloc.c's debugging support asserts | both | `MspaceProofs` (for `HeapMspace`) |
| `MspaceStore` | an mspace without a limit under all its calls | `MCMspaceStore` | - |

### MetaSystem

Variables are the fields of the code: `globalId`, `topoOrder`, `baseTopoIds`
(`m_globalId`, `m_topoOrder`, `m_baseTopoIdList` of each class's copy, the list
as a set), `classTable` (`m_classes`), `metaSystem` (`g_metaSystem`),
`classIdOf` (`m_metaClassId` of each object), `signature` and `bound` (member
functions). `phase` is the loop `Initialize` is in, `pending` what the loop has
still to visit, `stack` the frames of `m_RecursiveInit`. Maps keyed by name are
keyed by the metatype: names are assumed to differ.

`CopyType` .. `Finish` are the steps of `Initialize` in the order of the code;
each of them is atomic because `Initialize` runs on one thread while nothing
else uses the system. Steps are kept apart where the order within the call is
what the properties are about: the loop's visits, the climb of the recursion,
the numbering. `Number` is the whole tail of a frame of `m_RecursiveInit`: the
id, the parent's topology id if it has none, and the copy of the parent's list.
`parent` ranges over all forests: the links cannot form a cycle because C++
inheritance cannot. A parent that was never registered does not link.

`Construct` may run before `Initialize` and after it; an object built earlier
carries -1. A second `Initialize` halts at the assertion.

### MetaCast

A pointer is an object and a place in it relative to its `Object` part;
`offset[c]` is how far `Object` lies behind the start of a class `c`, which
`CastHelper` compiles into `Upcast` and `Downcast`. A class in `Foreign` is not
derived from `Object`. `builtAs[o]` is the class an object really has;
`ClassOf[o]` the one whose id its constructor passed to `Object`, which the code
allows to be a base's. `DynamicCast`, `WriteType` and `ReadType` are operators
over these, branch for branch; `BindClass`, `Write`, `WriteNull`, `PopValues`
are the actions of a program that binds classes and passes objects to Lua.
Reading an object's class when the object carries -1 indexes the table at -1;
that is undefined, and casts of such objects are outside the claims.

A member variable is an address in its class. `ResolveMember` is a cast and an
addition; `CountPlace` is where `Count` looks for an array's length, which takes
its pointer as one to the member's own class.

### LuaBridge

`alive` and `home` say which objects scripts made and where they are; `misfreed`
records the deletes that freed something else than the object's block, and no
action reads it. Scripts keep to the rules of manual memory, since nothing in the
code could notice otherwise: an object is deleted once, with the heap it was made
on, and read only before. Its classes have virtual destructors. Allocation
succeeds. An object is an identity: its memory is not used again. Classes are
bound once `Initialize` is over and numbered in one order; binding earlier and
every other order are in `MetaCast`, and by `CastsAreCorrect` casts do not depend
on the order. `IsDerivedFrom` is the stub of the code, so a cast ends in nil.

### MetaValue and MetaApply

A `Variable` is a slot that holds a number, a boolean, a `cstring` or a
`std::string`. Every conversion goes through a double or through text. A
`cstring` is a place: a literal, the characters of a string, Lua's own string or
the static buffer of a number type; `Gone` is a place that was freed, and
nothing looks at one. A number a script makes is a double. Numbers are counted
in fractions of `1/One`; which of them a double holds and which `%g` prints are
constants, so that both kinds of loss occur in a small instance. A cast of a
double to an integer type that cannot hold it is undefined and may give any
value of the type. `%g` and Lua's numerals are modelled as the number they say.
Infinities and NaN are left out.

`Apply` begins a call, `ConvertArg(i)` converts one argument, in any order, since
C++ leaves it open, `Invoke` and `Return` are the call and the conversion of its
result. A void function clears its result slot before the conversions. A caller
may pass one slot twice, also as argument and result. Scripts do not run within a
call. Parameters and results that are pointers to objects are left to `MetaCast`.

### Heap

Addresses are small numbers and a block is an address and a size. A thread's
call is a sequence of steps: `Memalign` and `Charge` are one critical section,
`StlAllocate` and `StlCharge` are not, and neither are `Free`'s reading and
writing of the runtime's counter. A read and a write of a counter by `+=` or
`-=` are two steps. dlmalloc is taken here for what its callers rely on: a chunk
inside the area that overlaps no other, possibly larger than asked for, or none
even when one would fit. That it is so is what `HeapMspace` shows (below). The
fallback allocates without comparing with the heap's capacity (`Heap.cpp` 157),
and so does the model. `halted` is a failed `SkyAssert` or a crash. `Initialize`,
`Terminate` and `Clear` are the owner's calls, made while no thread uses the
heap; `Clear` of a terminated heap is undefined and left out.

`Terminate` sets `m_base` to null and keeps `m_maxSize` (`Heap.cpp` 69-75), and
blocks of the runtime live on. `Free`'s test (128-131) then takes the first
`m_maxSize` addresses for the heap's, and hands a runtime block there to
`mspace_free` with a null mspace: `FreeWithoutMspace`, where the program crashes,
although the comment at line 132 sends every block outside the area to
`StlAllocator`. Whether the runtime puts blocks so low depends on the platform,
so nothing is assumed of it: `Misjudged` names these blocks, and `BlocksGoHome`
says that the test errs on them and on no other. The two history
variables `abandoned` and `forgotten` let the invariants say exactly by how much
the counters are off, modulo the word, as the counters are; no action reads them.

### MetaLists

`object` holds what a `MetaObject` links: the head of its chain of pairs, the
object registered before it, and its active self; `data` the pairs. A copy takes
its original's two pointers, so it shares pairs and list with it; `Initialize`
copies what is on the lists and enters the copies in the maps. `registered` and
`attached` are histories that no action reads. Names of classes are the
classes; two classes may have a function of one name. `context` is the pointer
that `SetMetaSystem` sets: a host may answer for itself. Unregistering is not
modelled: static objects die when the process ends.

### dlmalloc

`malloc.c` is modelled as the engine builds it: 64-bit Windows, `USE_LOCKS` 0,
`FOOTERS` 0, `INSECURE` 0, memory mapped and unmapped by the system (`HAVE_MMAP`),
no `MORECORE`, no `mremap`. An mspace is a record, its functions are operators
from a record (and the system's answer) to a record; a call is atomic, as it is
under the lock of `Heap` or for an owner. A chunk is an address; `head` and
`foot` are the two words before its memory, `foot` also being the last word of
the chunk before. A small bin, a ring in the code, is a sequence; a tree node
keeps its links. The system's answer to a mapping, and whether it unmaps what it
is asked to (Windows refuses a part of a mapping), are inputs. A word that was
inside a chunk is no tag any more: looking at one is an error of the run, not a
guess. Sizes stay below 2^30. A check that the code makes against a corrupted
heap (`ok_address` and its like, `ABORT`) is not a branch; that none of them
would fire is part of `MspaceIsSound`.

`HeapMspace` puts the heap's calls on top, the tag it writes at
`mem + usable_size - 8` included, with the limit `Heap::Initialize` sets.
`Blocks` says what `Heap` takes for granted, and `GivesBlocks` that the mspace
implements it: every block holds what was asked for and the tag (`Overhead` 8),
wastes at most 47 bytes (`Slack`: padding to 16, and a rest too small to be a
chunk), starts on its boundary, lies in the area, overlaps none and never moves.
The limit is what keeps blocks in the area; it is rounded up to what is mapped
at a time, and `NothingIsMapped` proves that this never lets the mspace map.

`MspaceStore` has no limit, which the engine never asks for; it is there because
the growing half of dlmalloc is half of its books. The program overwrites all of
its blocks (`Filled`), so no foot survives in one. `TrimReleasesIdle` excludes a
segment whose record had to be placed at its old top, before the room kept at
its end: such a segment is never given back, although `malloc.c` 4253 speaks of
all unused ones. `TreeStore` takes the trees alone through far more shapes than
an mspace of a few blocks reaches.

## 3. Runs

| run | what it shows | bounds |
|---|---|---|
| `initialize` | ids, lists and table agree with the parent links in every visiting order, and `Initialize` refines `ClassHierarchy` and ends; objects and signatures never name the wrong copy; tables freeze | void, system and 3 classes: chains of three, siblings, forks; a number type, the system and one object, one function |
| `too_many` | the capacity assertion fires exactly when it must | 5 classes, 4 slots |
| `lists` | chains answer with their object's latest pair, lookups find what was registered in time | 2 classes, 2 functions of one name, an object off the lists, 2 pairs, 2 keys, 2 values |
| `casts` | every cast, member access and read finds the object or says it is none | void, system, 2 classes and a number type; the system and one object, which may carry the id of a base; 2 layouts of each; one bound class and one Lua value at a time |
| `other_class_read` | violated: what a comment says of `ReadType` | as `casts` |
| `lua_objects` | a delete frees the block `new` allocated, and `__eq` compares objects | Object, 2 classes below it, Heap, void, system; 2 objects, 3 bound classes, 2 Lua values |
| `apply` | numbers, Lua values, arguments, results and kept texts are what they should be in every order of conversion | 2 slots, an integer and a floating type, 3 functions of up to 2 parameters |
| `heap_owner` | both counters, the address test and the mark across clear, terminate and re-initialize | 1 thread, area of 7 units at two addresses, chunks of 3-4, runtime blocks right behind and right before an area and below its size |
| `heap_threads` | two threads lose no update under the lock, no block and never the lock | 2 threads, one area, one runtime address |
| `heap_area` | tags and boundary tags share words without harm, the two measures of use agree, the mspace fails only when nothing fits and implements `Blocks` | room for 480 bytes, 4 blocks of 24, 104, 248 bytes or of 104 on a boundary of 64 |
| `mspace_grows` | the books stay sound, no chunk leaks, the footprint is what is mapped and trimming gives idle segments back | 2 blocks of 200 or 600 bytes, 512 mapped at a time, 2 places to map |
| `trees` | the trees stay trees, lose nothing and both searches find a best fit | up to 5 chunks of 8 sizes in three bins |

Why the bounds are enough. A class's list depends on its chain of ancestors and
on when each of them was numbered and first derived from; three application
classes give chains long enough for a list to be copied from a copied list,
before and after an ancestor got its topology id, and forks for two classes to
share one. The theorems below hold for any number of classes, so these bounds
carry weight only for what is model-checked alone. For the heap two chunks, one
fallback block and two threads are what one lost update, one misdirected free or
one leaked lock needs; the word size is small so that counters do wrap. In
`apply` the types of one slot each are all there are to a conversion, a call has
at most two arguments because two are enough to print one over the other, and the
numbers are the least that hold each loss: an integer without a double (4 halves),
a double without a numeral (3), a fraction below zero (-1). In `lua_objects` an
object may be of a class up to two below the one whose id it carries, so that
every two of its classes may differ in layout. In `lists` two pairs are enough
for a chain to be shared and to part. In `heap_area` the requests are one per
path of `malloc` and `memalign` (the least chunk, a small one, one that is in a
tree when free, one cut out of a larger chunk at both ends), and four of them
fill the area, so that free chunks lie at its start, its end and between blocks
and are merged with one, both or no neighbours. In `mspace_grows` one place to
map lies right before the mspace and one right behind what it maps itself, so a
mapping extends a segment at either end or starts another, and a block may be
mapped for itself; little is mapped at a time and the thresholds are small so
that this happens with two blocks (on Windows they are 64 KiB, 256 KiB and
2 MiB). In `trees` the first bin's sizes branch at each of the three levels five
chunks can make, so that a removal replaces a node by a leaf on either side, and
the last bin, whose branching bit comes from elsewhere, has two.

Every property of a passing run has a mutant: the definition it depends on,
with the slip a plausible edit of the code would make (definitions marked
`\* Slip:`), violates it under the run's own configuration.

`CHECK_DEADLOCK FALSE` is set where the system really stops: a halted program,
a system that has built all its objects, and in `LuaBridge` a numbering that leaves
the one order looked at.

What the passing properties leave out, because the code does not promise it:
the counters and the mark are exact for one thread (`CountersAgree`,
`PeakNeverFalls`; with two, the runtime's counter and the mark, which are updated
outside the lock, lose updates); a Lua value reads back as its object when it was
written as a class with the object's own layout (`ReadsGiveTheObject`; the
pointer is adjusted for one class and tagged with another, `Meta.cpp` 255); an
argument arrives unless another one of the same number type is printed into the
one buffer both texts lie in (`ArgumentsArrive`, `Meta.hpp` 872) or it is the
result slot of a void function, which is cleared first.

### Fairness

`MetaSystem!FairSpec` assumes weak fairness of `InitializeStep`: `Initialize` is
a plain call, and its thread keeps running it. Nothing is assumed of
constructors. `Heap!FairSpec` assumes weak fairness of each thread's steps
within a call, and nothing of the calls: a thread inside `Allocate` or `Free`
keeps running unless it waits for the lock. No strong fairness is assumed, so
nothing is claimed of who gets the lock next.

## 4. Findings

* `ReadType` searches the expected class's own list for the expected class's own
  id (`Meta.cpp` 304), which is always there once the class is a base: values of
  unrelated classes are accepted and read as null instead of being refused, as
  the comment at 305 says (`other_class_read`).

## 5. Proofs

Assumptions are those of the `ASSUME`s, each in the module that declares the
constants, and TLC evaluates them on every run.

* `NoClassAssumption`, `RegistrationAssumption`, `CastAssumption`: finitely many
  types, a void and a system class, at least one slot, each object of a registered
  class, and void and whatever else is foreign not derived from `Object`. Nothing
  is assumed of the hierarchy but that it is a forest (part of `Init`).
* `HeapAssumption`: areas start behind address 0, sizes are not 0, the runtime puts
  no block at address 0 or into an area, and the word counts more than an area.
* `ValueAssumption`: numbers of Lua are doubles, what an integer type holds is
  whole, what a floating type holds is a double.
* `ListsAssumption`, `ObjectsAssumption`: classes, functions and objects off the
  lists are different objects; a class has one function of a name.
* `MspaceAssumption`, `HeapMspaceAssumption`: a granularity, an area that is
  aligned and large enough for the mspace's state, alignments up to 2^29.
* `StoreAssumption`: a chunk's address is neither null nor that of a bin, and
  sizes are multiples of 16 from 256 up to below 2^30, where all sizes of the
  models stay: the bits a tree is branched by are those of 30-bit sizes.

What a theorem needs beyond these stands in its own `ASSUME`: a lock or one
thread (`MspaceAccountedCorrect`), one thread (`CountersCorrect`, `PeakCorrect`),
an area that is not all of the address space (`AreaIsFixed`,
`SystemIsNeverAsked`; the limit would mean "none"). `AreaIsBounded` adds to the
latter that the area and the chunks of all requests stay below 2^30, where the
models' sizes stay; `BlocksAreGiven` needs alignments that are powers of two
(`AlignsArePowers`), which the masks of `align_offset` take for granted, and
`NothingIsHidden` an area of no more than `MAX_REQUEST`, which the code's is
(2^64 - 128): a larger request is refused unseen. The configuration of
`MCHeapMspace` satisfies all of them.

*Inheritance.* "Ancestor" is a least closed set, so the facts about it
(reflexive, closed, an ancestor of c is c or an ancestor of its parent) are
proved from the definition without induction over the hierarchy.

*Numbering.* `BaseListsAreAncestors` is not inductive: a step that gives a
parent its first topology id changes the answer for classes that copied its list
earlier. `NumberingInv` says why that cannot go wrong, in four parts: ids are
given once; lists hold given ids and a base's own; the parent of a numbered
class is numbered and is a known base; and among the classes that *have* a
topology id a list names exactly the ancestors. The fourth holds across the late
topology id because a class below a parent without one would have given it
(third part). From it follow `BaseListsAreAncestors`, `ParentsFirst`,
`IdsAreWrittenOnce` and the refinement.

*Table.* `InitializeInv` follows the call through its loops: what has been
copied, that the frames on the stack are one climb from the visited class, and
that every class whose turn is over is stored at its id. With ids given once,
the table is the inverse of `GetId` (`TableInvertsIds`), objects resolve
(`ObjectsNeverMisresolve`), and tables freeze (`ReadyIsForever`).

*Refinement.* `ClassHierarchy`'s `derives` is read off ids and lists,
`number` is `globalId`, `open` is the end of the call. `Number` is `Register`,
the end of the numbering or of the call is `Open`, all else stutters.

*Casts.* Casting writes no table, so `CastSpec` implies `Spec` and all theorems
above apply. A pointer of any class derived from `Object` leads to the `Object`
part, from there the table gives the object's class, its list answers what it
is, and the target's distance gives the place: `CastsAreCorrect`. Lua values
need an invariant of their own (`LuaInv`: a bound table names its own class; a
value was written from a constructed object with an id), from which
`ReadsAreCorrect` follows for values whose class has the object's layout.
`MembersAreCorrect` adds a member's address to what a cast finds.

*Scripts.* `LuaBridge` adds objects that scripts make, and deletes. Each of its
steps is a step of a casting program or makes an object (`BridgeStepIs`), so
tables, layouts and Lua values stay in order, and `ScriptInv` adds that an object
of a script is constructed, and of a class derived from `Object`. What `delete`
frees is what a read gives: the object's own address when the value's class has
its layout (`DeletesAreCorrect`). `__eq` compares the `Object` parts, which do not
depend on the class the value was written as (`EqualityIsCorrect`).

*Values and calls.* `ValueInv` gives every `Variable` its form (a number of its
type, a boolean, or a text in a place that is not freed, Lua's own only while Lua
has it), `CallInv` the parameters' forms. From these alone a cast keeps every
number that all types on its way hold (`NumbersAreCorrect`: the double nearest to
a double is itself, and the numeral of a number that has one says that number)
and a value comes back from Lua (`LuaReadsAreCorrect`). `ArgumentsArrive` is not
inductive: a converted text lies where its argument's text lies, and the
conversion of another argument may print there. `ArrivalInv` says where each
converted text lies and that what was given is what the argument still says;
with it, an argument that no other one is printed over arrives, for any number
of them, in any order and with any slot passed twice (`ArgumentsAreCorrect`,
`ResultsAreCorrect`). `TextsAreStable` is the action property: no step but a
print into its buffer changes a text.

*Lists* (`MetaListsProofs`). `ListInv`: a list is its objects in the order of
their registration, each linked to the one before; `ChainInv`: the same of an
object's pairs, and two chains that share a pair share all older ones, which is
what lets a copy go on with its original's chain; `MapInv`: what has a copy is in
the maps, under its name. The walks of the code are recursive functions over the
links. That such a function exists is shown by giving its solution over the
positions of a list, and that it is the only one by a least position at which
another would differ. From it follow what a walk lists and a search finds:
`AnswersAreCorrect`, `LookupsAreCorrect`.

*Signatures and capacity.* A function is bound after the loop that copies the
types, and copies stay: `SignaturesCorrect`. For `CapacityCorrect` the counter
has to be the *number* of numbered classes (`CapacityInv`): each step that
numbers a class adds one class to a finite set and one to the counter, and the
assertion fires only when the counter has reached the slots with a class still
without a number.

*Custody* (`HeapProofs`, any number of threads, lock or not). `NoBlockIsLost` is
not inductive: that a call's block exists when it is freed has to be known, and
which allocator has it. `CustodyInv` adds what a call keeps (`OpInv`), that the
chunks lie in the area and the runtime's blocks do not (`AreaInv`), and that a
call holds a block of the allocator it is about to ask (`HomeInv`). A step does
one of five things to custody: nothing, take a block from an allocator, hand it
to the program, take it back from the program, or give it to its allocator; one
lemma each, and every action is one of them but the crash, which changes none of
it. What `Free`'s address test says is `AddressesTell`: with an area it is right,
since chunks lie in it and the runtime's blocks do not; without one there are no
chunks, base 0 and the old size describe the first `m_maxSize` addresses, and the
runtime blocks there are the `Misjudged`. While other threads allocate and free,
a block stays misjudged or not. `BlocksGoHome` and `NoBlockIsLost` follow.

*The lock.* `LockInv`: with a lock, a thread is between its ends exactly when it
is the owner, and what it read of the mspace's counter is the counter
(`NoUpdateIsLost`).

*The counters.* `MspaceInv`: where critical sections are serial (a lock, or one
thread), the counter is what `MspaceIsAccounted` says, and inside a section it is
off by the block in hand. `StlInv` says the same of the runtime's counter, which
no lock covers, so it is for one thread. `TypeInv` goes along: a counter fits its
word and every block has a size. The sum over a set of blocks is a recursive
function of the set; that it exists and that a block adds its size wherever it is
taken from the set is proved for finite sets by their cardinality (`SumsExist`,
`BytesAdded`), and wrapping before or after an addition gives one remainder
(`ModAdd`, `ModSub`). Then each step that charges or releases a block moves
counter and sum alike: `TypeCorrect`, `MspaceAccountedCorrect`,
`CountersCorrect`.

*The mark.* For one thread, `PeakInv`: a thread about to raise the mark raises
it (`PeakCorrect`).

*dlmalloc* (`MspaceProofs`). Rounding up gives a multiple at least as large and
less than a step larger (`AlignUpBounds`), whence what a request gets
(`RequestsArePadded`). Under the heap's limit the footprint plus one granularity
exceeds the area rounded up, so `sys_alloc` gives nothing whatever the system
would (`NothingIsMapped`), and a new or cleared heap's mspace is under that
limit (`HeapIsLimited`). That it stays so needs every operator `malloc.c` has on
the heap's way, down to the writers of heads and feet: none touches segments,
footprint, limit or least address (`SameArea`, one lemma each, put together by
`MallocKeeps`, `MemalignKeeps` and `FreeKeeps`). `free` trims and releases
segments where the system takes memory back; `HeapMspace` calls it with a system
that does not, since the area is the owner's (`extern`) and nothing else is ever
mapped, and the proof relies on that. So the heap's memory is its area in every
state (`AreaIsFixed`), and a request that does not fit always goes to the runtime
(`SystemIsNeverAsked`).

What `MspaceChecks` says of the chunks is not inductive: it looks at the chunks a
walk from the first one meets, and a call that writes one wrong head may change
the walk itself. `HeapFits` is. It speaks of all heads there are, walked or not:

* `Layout`: each head but the last leads to another one, with none between; sizes
  are multiples of 16; each head's `PINUSE` is the `CINUSE` of the one before it;
  no two free ones touch; top is free and the last before the end of the area.
* `FeetFit`: behind each free chunk but top stands its size. Together these are
  `Phys`.
* `Bins`: the free chunks but the victim are, each once, in the small bin of
  their size or in the trees, which are sound (`TreesFit` and `RingsFit` of
  *Trees*). `DvFits`: the victim is no chunk or a free one whose size is
  `dvsize`. All this is `Sound`.
* `BlockFits`: each block of the program has its chunk in use, which is not that
  of the mspace's state and is large enough, and the word behind it holds the tag.

The proof goes along the code. Every operator is first shown to do one of two
things to the layout, to join some chunks into one (`Merged`) or to cut one
(`Divided`), and to leave the words outside alone (`FeetOutside`); both keep
`Phys` (`MergeFree`, `JoinByHead` and their like). While chunks are out of
their bins, `Bins(m, X)` says that all free chunks but those of X are binned: this
is what holds between the steps of `mspace_free`, `mspace_malloc` and
`mspace_memalign`, where `Sound` does not. `Keeps` says of each what a call
leaves of the chunks in use: their sizes and the word behind them, where the tags
are. So `free` takes exactly its chunk out of those in use (`FreeFrees`, over the
four ways to merge), `malloc` and `memalign` add exactly one, or change nothing
where neither top nor a free chunk is large enough (`Yields`), over the exact
small bin, the next one, the victim, the trees and top, and over the two cuts of
`memalign`. A tag is written into a word that no free chunk has for its size
(`TagSet`). `AllocateFits`, `FreeFits` and `NewFits` put this together.

From `HeapFits` follow `MspaceIsSound` (the walk meets every head but top's and
the last: `AllAreWalked`), `TagsSurvive` and `FailsOnlyWhenNothingFits`
(`MspaceStaysSound`, `TagsStay`, `NothingIsHidden`), and that each step gives or
takes back one block as `Blocks` says (`ServedGives`, `FreedIsTaken`;
`BlocksAreGiven`). For `UsedBytesAgree` a second part, `UsedFits`, has the sum of
the chunks in use equal to what was charged, a word for each block, and the
state; chunks in use and free ones add up to the area below top (`ChunksAddUp`),
so that what `mspace_mallinfo` finds by adding the free ones is the same
(`CountsStayEqual`). Sums are the folds of the community modules; that one more
element adds its size, whichever the fold picks first, is `TotalAdds`.

*Trees* (`TreeProofs`, `TreeStoreProofs`). `TreesAreSound` says what the links
of each node are; it is not inductive, since nothing in it keeps the leaf that
replaces a removed node on the way that the bits of its size lead. `TreesFit`
does: it gives every node a depth d, and a node's size agrees with its parent's
in all bits above the one that its depth branches on, and has there the bit of
the side it hangs on. Any node below another could so replace it, which is what
`unlink_large_chunk` relies on when it takes just some leaf. `RingsFit` adds the
chunks of each size as a sequence in the order of their arrival: each is linked
to the ones before and behind it, and the first is the one in the tree.
`StoreInv` puts the two together for what is stored, and `BinsFit` adds the small
bins for an mspace: sequences without repetition, each of chunks of its one size.

The walks of the code (down by the bits, to a leaf, along `leftmost_child`, once
around a ring) are recursive functions over the links. Such a function exists
when every step goes down in some measure (`WalksExist`, with a depth, or the
place in the ring, as measure), and what it gives is shown at a least
counterexample in that measure. From the bits of 30-bit sizes it follows that
where two sizes first differ the one with the 0 is smaller (`FirstBitDecides`)
and that a larger bin has larger sizes (`SizesInOrder`). Then, for any trees:
`Descend` ends at the chunk's size or where it belongs (`EveryNodeIsFound`),
insertion and removal keep both parts (`InsertFits`, `UnlinkFits`), the leftmost
path passes a least size (`LeftmostIsLeast`), and of all chunks that fit a least
one is on the way to the size, or on the leftmost path of the right subtree that
was passed last, or in the next bin that has a tree (`SearchFinds`,
`ChoiceCovers`): `BestFitFits`, `LeastChunkFits`. `TreesStaySound` and
`SearchesStayBestFit` are these for every state the store reaches.

Only model-checked: all of `MspaceStore` (`MspaceIsSound`, `InUseIsOwned`,
`FootprintIsMapped`, `TrimReleasesIdle`), whose mspace grows by segments and maps
large chunks for themselves. `Layout` is about one area; with several, a chunk's
neighbour may be a fencepost or in a segment that was merged, trimmed or given
back, and each step would need it for every segment. Out of the provers' reach
are liveness (`InitializeEnds`, `LockIsReleased`), ENABLED, and what a recursive
definition computes for every input where neither a measure nor an explicit
solution can be given.

## 6. Not modelled

The table of components in `PROJECT.json` gives each part's reason. The operating
system wrappers, logging, type aliases and the tests have no model. Left out
inside the modelled parts: names and formatting, the tag pointer's value, zeroing
of the area, alignment assertions, the metatables of light userdata, `__index`
and `__tostring`. `Clear` of a terminated heap and `delete` of a deleted object
are undefined and no step of the models.

Of dlmalloc: the global `malloc` family and its parameters beside the mspace
calls (`malloc.c` 4550-4815, 5191-5400), `mspace_inspect_all`,
`mspace_malloc_stats`, `mspace_mallopt`, `mspace_track_large_chunks`, locks,
footers, `MORECORE`, `mremap` and what happens on a corrupted heap
(`PROCEED_ON_ERROR`): the engine builds or calls none of them. The platform half
of `malloc.c` (its first 2000 lines) is options and system calls.

## 7. Plan

1. `LuaBridge` over `Heap`'s blocks, with memory that is used again and an
   allocation that fails; pointers to objects as parameters of `MetaApply`; the
   metatables of light userdata.
2. Theorems: `Layout` and `Phys` for an mspace of several segments, from which
   `MspaceIsSound` of `MspaceStore` and that its footprint is what is mapped would
   follow; `realloc` and the array calls on top of them.
3. `MspaceStore` with more blocks, as the bound of two is what five minutes
   allow.
