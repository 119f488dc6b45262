----------------------------- MODULE HeapProofs -----------------------------
(* Theorems about Heap, for any number of threads, any sizes and areas: who *)
(* has each block, where Free sends it, that the lock protects the counter  *)
(* of the mspace, and what the counters say of the blocks that are out.     *)
EXTENDS Heap, WellFoundedInduction, FiniteSetTheorems, TLAPS

(* The calls in which a thread has a block in its hands.                    *)
Carrying == {"charge", "stlcharge", "free", "release", "stlfree"}

(* A call that has no block yet knows its size.                             *)
OpInv ==
    /\ op = [t \in Threads |-> op[t]]
    /\ \A t \in Threads :
          InCall(t, {"memalign", "stl"}) =>
              /\ op[t] = [at |-> op[t].at, size |-> op[t].size]
              /\ op[t].size \in Sizes

(* Chunks are inside the heap's area, also while there is none; runtime     *)
(* blocks are where the runtime puts them.                                  *)
AreaInv ==
    /\ maxSize \in {0, MaxSize}
    /\ mem => base \in Bases /\ maxSize = MaxSize
    /\ ~mem => /\ base = 0 /\ chunks = {}
               /\ \A t \in Threads : ~InCall(t, {"memalign"})
    /\ \A c \in chunks :
          /\ c.addr \in Int /\ c.size \in Int /\ c.size > 0
          /\ base <= c.addr /\ c.addr + c.size <= base + maxSize
    /\ \A b \in stlBlocks : b.addr \in StlAddresses

(* A thread that is about to free a block asks the allocator that has it,   *)
(* and the mspace for what the address test misjudges.                      *)
HomeInv ==
    \A t \in Threads :
        /\ InCall(t, {"charge"}) => op[t].block \in chunks
        /\ InCall(t, {"free", "release"}) => op[t].block \in chunks \cup Misjudged
        /\ InCall(t, {"stlcharge"}) => op[t].block \in stlBlocks
        /\ InCall(t, {"stlfree"}) => op[t].block \in stlBlocks \ Misjudged

(* The inductive invariant of custody.                                      *)
CustodyInv == OpInv /\ AreaInv /\ HomeInv /\ NoBlockIsLost
-----------------------------------------------------------------------------
(* The area is described by numbers.                                        *)
LEMMA AreaIsNumbers ==
    ASSUME AreaInv
    PROVE  base \in Int /\ maxSize \in Int
<1>1. maxSize \in Int
  BY HeapAssumption DEF AreaInv
<1>2. CASE mem
  <2>1. base \in Bases
    BY <1>2 DEF AreaInv
  <2> QED
    BY <1>1, <2>1, HeapAssumption
<1>3. CASE ~mem
  BY <1>1, <1>3 DEF AreaInv
<1> QED
  BY <1>2, <1>3

(* What the address test of Free says of chunks and of runtime blocks: it   *)
(* tells them apart while there is an area, and without one it is right     *)
(* about every block but the misjudged ones.                                *)
LEMMA AddressesTell ==
    ASSUME AreaInv
    PROVE  /\ \A c \in chunks : ~OutsideArea(c.addr)
           /\ \A b \in stlBlocks : OutsideArea(b.addr) <=> b \notin Misjudged
           /\ chunks \cap stlBlocks = {}
<1>1. base \in Int /\ maxSize \in Int
  BY AreaIsNumbers
<1>2. ASSUME NEW c \in chunks PROVE ~OutsideArea(c.addr)
  BY <1>1, <1>2 DEF AreaInv, OutsideArea
<1>3. ASSUME NEW b \in stlBlocks
      PROVE  OutsideArea(b.addr) <=> b \notin Misjudged
  <2>1. b.addr \in StlAddresses
    BY <1>3 DEF AreaInv
  <2>2. b.addr \in Nat
    BY <2>1, HeapAssumption
  <2>3. CASE mem
    <3>1. base \in Bases /\ maxSize = MaxSize
      BY <2>3 DEF AreaInv
    <3>2. b.addr \notin base .. base + MaxSize - 1
      BY <2>1, <3>1, HeapAssumption
    <3>3. OutsideArea(b.addr)
      BY <1>1, <2>2, <3>1, <3>2 DEF OutsideArea
    <3> QED
      BY <2>3, <3>3 DEF Misjudged
  <2>4. CASE ~mem
    <3>1. base = 0
      BY <2>4 DEF AreaInv
    <3>2. OutsideArea(b.addr) <=> ~(b.addr < maxSize)
      BY <1>1, <2>2, <3>1 DEF OutsideArea
    <3> QED
      BY <1>3, <2>4, <3>2 DEF Misjudged
  <2> QED
    BY <2>3, <2>4
<1>4. chunks \cap stlBlocks = {}
  <2>1. CASE mem
    BY <1>2, <1>3, <2>1 DEF Misjudged
  <2>2. CASE ~mem
    BY <2>2 DEF AreaInv
  <2> QED
    BY <2>1, <2>2
<1> QED
  BY <1>2, <1>3, <1>4

(* The same blocks are misjudged while neither the area nor the runtime's   *)
(* blocks change.                                                           *)
LEMMA JudgedAlike ==
    ASSUME UNCHANGED <<fields, stlBlocks>>
    PROVE  Misjudged' = Misjudged
  BY DEF Misjudged, fields

(* ... also after a step.                                                   *)
LEMMA AddressesApart == AreaInv' => (chunks \cap stlBlocks = {})'
<1>1. AreaInv => chunks \cap stlBlocks = {}
  BY AddressesTell
<1> QED
  BY <1>1, PTL

(* The five things a step may do to the custody of blocks. Nothing:         *)
LEMMA CustodyKept ==
    ASSUME OpInv, NoBlockIsLost, NEW t \in Threads, NEW e,
           op' = [op EXCEPT ![t] = e], UNCHANGED <<memory, held>>,
           \/ op[t].at \notin Carrying /\ e.at \notin Carrying
           \/ op[t].at \in Carrying /\ e.at \in Carrying /\ e.block = op[t].block
    PROVE  NoBlockIsLost'
<1>1. \A u \in Threads : op'[u] = IF u = t THEN e ELSE op[u]
  BY DEF OpInv
<1>2. Carriers' = Carriers
  BY <1>1 DEF Carriers, InCall, Carrying
<1>3. \A u \in Carriers : op'[u].block = op[u].block
  BY <1>1 DEF Carriers, InCall, Carrying
<1> QED
  BY <1>2, <1>3 DEF NoBlockIsLost, memory

(* A new block comes into the hands of a thread.                            *)
LEMMA CustodyGained ==
    ASSUME OpInv, NoBlockIsLost, NEW t \in Threads, NEW e, NEW b,
           op' = [op EXCEPT ![t] = e], UNCHANGED held,
           op[t].at \notin Carrying, e.at \in Carrying, e.block = b,
           b \notin chunks \cup stlBlocks,
           chunks' \cup stlBlocks' = (chunks \cup stlBlocks) \cup {b}
    PROVE  NoBlockIsLost'
<1>1. \A u \in Threads : op'[u] = IF u = t THEN e ELSE op[u]
  BY DEF OpInv
<1>2. Carriers' = Carriers \cup {t} /\ t \notin Carriers
  BY <1>1 DEF Carriers, InCall, Carrying
<1>3. \A u \in Carriers : op'[u].block = op[u].block /\ op[u].block # b
  BY <1>1, <1>2 DEF Carriers, NoBlockIsLost
<1>4. op'[t].block = b /\ b \notin held
  BY <1>1 DEF NoBlockIsLost
<1> QED
  BY <1>2, <1>3, <1>4 DEF NoBlockIsLost

(* A thread takes a held block.                                             *)
LEMMA CustodyTaken ==
    ASSUME OpInv, NoBlockIsLost, NEW t \in Threads, NEW e, NEW b \in held,
           op' = [op EXCEPT ![t] = e], UNCHANGED memory, held' = held \ {b},
           op[t].at \notin Carrying, e.at \in Carrying, e.block = b
    PROVE  NoBlockIsLost'
<1>1. \A u \in Threads : op'[u] = IF u = t THEN e ELSE op[u]
  BY DEF OpInv
<1>2. Carriers' = Carriers \cup {t} /\ t \notin Carriers
  BY <1>1 DEF Carriers, InCall, Carrying
<1>3. \A u \in Carriers : op'[u].block = op[u].block /\ op[u].block # b
  BY <1>1, <1>2 DEF Carriers, NoBlockIsLost
<1>4. op'[t].block = b
  BY <1>1
<1> QED
  BY <1>2, <1>3, <1>4 DEF NoBlockIsLost, memory

(* A thread hands its block to the program.                                 *)
LEMMA CustodyGiven ==
    ASSUME OpInv, NoBlockIsLost, NEW t \in Threads, NEW e,
           op' = [op EXCEPT ![t] = e], UNCHANGED memory,
           held' = held \cup {op[t].block},
           op[t].at \in Carrying, e.at \notin Carrying
    PROVE  NoBlockIsLost'
<1>1. \A u \in Threads : op'[u] = IF u = t THEN e ELSE op[u]
  BY DEF OpInv
<1>2. Carriers' = Carriers \ {t} /\ t \in Carriers
  BY <1>1 DEF Carriers, InCall, Carrying
<1>3. \A u \in Carriers' : op'[u].block = op[u].block
  BY <1>1, <1>2 DEF Carriers
<1> QED
  BY <1>2, <1>3 DEF NoBlockIsLost, memory

(* A thread gives its block back to an allocator.                           *)
LEMMA CustodyEnded ==
    ASSUME OpInv, NoBlockIsLost, NEW t \in Threads, NEW e,
           op' = [op EXCEPT ![t] = e], UNCHANGED held,
           chunks' \cup stlBlocks' = (chunks \cup stlBlocks) \ {op[t].block},
           op[t].at \in Carrying, e.at \notin Carrying
    PROVE  NoBlockIsLost'
<1>1. \A u \in Threads : op'[u] = IF u = t THEN e ELSE op[u]
  BY DEF OpInv
<1>2. Carriers' = Carriers \ {t} /\ t \in Carriers
  BY <1>1 DEF Carriers, InCall, Carrying
<1>3. \A u \in Carriers' : op'[u].block = op[u].block
  BY <1>1, <1>2 DEF Carriers
<1> QED
  BY <1>2, <1>3 DEF NoBlockIsLost
-----------------------------------------------------------------------------
(* A step that puts one call further.                                       *)
LEMMA OpMoved ==
    ASSUME OpInv, NEW t \in Threads, NEW e, op' = [op EXCEPT ![t] = e],
           e.at \in {"memalign", "stl"} =>
               e = [at |-> e.at, size |-> e.size] /\ e.size \in Sizes
    PROVE  /\ OpInv'
           /\ \A u \in Threads : op'[u] = IF u = t THEN e ELSE op[u]
  BY DEF OpInv, InCall

(* The area is as before when no chunk, no runtime block and no request to  *)
(* the mspace is new.                                                       *)
LEMMA AreaKept ==
    ASSUME OpInv, AreaInv, UNCHANGED fields,
           chunks' \subseteq chunks, stlBlocks' \subseteq stlBlocks,
           \A t \in Threads : op'[t].at = "memalign" => mem \/ op[t].at = "memalign"
    PROVE  AreaInv'
<1>1. CASE mem
  BY <1>1 DEF AreaInv, fields
<1>2. CASE ~mem
  BY <1>2 DEF AreaInv, fields, InCall
<1> QED
  BY <1>1, <1>2

(* With all threads idle, what the allocators gave is in the program's      *)
(* hands.                                                                   *)
LEMMA IdleHolds ==
    ASSUME AllIdle
    PROVE  Carriers = {} /\ \A t \in Threads : op[t].at = "idle"
  BY DEF AllIdle, Idle, Carriers, InCall

(* The owner's calls: no thread has a block in its hands.                   *)
LEMMA CustodyOwner ==
    ASSUME CustodyInv, Owner
    PROVE  CustodyInv'
<1> USE DEF CustodyInv
<1>1. AllIdle => Carriers = {} /\ \A t \in Threads : op[t].at = "idle"
  BY IdleHolds
<1>2. chunks \cap stlBlocks = {}
  BY AddressesTell
<1>3. ASSUME NEW b \in Bases, NEW f \in InitFlags, Initialize(b, f)
      PROVE  CustodyInv'
  <2>1. Carriers = {} /\ \A t \in Threads : op[t].at = "idle"
    BY <1>1, <1>3 DEF Initialize
  <2>2. UNCHANGED <<op, chunks, stlBlocks, held>>
    BY <1>3 DEF Initialize, memory
  <2>3. OpInv' /\ HomeInv' /\ NoBlockIsLost'
    BY <2>1, <2>2 DEF OpInv, HomeInv, NoBlockIsLost, Carriers, InCall
  <2>4. CASE mem
    <3>1. AreaInv'
      BY <1>3, <2>2, <2>4, AreaKept DEF Initialize
    <3> QED
      BY <2>3, <3>1
  <2>5. CASE ~mem
    <3>1. mem' /\ base' = b /\ maxSize' = MaxSize /\ chunks = {}
      BY <1>3, <2>5 DEF Initialize, AreaInv
    <3>2. AreaInv'
      BY <2>2, <3>1 DEF AreaInv
    <3> QED
      BY <2>3, <3>2
  <2> QED
    BY <2>4, <2>5
<1>4. ASSUME Terminate PROVE CustodyInv'
  <2>1. Carriers = {} /\ \A t \in Threads : op[t].at = "idle"
    BY <1>1, <1>4 DEF Terminate
  <2>2. /\ UNCHANGED <<op, stlBlocks, maxSize>>
        /\ chunks' = {} /\ base' = 0 /\ ~mem'
        /\ held' = {b \in held : b \in stlBlocks}
    BY <1>4 DEF Terminate
  <2>3. OpInv' /\ HomeInv' /\ Carriers' = {}
    BY <2>1, <2>2 DEF OpInv, HomeInv, Carriers, InCall
  <2>4. NoBlockIsLost'
    BY <2>1, <2>2, <2>3 DEF NoBlockIsLost
  <2>5. AreaInv'
    BY <2>1, <2>2 DEF AreaInv, InCall
  <2> QED
    BY <2>3, <2>4, <2>5
<1>5. ASSUME Clear PROVE CustodyInv'
  <2>1. Carriers = {} /\ \A t \in Threads : op[t].at = "idle"
    BY <1>1, <1>5 DEF Clear
  <2>2. /\ UNCHANGED <<fields, op, stlBlocks>>
        /\ \/ chunks' = {} /\ held' = {b \in held : b \in stlBlocks}
           \/ UNCHANGED <<chunks, held>>
    BY <1>5 DEF Clear
  <2>3. OpInv' /\ HomeInv' /\ Carriers' = {}
    BY <2>1, <2>2 DEF OpInv, HomeInv, Carriers, InCall
  <2>4. NoBlockIsLost'
    BY <2>1, <2>2, <2>3 DEF NoBlockIsLost
  <2>5. AreaInv'
    BY <2>1, <2>2, AreaKept
  <2> QED
    BY <2>3, <2>4, <2>5
<1> QED
  BY <1>3, <1>4, <1>5 DEF Owner

(* A call begins.                                                           *)
LEMMA CustodyCall ==
    ASSUME CustodyInv, NEW t \in Threads, Call(t)
    PROVE  CustodyInv'
<1> USE DEF CustodyInv
<1>1. op[t] = Idle => op[t].at = "idle"
  BY DEF Idle
<1>2. ASSUME NEW size \in Sizes, Allocate(t, size) PROVE CustodyInv'
  <2>1. UNCHANGED <<fields, memory, held>> /\ mem /\ op[t].at = "idle"
    BY <1>1, <1>2 DEF Allocate, Quiet
  <2>2. CASE UNCHANGED op
    BY <2>1, <2>2, JudgedAlike DEF OpInv, AreaInv, HomeInv, NoBlockIsLost,
                                   Carriers, InCall, fields, memory
  <2>3. CASE op' = [op EXCEPT ![t] = [at |-> "memalign", size |-> size]]
    <3>1. OpInv' /\ \A u \in Threads : op'[u] = IF u = t
                       THEN [at |-> "memalign", size |-> size] ELSE op[u]
      BY <2>3, OpMoved
    <3>2. AreaInv'
      BY <2>1, <3>1, AreaKept DEF memory
    <3>3. HomeInv'
      BY <2>1, <3>1, JudgedAlike DEF HomeInv, InCall, memory
    <3>4. NoBlockIsLost'
      BY <2>1, <2>3, CustodyKept DEF Carrying
    <3> QED
      BY <3>1, <3>2, <3>3, <3>4
  <2> QED
    BY <1>2, <2>2, <2>3 DEF Allocate
<1>3. ASSUME NEW b \in held, Free(t, b) PROVE CustodyInv'
  <2>1. /\ UNCHANGED <<fields, memory>> /\ held' = held \ {b}
        /\ op[t].at = "idle"
    BY <1>1, <1>3 DEF Free, Quiet
  <2> DEFINE e == IF OutsideArea(b.addr)
                  THEN [at |-> "stlfree", block |-> b, seen |-> stlUsed]
                  ELSE [at |-> "free", block |-> b]
  <2>2. /\ op' = [op EXCEPT ![t] = e] /\ e.block = b
        /\ e.at = IF OutsideArea(b.addr) THEN "stlfree" ELSE "free"
    BY <1>3 DEF Free
  <2> HIDE DEF e
  <2>a. e.at \notin {"memalign", "stl"}
    BY <2>2
  <2>3. OpInv' /\ \A u \in Threads : op'[u] = IF u = t THEN e ELSE op[u]
    BY <2>2, <2>a, OpMoved
  <2>4. AreaInv'
    BY <2>1, <2>2, <2>3, AreaKept DEF memory
  <2>5. b \in chunks \cup stlBlocks
    BY DEF NoBlockIsLost
  <2>6. HomeInv'
    <3>1. UNCHANGED <<chunks, stlBlocks, Misjudged>>
      BY <2>1, JudgedAlike DEF memory
    <3>2. /\ e.at = "stlfree" => b \in stlBlocks \ Misjudged
          /\ e.at = "free" => b \in chunks \cup Misjudged
      BY <2>2, <2>5, AddressesTell
    <3> QED
      BY <2>2, <2>3, <3>1, <3>2 DEF HomeInv, InCall
  <2>7. NoBlockIsLost'
    BY <2>1, <2>2, CustodyTaken DEF Carrying
  <2> QED
    BY <2>3, <2>4, <2>6, <2>7
<1>4. ASSUME NEW e, op' = [op EXCEPT ![t] = e], e.at \in {"refresh", "peek"},
             UNCHANGED <<fields, memory, held>>, op[t].at = "idle"
      PROVE  CustodyInv'
  <2>1. OpInv' /\ \A u \in Threads : op'[u] = IF u = t THEN e ELSE op[u]
    BY <1>4, OpMoved
  <2>2. AreaInv'
    BY <1>4, <2>1, AreaKept DEF memory
  <2>3. HomeInv'
    BY <1>4, <2>1, JudgedAlike DEF HomeInv, InCall, memory
  <2>4. NoBlockIsLost'
    BY <1>4, CustodyKept DEF Carrying
  <2> QED
    BY <2>1, <2>2, <2>3, <2>4
<1>5. ASSUME BeginRefresh(t) PROVE CustodyInv'
  <2>1. PICK uordblks \in Bytes(chunks) .. maxSize :
           op' = [op EXCEPT ![t] = [at |-> "refresh", seen |-> uordblks,
                                    raise |-> usedBytes <= uordblks]]
    BY <1>5 DEF BeginRefresh
  <2>2. UNCHANGED <<fields, memory, held>> /\ op[t].at = "idle"
    BY <1>1, <1>5 DEF BeginRefresh, Quiet
  <2> QED
    BY <1>4, <2>1, <2>2
<1>6. ASSUME BeginPeek(t) PROVE CustodyInv'
  <2>1. UNCHANGED <<fields, memory, held>> /\ op[t].at = "idle"
    BY <1>1, <1>6 DEF BeginPeek, Quiet
  <2> QED
    BY <1>4, <1>6, <2>1 DEF BeginPeek
<1> QED
  BY <1>2, <1>3, <1>5, <1>6 DEF Call

(* A call goes on.                                                          *)
LEMMA CustodyGoesOn ==
    ASSUME CustodyInv, NEW t \in Threads, Step(t)
    PROVE  CustodyInv'
<1> USE DEF CustodyInv
<1>1. Idle.at = "idle"
  BY DEF Idle
<1>2. ASSUME Memalign(t) PROVE CustodyInv'
  <2>1. /\ op[t].at = "memalign" /\ op[t].size \in Sizes /\ mem
        /\ UNCHANGED <<fields, stlBlocks, held>>
    BY <1>2 DEF Memalign, OpInv, AreaInv, InCall
  <2>2. PICK c \in FreeChunks(op[t].size) :
           /\ chunks' = chunks \cup {c}
           /\ op' = [op EXCEPT ![t] =
                       [at |-> "charge", block |-> c, seen |-> mspaceUsed]]
    BY <1>2 DEF Memalign
  <2>3. base \in Int /\ maxSize \in Int
    BY AreaIsNumbers
  <2>4. /\ c.addr \in Int /\ c.size \in Int /\ c.size > 0
        /\ base <= c.addr /\ c.addr + c.size <= base + maxSize
    <3>1. /\ c \in [addr : base + 1 .. base + maxSize - 1,
                    size : op[t].size + Tag .. op[t].size + Tag + Slack]
          /\ c.addr + c.size <= base + maxSize
      BY DEF FreeChunks
    <3>2. op[t].size \in Nat \ {0} /\ Tag \in Nat
      BY <2>1, HeapAssumption
    <3> QED
      BY <2>3, <3>1, <3>2
  <2>5. c \notin chunks
    <3>1. \A d \in chunks : Extent(c) \cap Extent(d) = {}
      BY DEF FreeChunks
    <3>2. c.addr \in Extent(c)
      BY <2>4 DEF Extent
    <3> QED
      BY <3>1, <3>2
  <2>6. OpInv' /\ \A u \in Threads : op'[u] = IF u = t
            THEN [at |-> "charge", block |-> c, seen |-> mspaceUsed] ELSE op[u]
    BY <2>2, OpMoved
  <2>7. AreaInv'
    BY <2>1, <2>2, <2>4 DEF AreaInv, fields
  <2>8. c \notin stlBlocks
    BY <2>1, <2>2, <2>7, AddressesApart
  <2>9. HomeInv'
    BY <2>1, <2>2, <2>6, JudgedAlike DEF HomeInv, InCall
  <2>10. NoBlockIsLost'
    BY <2>1, <2>2, <2>5, <2>8, CustodyGained DEF Carrying
  <2> QED
    BY <2>6, <2>7, <2>9, <2>10
<1>3. ASSUME Charge(t) PROVE CustodyInv'
  <2>1. /\ op[t].at = "charge" /\ UNCHANGED <<fields, memory>>
        /\ held' = held \cup {op[t].block} /\ op' = [op EXCEPT ![t] = Idle]
    BY <1>3 DEF Charge
  <2>2. OpInv' /\ \A u \in Threads : op'[u] = IF u = t THEN Idle ELSE op[u]
    BY <1>1, <2>1, OpMoved
  <2>3. AreaInv' /\ HomeInv'
    BY <1>1, <2>1, <2>2, AreaKept, JudgedAlike DEF HomeInv, InCall, memory
  <2>4. NoBlockIsLost'
    BY <1>1, <2>1, CustodyGiven DEF Carrying
  <2> QED
    BY <2>2, <2>3, <2>4
<1>4. ASSUME MemalignFails(t) PROVE CustodyInv'
  <2>1. /\ op[t].at = "memalign" /\ UNCHANGED <<fields, memory, held>>
        /\ op' = [op EXCEPT ![t].at = "stl"]
    BY <1>4 DEF MemalignFails
  <2> DEFINE e == [at |-> "stl", size |-> op[t].size]
  <2>2. op' = [op EXCEPT ![t] = e] /\ op[t].size \in Sizes
    <3>1. /\ op[t] = [at |-> op[t].at, size |-> op[t].size]
          /\ op[t].size \in Sizes
      BY <2>1 DEF OpInv, InCall
    <3>2. [op[t] EXCEPT !.at = "stl"] = e
      BY <3>1
    <3>3. op' = [op EXCEPT ![t] = [op[t] EXCEPT !.at = "stl"]]
      BY <2>1
    <3> QED
      BY <3>1, <3>2, <3>3
  <2>3. OpInv' /\ \A u \in Threads : op'[u] = IF u = t THEN e ELSE op[u]
    BY <2>2, OpMoved
  <2>4. AreaInv' /\ HomeInv'
    BY <2>1, <2>3, AreaKept, JudgedAlike DEF HomeInv, InCall, memory
  <2>5. NoBlockIsLost'
    BY <2>1, <2>2, CustodyKept DEF Carrying
  <2> QED
    BY <2>3, <2>4, <2>5
<1>5. ASSUME StlAllocate(t) PROVE CustodyInv'
  <2>1. op[t].at = "stl" /\ UNCHANGED <<fields, chunks, held>>
    BY <1>5 DEF StlAllocate
  <2>2. CASE UNCHANGED <<stlBlocks, op>>
    BY <2>1, <2>2, JudgedAlike DEF OpInv, AreaInv, HomeInv, NoBlockIsLost,
                                   Carriers, InCall, fields
  <2>3. ASSUME NEW b \in StlPlaces(op[t].size),
               stlBlocks' = stlBlocks \cup {b},
               op' = [op EXCEPT ![t] =
                        [at |-> "stlcharge", block |-> b, seen |-> stlUsed]]
        PROVE  CustodyInv'
    <3>1. b.addr \in StlAddresses /\ b \notin stlBlocks
      BY DEF StlPlaces
    <3>2. OpInv' /\ \A u \in Threads : op'[u] = IF u = t
              THEN [at |-> "stlcharge", block |-> b, seen |-> stlUsed] ELSE op[u]
      BY <2>3, OpMoved
    <3>3. AreaInv'
      BY <2>1, <2>3, <3>1, <3>2 DEF AreaInv, fields, InCall
    <3>4. HomeInv'
      <4>1. \A c \in stlBlocks : c \in Misjudged' <=> c \in Misjudged
        BY <2>1, <2>3 DEF Misjudged, fields
      <4>2. Misjudged \subseteq Misjudged'
        BY <4>1 DEF Misjudged
      <4> QED
        BY <2>1, <2>3, <3>2, <4>1, <4>2 DEF HomeInv, InCall
    <3>5. b \notin chunks
      BY <2>1, <2>3, <3>3, AddressesApart
    <3>6. NoBlockIsLost'
      BY <2>1, <2>3, <3>1, <3>5, CustodyGained DEF Carrying
    <3> QED
      BY <3>2, <3>3, <3>4, <3>6
  <2> QED
    BY <1>5, <2>2, <2>3 DEF StlAllocate
<1>6. ASSUME StlCharge(t) PROVE CustodyInv'
  <2>1. /\ op[t].at = "stlcharge" /\ UNCHANGED <<fields, memory>>
        /\ held' = held \cup {op[t].block} /\ op' = [op EXCEPT ![t] = Idle]
    BY <1>6 DEF StlCharge
  <2>2. OpInv' /\ \A u \in Threads : op'[u] = IF u = t THEN Idle ELSE op[u]
    BY <1>1, <2>1, OpMoved
  <2>3. AreaInv' /\ HomeInv'
    BY <1>1, <2>1, <2>2, AreaKept, JudgedAlike DEF HomeInv, InCall, memory
  <2>4. NoBlockIsLost'
    BY <1>1, <2>1, CustodyGiven DEF Carrying
  <2> QED
    BY <2>2, <2>3, <2>4
<1>7. ASSUME StlFree(t) PROVE CustodyInv'
  <2>1. /\ op[t].at = "stlfree" /\ UNCHANGED <<fields, chunks, held>>
        /\ stlBlocks' = stlBlocks \ {op[t].block} /\ op' = [op EXCEPT ![t] = Idle]
    BY <1>7 DEF StlFree
  <2>2. OpInv' /\ \A u \in Threads : op'[u] = IF u = t THEN Idle ELSE op[u]
    BY <1>1, <2>1, OpMoved
  <2>3. AreaInv'
    BY <1>1, <2>1, <2>2, AreaKept
  <2>4. op[t].block \in stlBlocks \ chunks
    BY <2>1, AddressesTell DEF HomeInv, InCall
  <2>5. HomeInv'
    <3>1. Misjudged' = Misjudged \ {op[t].block}
      BY <2>1 DEF Misjudged, fields
    <3>2. \A u \in Carriers : u # t => op[u].block # op[t].block
      BY <2>1 DEF NoBlockIsLost, Carriers, InCall
    <3> QED
      BY <1>1, <2>1, <2>2, <3>1, <3>2 DEF HomeInv, InCall, Carriers
  <2>6. NoBlockIsLost'
    BY <1>1, <2>1, <2>4, CustodyEnded DEF Carrying
  <2> QED
    BY <2>2, <2>3, <2>5, <2>6
<1>8. ASSUME BeginFree(t) PROVE CustodyInv'
  <2> DEFINE e == [at |-> "release", block |-> op[t].block, seen |-> mspaceUsed]
  <2>1. /\ op[t].at = "free" /\ UNCHANGED <<fields, memory, held>>
        /\ op' = [op EXCEPT ![t] = e]
    BY <1>8 DEF BeginFree
  <2>a. e.at \notin {"memalign", "stl"}
    OBVIOUS
  <2>2. OpInv' /\ \A u \in Threads : op'[u] = IF u = t THEN e ELSE op[u]
    BY <2>1, <2>a, OpMoved
  <2>3. AreaInv' /\ HomeInv'
    BY <2>1, <2>2, AreaKept, JudgedAlike DEF HomeInv, InCall, memory
  <2>4. NoBlockIsLost'
    BY <2>1, CustodyKept DEF Carrying
  <2> QED
    BY <2>2, <2>3, <2>4
<1>9. ASSUME MspaceFree(t) PROVE CustodyInv'
  <2>1. /\ op[t].at = "release" /\ mem /\ UNCHANGED <<fields, stlBlocks, held>>
        /\ chunks' = chunks \ {op[t].block} /\ op' = [op EXCEPT ![t] = Idle]
    BY <1>9 DEF MspaceFree
  <2>2. OpInv' /\ \A u \in Threads : op'[u] = IF u = t THEN Idle ELSE op[u]
    BY <1>1, <2>1, OpMoved
  <2>3. AreaInv'
    BY <1>1, <2>1, <2>2, AreaKept
  <2>4. op[t].block \in chunks \ stlBlocks
    BY <2>1, AddressesTell DEF HomeInv, InCall, Misjudged
  <2>5. HomeInv'
    <3>1. Misjudged' = Misjudged
      BY <2>1, JudgedAlike
    <3>2. \A u \in Carriers : u # t => op[u].block # op[t].block
      BY <2>1 DEF NoBlockIsLost, Carriers, InCall
    <3> QED
      BY <1>1, <2>1, <2>2, <3>1, <3>2 DEF HomeInv, InCall, Carriers
  <2>6. NoBlockIsLost'
    BY <1>1, <2>1, <2>4, CustodyEnded DEF Carrying
  <2> QED
    BY <2>2, <2>3, <2>5, <2>6
<1>10. ASSUME Refresh(t) \/ Peek(t) PROVE CustodyInv'
  <2>1. /\ op[t].at \in {"refresh", "peek"} /\ UNCHANGED <<fields, memory, held>>
        /\ op' = [op EXCEPT ![t] = Idle]
    BY <1>10 DEF Refresh, Peek
  <2>2. OpInv' /\ \A u \in Threads : op'[u] = IF u = t THEN Idle ELSE op[u]
    BY <1>1, <2>1, OpMoved
  <2>3. AreaInv' /\ HomeInv'
    BY <1>1, <2>1, <2>2, AreaKept, JudgedAlike DEF HomeInv, InCall, memory
  <2>4. NoBlockIsLost'
    BY <1>1, <2>1, CustodyKept DEF Carrying
  <2> QED
    BY <2>2, <2>3, <2>4
<1>11. ASSUME FreeWithoutMspace(t) PROVE CustodyInv'
  <2>1. UNCHANGED <<fields, memory, held, op>>
    BY <1>11 DEF FreeWithoutMspace
  <2> QED
    BY <2>1, JudgedAlike DEF OpInv, AreaInv, HomeInv, NoBlockIsLost, Carriers,
                             InCall, fields, memory
<1> QED
  BY <1>2, <1>3, <1>4, <1>5, <1>6, <1>7, <1>8, <1>9, <1>10, <1>11 DEF Step

(* Custody, in every reachable state: the inductive invariant.              *)
THEOREM CustodyCorrect == Spec => []CustodyInv
<1>1. Init => CustodyInv
  BY HeapAssumption DEF Init, CustodyInv, OpInv, AreaInv, HomeInv, NoBlockIsLost,
     Carriers, InCall, Idle
<1>2. CustodyInv /\ [Next]_vars => CustodyInv'
  <2> SUFFICES ASSUME CustodyInv, [Next]_vars PROVE CustodyInv'
    OBVIOUS
  <2>1. CASE UNCHANGED vars
    BY <2>1, JudgedAlike DEF vars, fields, memory, CustodyInv, OpInv, AreaInv,
       HomeInv, NoBlockIsLost, Carriers, InCall
  <2>2. CASE Next
    BY <2>2, CustodyOwner, CustodyCall, CustodyGoesOn DEF Next
  <2> QED
    BY <2>1, <2>2
<1> QED
  BY <1>1, <1>2, PTL DEF Spec

(* Where Free sends a block: with any number of threads and wherever the    *)
(* runtime's blocks are, to the allocator it came from while the heap has   *)
(* an area, the first one or a later one; once Terminate has given it up    *)
(* (Heap.cpp:69-75), to the mspace that is gone exactly if the runtime put  *)
(* it among the first m_maxSize addresses, and else to the runtime. That a  *)
(* runtime block is in no area is all that is assumed of its address.       *)
THEOREM BlocksGoHomeCorrect == Spec => []BlocksGoHome
<1>1. CustodyInv => BlocksGoHome
  BY DEF CustodyInv, HomeInv, BlocksGoHome, InCall
<1> QED
  BY <1>1, CustodyCorrect, PTL

(* No block is lost and none is in two hands, with a lock or without: the   *)
(* races of an unlocked heap are those of its counters.                     *)
THEOREM NoBlockIsLostCorrect == Spec => []NoBlockIsLost
<1>1. CustodyInv => NoBlockIsLost
  BY DEF CustodyInv
<1> QED
  BY <1>1, CustodyCorrect, PTL
-----------------------------------------------------------------------------
(* With a lock, the threads between its two ends are the one that has it,   *)
(* and what that thread read of the mspace's counter still is the counter.  *)
LockInv ==
    HasLock =>
        /\ lock \in Threads \cup {NoThread}
        /\ \A t \in Threads :
              /\ lock = t <=> InCall(t, {"charge", "release", "refresh"})
              /\ InCall(t, {"charge", "release"}) => op[t].seen = mspaceUsed

(* Outside the lock's two ends a step changes neither lock nor counter.     *)
LEMMA LockKept ==
    ASSUME OpInv, LockInv, NEW t \in Threads, NEW e, op' = [op EXCEPT ![t] = e],
           UNCHANGED <<lock, mspaceUsed>>,
           op[t].at \notin {"charge", "release", "refresh"},
           e.at \notin {"charge", "release", "refresh"}
    PROVE  LockInv'
<1>1. \A u \in Threads : op'[u] = IF u = t THEN e ELSE op[u]
  BY DEF OpInv
<1> QED
  BY <1>1 DEF LockInv, InCall

(* A thread that takes the lock and reads the counter is its owner.         *)
LEMMA LockTaken ==
    ASSUME OpInv, LockInv, NEW t \in Threads, NEW e, op' = [op EXCEPT ![t] = e],
           BeginLock(t), UNCHANGED mspaceUsed,
           e.at \in {"charge", "release", "refresh"},
           e.at # "refresh" => e.seen = mspaceUsed
    PROVE  LockInv'
<1>1. \A u \in Threads : op'[u] = IF u = t THEN e ELSE op[u]
  BY DEF OpInv
<1> QED
  BY <1>1, HeapAssumption DEF LockInv, InCall, BeginLock

(* A thread that ends its critical section leaves the lock to nobody.       *)
LEMMA LockGiven ==
    ASSUME OpInv, LockInv, NEW t \in Threads, op' = [op EXCEPT ![t] = Idle],
           EndLock(t), op[t].at \in {"charge", "release", "refresh"}
    PROVE  LockInv'
<1>1. \A u \in Threads : op'[u] = IF u = t THEN Idle ELSE op[u]
  BY DEF OpInv
<1>2. HasLock => \A u \in Threads : u # t => ~InCall(u, {"charge", "release", "refresh"})
  BY DEF LockInv, InCall
<1> QED
  BY <1>1, <1>2, HeapAssumption DEF LockInv, InCall, EndLock, Idle

(* Every step keeps LockInv.                                                *)
LEMMA LockStep ==
    ASSUME OpInv, LockInv, [Next]_vars
    PROVE  LockInv'
<1>1. Idle.at = "idle"
  BY DEF Idle
<1>2. CASE UNCHANGED vars
  BY <1>2 DEF vars, LockInv, InCall
<1>3. CASE Owner
  <2>1. AllIdle /\ UNCHANGED <<op, lock>>
    BY <1>3 DEF Owner, Initialize, Terminate, Clear
  <2> QED
    BY <1>1, <2>1 DEF AllIdle, LockInv, InCall
<1>4. ASSUME NEW t \in Threads, Call(t) PROVE LockInv'
  <2>1. op[t].at = "idle"
    BY <1>1, <1>4 DEF Call, Allocate, Free, BeginRefresh, BeginPeek, Quiet
  <2>2. ASSUME NEW size \in Sizes, Allocate(t, size) PROVE LockInv'
    <3>1. CASE UNCHANGED op
      BY <2>2, <3>1 DEF Allocate, LockInv, InCall
    <3>2. CASE op' = [op EXCEPT ![t] = [at |-> "memalign", size |-> size]]
      BY <2>1, <2>2, <3>2, LockKept DEF Allocate
    <3> QED
      BY <2>2, <3>1, <3>2 DEF Allocate
  <2>3. ASSUME NEW b \in held, Free(t, b) PROVE LockInv'
    <3> DEFINE e == IF OutsideArea(b.addr)
                    THEN [at |-> "stlfree", block |-> b, seen |-> stlUsed]
                    ELSE [at |-> "free", block |-> b]
    <3>1. /\ op' = [op EXCEPT ![t] = e] /\ UNCHANGED <<lock, mspaceUsed>>
          /\ e.at \in {"stlfree", "free"}
      BY <2>3 DEF Free
    <3> HIDE DEF e
    <3> QED
      BY <2>1, <3>1, LockKept
  <2>4. ASSUME BeginRefresh(t) PROVE LockInv'
    <3>1. PICK uordblks \in Bytes(chunks) .. maxSize :
             op' = [op EXCEPT ![t] = [at |-> "refresh", seen |-> uordblks,
                                      raise |-> usedBytes <= uordblks]]
      BY <2>4 DEF BeginRefresh
    <3>2. BeginLock(t) /\ UNCHANGED mspaceUsed
      BY <2>4 DEF BeginRefresh
    <3> QED
      BY <3>1, <3>2, LockTaken
  <2>5. ASSUME BeginPeek(t) PROVE LockInv'
    BY <2>1, <2>5, LockKept DEF BeginPeek
  <2> QED
    BY <1>4, <2>2, <2>3, <2>4, <2>5 DEF Call
<1>5. ASSUME NEW t \in Threads, Step(t) PROVE LockInv'
  <2>1. ASSUME Memalign(t) PROVE LockInv'
    <3>1. PICK c \in FreeChunks(op[t].size) :
             op' = [op EXCEPT ![t] =
                      [at |-> "charge", block |-> c, seen |-> mspaceUsed]]
      BY <2>1 DEF Memalign
    <3>2. BeginLock(t) /\ UNCHANGED mspaceUsed
      BY <2>1 DEF Memalign
    <3> QED
      BY <3>1, <3>2, LockTaken
  <2>2. ASSUME BeginFree(t) PROVE LockInv'
    BY <2>2, LockTaken DEF BeginFree
  <2>3. ASSUME Charge(t) \/ MspaceFree(t) \/ Refresh(t) PROVE LockInv'
    BY <2>3, LockGiven DEF Charge, MspaceFree, Refresh
  <2>4. ASSUME MemalignFails(t) PROVE LockInv'
    <3>1. /\ op[t] = [at |-> op[t].at, size |-> op[t].size]
          /\ op[t].at = "memalign"
      BY <2>4 DEF MemalignFails, OpInv, InCall
    <3>2. [op[t] EXCEPT !.at = "stl"] = [at |-> "stl", size |-> op[t].size]
      BY <3>1
    <3>3. /\ op' = [op EXCEPT ![t] = [op[t] EXCEPT !.at = "stl"]]
          /\ UNCHANGED <<lock, mspaceUsed>>
      BY <2>4 DEF MemalignFails
    <3> QED
      BY <3>1, <3>2, <3>3, LockKept
  <2>5. ASSUME StlAllocate(t) PROVE LockInv'
    <3>1. op[t].at = "stl" /\ UNCHANGED <<lock, mspaceUsed>>
      BY <2>5 DEF StlAllocate
    <3>2. CASE UNCHANGED op
      BY <3>1, <3>2 DEF LockInv, InCall
    <3>3. ASSUME NEW b \in StlPlaces(op[t].size),
                 op' = [op EXCEPT ![t] =
                          [at |-> "stlcharge", block |-> b, seen |-> stlUsed]]
          PROVE  LockInv'
      BY <3>1, <3>3, LockKept
    <3> QED
      BY <2>5, <3>2, <3>3 DEF StlAllocate
  <2>6. ASSUME StlCharge(t) \/ StlFree(t) \/ Peek(t) PROVE LockInv'
    BY <1>1, <2>6, LockKept DEF StlCharge, StlFree, Peek
  <2>7. ASSUME FreeWithoutMspace(t) PROVE LockInv'
    BY <2>7 DEF FreeWithoutMspace, LockInv, InCall
  <2> QED
    BY <1>5, <2>1, <2>2, <2>3, <2>4, <2>5, <2>6, <2>7 DEF Step
<1> QED
  BY <1>2, <1>3, <1>4, <1>5 DEF Next

(* No update of the mspace's counter is lost when the heap has a lock: only *)
(* its owner is between reading and writing the counter, and what it read   *)
(* is still so (Heap.cpp:107, 135). MspaceIsAccounted rests on this.        *)
THEOREM NoUpdateIsLost == Spec => []LockInv
<1>1. Init => LockInv
  BY HeapAssumption DEF Init, LockInv, InCall, Idle
<1>2. CustodyInv /\ LockInv /\ [Next]_vars => LockInv'
  BY LockStep DEF CustodyInv
<1> QED
  BY <1>1, <1>2, CustodyCorrect, PTL DEF Spec
-----------------------------------------------------------------------------
(* The marks are numbers, and a thread about to raise the high-water mark   *)
(* raises it: for one thread, nothing comes between comparing and writing.  *)
OneThread == \A t, u \in Threads : t = u

PeakInv ==
    /\ usedBytes \in Int /\ mspaceUsed \in Int
    /\ \A t \in Threads :
          /\ InCall(t, {"charge", "release"}) => op[t].seen \in Int
          /\ InCall(t, {"refresh", "peek"}) =>
                /\ op[t].seen \in Int
                /\ op[t].raise => usedBytes <= op[t].seen

(* Arithmetic of size_t.                                                    *)
LEMMA WordIsInt ==
    ASSUME NEW n \in Int
    PROVE  n % Word \in Int
<1>1. Word \in Nat /\ MaxSize \in Nat /\ Word > MaxSize
  BY HeapAssumption
<1> QED
  BY <1>1

(* A step of a call that writes neither mark.                               *)
LEMMA PeakKept ==
    ASSUME OpInv, PeakInv, NEW t \in Threads, NEW e, op' = [op EXCEPT ![t] = e],
           UNCHANGED <<usedBytes, mspaceUsed>>,
           e.at \in {"charge", "release"} => e.seen \in Int,
           e.at \in {"refresh", "peek"} =>
               e.seen \in Int /\ (e.raise => usedBytes <= e.seen)
    PROVE  PeakInv'
<1>1. \A u \in Threads : op'[u] = IF u = t THEN e ELSE op[u]
  BY DEF OpInv
<1> QED
  BY <1>1 DEF PeakInv, InCall

(* One that ends a call and writes them.                                    *)
LEMMA PeakEnded ==
    ASSUME OneThread, OpInv, PeakInv, NEW t \in Threads,
           op' = [op EXCEPT ![t] = Idle],
           usedBytes' \in Int, mspaceUsed' \in Int
    PROVE  PeakInv'
<1>1. \A u \in Threads : op'[u] = Idle
  BY DEF OpInv, OneThread
<1>2. \A u \in Threads : op'[u].at = "idle"
  BY <1>1 DEF Idle
<1> QED
  BY <1>2 DEF PeakInv, InCall

(* Every step keeps PeakInv, and only Initialize takes the mark down.       *)
LEMMA PeakStep ==
    ASSUME OneThread, CustodyInv, PeakInv, [Next]_vars
    PROVE  PeakInv' /\ [usedBytes' < usedBytes => ~mem /\ mem']_vars
<1> USE DEF CustodyInv
<1>1. Idle.at = "idle"
  BY DEF Idle
<1>2. UNCHANGED usedBytes => ~(usedBytes' < usedBytes)
  BY DEF PeakInv
<1>3. CASE UNCHANGED vars
  BY <1>3 DEF vars, PeakInv, InCall
<1>4. CASE Owner
  <2>1. \A t \in Threads : op[t].at = "idle" /\ UNCHANGED op
    BY <1>1, <1>4 DEF Owner, Initialize, Terminate, Clear, AllIdle
  <2>2. usedBytes' \in Int /\ mspaceUsed' \in Int
    BY <1>4 DEF Owner, Initialize, Terminate, Clear, PeakInv
  <2>3. UNCHANGED usedBytes \/ (~mem /\ mem')
    BY <1>4 DEF Owner, Initialize, Terminate, Clear
  <2>4. PeakInv'
    BY <2>1, <2>2 DEF PeakInv, InCall
  <2> QED
    BY <1>2, <2>3, <2>4
<1>5. ASSUME NEW t \in Threads, Call(t)
      PROVE  PeakInv' /\ UNCHANGED usedBytes
  <2>1. UNCHANGED <<usedBytes, mspaceUsed>>
    BY <1>5 DEF Call, Allocate, Free, BeginRefresh, BeginPeek
  <2>2. ASSUME NEW size \in Sizes, Allocate(t, size) PROVE PeakInv'
    <3>1. CASE UNCHANGED op
      BY <2>1, <3>1 DEF PeakInv, InCall
    <3>2. CASE op' = [op EXCEPT ![t] = [at |-> "memalign", size |-> size]]
      BY <2>1, <3>2, PeakKept
    <3> QED
      BY <2>2, <3>1, <3>2 DEF Allocate
  <2>3. ASSUME NEW b \in held, Free(t, b) PROVE PeakInv'
    <3> DEFINE e == IF OutsideArea(b.addr)
                    THEN [at |-> "stlfree", block |-> b, seen |-> stlUsed]
                    ELSE [at |-> "free", block |-> b]
    <3>1. op' = [op EXCEPT ![t] = e] /\ e.at \in {"stlfree", "free"}
      BY <2>3 DEF Free
    <3> HIDE DEF e
    <3> QED
      BY <2>1, <3>1, PeakKept
  <2>4. ASSUME BeginRefresh(t) PROVE PeakInv'
    <3>1. PICK uordblks \in Bytes(chunks) .. maxSize :
             op' = [op EXCEPT ![t] = [at |-> "refresh", seen |-> uordblks,
                                      raise |-> usedBytes <= uordblks]]
      BY <2>4 DEF BeginRefresh
    <3>2. uordblks \in Int
      OBVIOUS
    <3> QED
      BY <2>1, <3>1, <3>2, PeakKept
  <2>5. ASSUME BeginPeek(t) PROVE PeakInv'
    <3>1. mspaceUsed \in Int
      BY DEF PeakInv
    <3> QED
      BY <2>1, <2>5, <3>1, PeakKept DEF BeginPeek
  <2> QED
    BY <1>5, <2>1, <2>2, <2>3, <2>4, <2>5 DEF Call
<1>6. ASSUME NEW t \in Threads, Step(t)
      PROVE  PeakInv' /\ ~(usedBytes' < usedBytes)
  <2>1. ASSUME Charge(t) \/ MspaceFree(t)
        PROVE  PeakInv' /\ UNCHANGED usedBytes
    <3>1. op[t].at \in {"charge", "release"} /\ UNCHANGED usedBytes
      BY <2>1 DEF Charge, MspaceFree
    <3>2. op[t].block \in chunks /\ op[t].seen \in Int
      BY <2>1, <3>1 DEF Charge, MspaceFree, HomeInv, PeakInv, InCall, Misjudged
    <3>3. op[t].block.size \in Int
      BY <3>2 DEF AreaInv
    <3>4. \/ mspaceUsed' = (op[t].seen + op[t].block.size) % Word
          \/ mspaceUsed' = (op[t].seen - op[t].block.size) % Word
      BY <2>1 DEF Charge, MspaceFree
    <3>5. mspaceUsed' \in Int
      <4>1. /\ op[t].seen + op[t].block.size \in Int
            /\ op[t].seen - op[t].block.size \in Int
        BY <3>2, <3>3
      <4> QED
        BY <3>4, <4>1, WordIsInt
    <3> QED
      BY <2>1, <3>1, <3>5, PeakEnded DEF Charge, MspaceFree, PeakInv
  <2>2. ASSUME Refresh(t) \/ Peek(t)
        PROVE  PeakInv' /\ ~(usedBytes' < usedBytes)
    <3>1. /\ op[t].at \in {"refresh", "peek"} /\ UNCHANGED mspaceUsed
          /\ usedBytes' = IF op[t].raise THEN op[t].seen ELSE usedBytes
          /\ op' = [op EXCEPT ![t] = Idle]
      BY <2>2 DEF Refresh, Peek
    <3>2. /\ usedBytes \in Int /\ mspaceUsed \in Int /\ op[t].seen \in Int
          /\ op[t].raise => usedBytes <= op[t].seen
      BY <3>1 DEF PeakInv, InCall
    <3>3. usedBytes' \in Int /\ ~(usedBytes' < usedBytes)
      BY <3>1, <3>2
    <3> QED
      BY <3>1, <3>2, <3>3, PeakEnded
  <2>3. ASSUME Memalign(t) PROVE PeakInv' /\ UNCHANGED usedBytes
    <3>1. PICK c \in FreeChunks(op[t].size) :
             op' = [op EXCEPT ![t] =
                      [at |-> "charge", block |-> c, seen |-> mspaceUsed]]
      BY <2>3 DEF Memalign
    <3>2. UNCHANGED <<usedBytes, mspaceUsed>> /\ mspaceUsed \in Int
      BY <2>3 DEF Memalign, PeakInv
    <3> QED
      BY <3>1, <3>2, PeakKept
  <2>4. ASSUME BeginFree(t) PROVE PeakInv' /\ UNCHANGED usedBytes
    <3>1. mspaceUsed \in Int
      BY DEF PeakInv
    <3> QED
      BY <2>4, <3>1, PeakKept DEF BeginFree
  <2>5. ASSUME MemalignFails(t) PROVE PeakInv' /\ UNCHANGED usedBytes
    <3>1. op[t] = [at |-> op[t].at, size |-> op[t].size]
      BY <2>5 DEF MemalignFails, OpInv, InCall
    <3>2. [op[t] EXCEPT !.at = "stl"] = [at |-> "stl", size |-> op[t].size]
      BY <3>1
    <3>3. /\ op' = [op EXCEPT ![t] = [op[t] EXCEPT !.at = "stl"]]
          /\ UNCHANGED <<usedBytes, mspaceUsed>>
      BY <2>5 DEF MemalignFails
    <3> QED
      BY <3>2, <3>3, PeakKept
  <2>6. ASSUME StlAllocate(t) PROVE PeakInv' /\ UNCHANGED usedBytes
    <3>1. UNCHANGED <<usedBytes, mspaceUsed>>
      BY <2>6 DEF StlAllocate
    <3>2. CASE UNCHANGED op
      BY <3>1, <3>2 DEF PeakInv, InCall
    <3>3. ASSUME NEW b \in StlPlaces(op[t].size),
                 op' = [op EXCEPT ![t] =
                          [at |-> "stlcharge", block |-> b, seen |-> stlUsed]]
          PROVE  PeakInv'
      BY <3>1, <3>3, PeakKept
    <3> QED
      BY <2>6, <3>1, <3>2, <3>3 DEF StlAllocate
  <2>7. ASSUME StlCharge(t) \/ StlFree(t) PROVE PeakInv' /\ UNCHANGED usedBytes
    BY <1>1, <2>7, PeakKept DEF StlCharge, StlFree
  <2>8. ASSUME FreeWithoutMspace(t) PROVE PeakInv' /\ UNCHANGED usedBytes
    BY <2>8 DEF FreeWithoutMspace, PeakInv, InCall
  <2> QED
    BY <1>2, <1>6, <2>1, <2>2, <2>3, <2>4, <2>5, <2>6, <2>7, <2>8 DEF Step
<1> QED
  BY <1>2, <1>3, <1>4, <1>5, <1>6 DEF Next

(* With one thread the high-water mark only falls when the heap is set up,  *)
(* although two measures of use raise it. With two threads it may fall.     *)
THEOREM PeakCorrect ==
    ASSUME OneThread
    PROVE  Spec => PeakNeverFalls
<1>1. Init => PeakInv
  BY DEF Init, PeakInv, InCall, Idle
<1>2. CustodyInv /\ PeakInv /\ [Next]_vars
        => PeakInv' /\ [usedBytes' < usedBytes => ~mem /\ mem']_vars
  BY PeakStep
<1> QED
  BY <1>1, <1>2, CustodyCorrect, PTL DEF Spec, PeakNeverFalls
-----------------------------------------------------------------------------
(* Theorems about the counters of Heap: what m_mspaceUsedSize and           *)
(* m_stlUsedSize say of the blocks that are out, for any number of blocks,  *)
(* any sizes and any word. The sum of the blocks' sizes is a fold over a    *)
(* finite set; what the proofs need of it follows by taking, among the      *)
(* subsets that would go wrong, one with no other inside it.                *)

(* The sums over the subsets of a set, as the fold computes them: one       *)
(* element is taken off at a time.                                          *)
LEMMA LeastNat ==
    ASSUME NEW T \in SUBSET Nat, T # {}
    PROVE  \E x \in T : \A y \in T : x <= y
<1>1. IsWellFoundedOn(OpToRel(<, Nat), Nat)
  BY NatLessThanWellFounded
<1>2. PICK x \in T : \A y \in T : ~ (<<y, x>> \in OpToRel(<, Nat))
  BY <1>1, WFMin
<1>3. \A y \in T : ~(y < x)
  BY <1>2 DEF OpToRel
<1> QED
  BY <1>3

First(s) == CHOOSE x \in s : TRUE

AddsUp(g, D) ==
    g = [s \in D |-> IF s = {} THEN 0 ELSE First(s).size + g[s \ {First(s)}]]

UpTo(S, n) == {s \in SUBSET S : Cardinality(s) <= n}

Sums(S) == CHOOSE g : AddsUp(g, SUBSET S)

(* Bytes is the value of the recursive function at the whole set.           *)
LEMMA BytesIsSums == \A S : Bytes(S) = Sums(S)[S]
  BY DEF Bytes, MapThenSumSet, MapThenFoldSet, Sums, AddsUp, First

(* The element a sum takes first is one of the set.                         *)
LEMMA FirstIn == ASSUME NEW s, s # {} PROVE First(s) \in s
  BY DEF First

(* The recursive function of a sum exists on all subsets of a finite set.   *)
LEMMA SumsExist ==
    ASSUME NEW S, IsFiniteSet(S)
    PROVE  AddsUp(Sums(S), SUBSET S)
<1> DEFINE Missing == {n \in Nat : ~ \E g : AddsUp(g, UpTo(S, n))}
<1>1. \A s \in SUBSET S : IsFiniteSet(s) /\ Cardinality(s) \in Nat
  BY FS_Subset, FS_CardinalityType
<1>2. 0 \notin Missing
  <2>1. UpTo(S, 0) = {{}}
    BY <1>1, FS_EmptySet DEF UpTo
  <2>2. AddsUp([s \in {{}} |-> 0], {{}})
    BY DEF AddsUp
  <2> QED
    BY <2>1, <2>2
<1>3. ASSUME NEW n \in Nat, n + 1 \in Missing PROVE n \in Missing
  <2> SUFFICES ASSUME NEW g, AddsUp(g, UpTo(S, n))
               PROVE  \E h : AddsUp(h, UpTo(S, n + 1))
    BY <1>3
  <2> DEFINE h == [s \in UpTo(S, n + 1) |->
                     IF s = {} THEN 0
                     ELSE First(s).size + g[s \ {First(s)}]]
  <2>1. \A s \in UpTo(S, n) : h[s] = g[s]
    <3>1. ASSUME NEW s \in UpTo(S, n) PROVE s \in UpTo(S, n + 1)
      BY <1>1 DEF UpTo
    <3> QED
      BY <3>1 DEF AddsUp
  <2>2. \A s \in UpTo(S, n + 1) : s # {} => s \ {First(s)} \in UpTo(S, n)
    <3> SUFFICES ASSUME NEW s \in UpTo(S, n + 1), s # {}
                 PROVE  s \ {First(s)} \in UpTo(S, n)
      OBVIOUS
    <3>1. First(s) \in s /\ s \in SUBSET S /\ IsFiniteSet(s)
      BY <1>1, FirstIn DEF UpTo
    <3>2. Cardinality(s \ {First(s)}) = Cardinality(s) - 1
      BY <3>1, FS_RemoveElement
    <3>3. Cardinality(s) \in Nat /\ Cardinality(s) <= n + 1
      BY <1>1, <3>1 DEF UpTo
    <3> QED
      BY <3>1, <3>2, <3>3 DEF UpTo
  <2>3. AddsUp(h, UpTo(S, n + 1))
    BY <2>1, <2>2 DEF AddsUp
  <2> QED
    BY <2>3
<1>4. Missing = {}
  <2> SUFFICES ASSUME Missing # {} PROVE FALSE
    OBVIOUS
  <2>0. Missing \in SUBSET Nat
    OBVIOUS
  <2> HIDE DEF Missing
  <2>1. PICK n \in Missing : \A m \in Missing : n <= m
    BY <2>0, LeastNat
  <2>2. n \in Nat /\ n # 0
    BY <1>2, <2>0
  <2>3. n - 1 \in Nat /\ (n - 1) + 1 = n
    BY <2>2
  <2>4. n - 1 \in Missing
    BY <1>3, <2>3
  <2> QED
    BY <2>1, <2>2, <2>4
<1>5. UpTo(S, Cardinality(S)) = SUBSET S
  BY FS_Subset DEF UpTo
<1>6. Cardinality(S) \in Nat
  BY FS_CardinalityType
<1>7. \E g : AddsUp(g, UpTo(S, Cardinality(S)))
  BY <1>4, <1>6
<1>8. \E g : AddsUp(g, SUBSET S)
  BY <1>5, <1>7
<1> QED
  BY <1>8 DEF Sums

(* Among subsets of a finite set one has no other inside it.                *)
LEMMA SmallestSubset ==
    ASSUME NEW S, IsFiniteSet(S), NEW C \in SUBSET SUBSET S, C # {}
    PROVE  \E m \in C : \A u \in C : u \subseteq m => u = m
<1>1. IsWellFoundedOn(StrictSubsetOrdering(S), FiniteSubsetsOf(S))
  BY FS_StrictSubsetOrderingWellFounded
<1>2. C \subseteq FiniteSubsetsOf(S)
  BY FS_Subset DEF FiniteSubsetsOf
<1>3. PICK m \in C : \A u \in C : <<u, m>> \notin StrictSubsetOrdering(S)
  BY <1>1, <1>2, WFMin
<1>4. ASSUME NEW u \in C, u \subseteq m PROVE u = m
  <2>1. <<u, m>> \in (SUBSET S) \X (SUBSET S)
    OBVIOUS
  <2> QED
    BY <1>3, <1>4, <2>1 DEF StrictSubsetOrdering
<1> QED
  BY <1>4

(* The sum of a subset does not depend on the set it is a subset of.        *)
LEMMA SumsAgree ==
    ASSUME NEW S, IsFiniteSet(S), NEW T \in SUBSET S
    PROVE  Sums(S)[T] = Bytes(T)
<1> DEFINE g == Sums(S)
           h == Sums(T)
           Differ == {s \in SUBSET T : g[s] # h[s]}
<1>1. AddsUp(g, SUBSET S) /\ AddsUp(h, SUBSET T)
  BY FS_Subset, SumsExist
<1>2. \A s \in SUBSET T :
         /\ g[s] = IF s = {} THEN 0 ELSE First(s).size + g[s \ {First(s)}]
         /\ h[s] = IF s = {} THEN 0 ELSE First(s).size + h[s \ {First(s)}]
  BY <1>1 DEF AddsUp
<1>3. Differ = {}
  <2> SUFFICES ASSUME Differ # {} PROVE FALSE
    OBVIOUS
  <2>0. Differ \in SUBSET SUBSET T /\ IsFiniteSet(T)
    BY FS_Subset
  <2>1. PICK m \in Differ : \A u \in Differ : u \subseteq m => u = m
    <3> HIDE DEF Differ
    <3> QED
      BY <2>0, SmallestSubset
  <2>2. m # {} /\ First(m) \in m /\ m \in SUBSET T /\ g[m] # h[m]
    BY <1>2, FirstIn
  <2>3. g[m \ {First(m)}] = h[m \ {First(m)}]
    BY <2>1, <2>2
  <2> QED
    BY <1>2, <2>2, <2>3
<1> QED
  BY <1>3, BytesIsSums

(* The equation of Bytes: its first block, and the rest.                    *)
LEMMA BytesFirst ==
    ASSUME NEW T, IsFiniteSet(T)
    PROVE  Bytes(T) = IF T = {} THEN 0
                      ELSE First(T).size + Bytes(T \ {First(T)})
<1>1. AddsUp(Sums(T), SUBSET T)
  BY SumsExist
<1>2. Sums(T)[T] = IF T = {} THEN 0
                   ELSE First(T).size + Sums(T)[T \ {First(T)}]
  BY <1>1 DEF AddsUp
<1> QED
  BY <1>2, SumsAgree

Sized(S) == \A x \in S : x.size \in Nat

(* The sizes of finitely many blocks add up to a natural number.            *)
LEMMA BytesIsNat ==
    ASSUME NEW S, IsFiniteSet(S), Sized(S)
    PROVE  Bytes(S) \in Nat
<1> DEFINE Bad == {s \in SUBSET S : Bytes(s) \notin Nat}
<1> SUFFICES ASSUME Bad # {} PROVE FALSE
  OBVIOUS
<1>0. Bad \in SUBSET SUBSET S
  OBVIOUS
<1>1. PICK m \in Bad : \A u \in Bad : u \subseteq m => u = m
  <2> HIDE DEF Bad
  <2> QED
    BY <1>0, SmallestSubset
<1>2. IsFiniteSet(m) /\ m \in SUBSET S /\ Bytes(m) \notin Nat
  BY FS_Subset
<1>3. m # {} /\ First(m) \in m
  BY <1>2, BytesFirst, FirstIn
<1>4. Bytes(m \ {First(m)}) \in Nat
  BY <1>1, <1>2, <1>3
<1> QED
  BY <1>2, <1>3, <1>4, BytesFirst DEF Sized

(* Any element may be taken off.                                            *)
LEMMA BytesTaken ==
    ASSUME NEW S, IsFiniteSet(S), Sized(S), NEW x \in S
    PROVE  Bytes(S) = x.size + Bytes(S \ {x})
<1> DEFINE Bad == {s \in SUBSET S :
                     \E y \in s : Bytes(s) # y.size + Bytes(s \ {y})}
<1> SUFFICES ASSUME Bad # {} PROVE FALSE
  OBVIOUS
<1>0. Bad \in SUBSET SUBSET S
  OBVIOUS
<1>1. PICK m \in Bad : \A u \in Bad : u \subseteq m => u = m
  <2> HIDE DEF Bad
  <2> QED
    BY <1>0, SmallestSubset
<1>2. \A s \in SUBSET S : IsFiniteSet(s) /\ Bytes(s) \in Nat
  BY FS_Subset, BytesIsNat DEF Sized
<1>3. m \in SUBSET S
  OBVIOUS
<1>4. PICK y \in m : Bytes(m) # y.size + Bytes(m \ {y})
  OBVIOUS
<1> DEFINE f == First(m)
<1>5. f \in m /\ Bytes(m) = f.size + Bytes(m \ {f})
  BY <1>2, <1>3, BytesFirst, FirstIn
<1>6. f # y
  BY <1>4, <1>5
<1>7. \A u \in SUBSET m : u # m => \A z \in u : Bytes(u) = z.size + Bytes(u \ {z})
  BY <1>1, <1>3
<1> HIDE DEF Bad, f
<1>8. Bytes(m \ {f}) = y.size + Bytes((m \ {f}) \ {y})
  BY <1>5, <1>6, <1>7
<1>9. Bytes(m \ {y}) = f.size + Bytes((m \ {y}) \ {f})
  BY <1>5, <1>6, <1>7
<1>10. Bytes((m \ {f}) \ {y}) = Bytes((m \ {y}) \ {f})
  <2>1. (m \ {f}) \ {y} = (m \ {y}) \ {f}
    OBVIOUS
  <2> QED
    BY <2>1
<1>11. y.size \in Nat /\ f.size \in Nat /\ Bytes((m \ {f}) \ {y}) \in Nat
  BY <1>2, <1>3, <1>5 DEF Sized
<1> QED
  BY <1>4, <1>5, <1>8, <1>9, <1>10, <1>11

(* No blocks have no bytes.                                                 *)
LEMMA BytesOfNone == Bytes({}) = 0
  BY BytesFirst, FS_EmptySet

(* A block that was not in the set adds its size.                           *)
LEMMA BytesAdded ==
    ASSUME NEW S, IsFiniteSet(S), Sized(S), NEW x, x.size \in Nat, x \notin S
    PROVE  Bytes(S \cup {x}) = Bytes(S) + x.size
<1>1. IsFiniteSet(S \cup {x}) /\ Sized(S \cup {x})
  BY FS_AddElement DEF Sized
<1>2. (S \cup {x}) \ {x} = S
  OBVIOUS
<1>3. Bytes(S \cup {x}) = x.size + Bytes(S)
  BY <1>1, <1>2, BytesTaken
<1> QED
  BY <1>3, BytesIsNat
-----------------------------------------------------------------------------
(* Arithmetic modulo Word: size_t wraps.                                    *)
LEMMA WordIsPositive == Word \in Nat /\ Word > 0
<1>1. Word \in Nat /\ MaxSize \in Nat /\ Word > MaxSize
  BY HeapAssumption
<1> QED
  BY <1>1

(* A remainder fits the word.                                               *)
LEMMA ModRange ==
    ASSUME NEW a \in Int
    PROVE  a % Word \in 0 .. Word - 1
  BY WordIsPositive

(* What fits the word is its own remainder.                                 *)
LEMMA ModSmall ==
    ASSUME NEW a \in 0 .. Word - 1
    PROVE  a % Word = a
  BY WordIsPositive

(* A number is its remainder and some words.                                *)
LEMMA Quotient ==
    ASSUME NEW a \in Int
    PROVE  \E q \in Int : a = (q * Word) + (a % Word)
<1>1. (a \div Word) \in Int /\ a = (Word * (a \div Word)) + (a % Word)
  BY WordIsPositive
<1>2. Word * (a \div Word) = (a \div Word) * Word
  BY <1>1, WordIsPositive
<1> QED
  BY <1>1, <1>2

(* The only multiple of Word closer to zero than Word is zero.              *)
LEMMA Multiples ==
    ASSUME NEW k \in Int, k * Word < Word, -Word < k * Word
    PROVE  k = 0
<1>1. CASE k >= 1
  <2>1. (k - 1) * Word >= 0
    BY <1>1, WordIsPositive
  <2>2. (k - 1) * Word = (k * Word) - Word
    BY WordIsPositive
  <2> QED
    BY <2>1, <2>2, WordIsPositive
<1>2. CASE k <= -1
  <2>1. (-k - 1) * Word >= 0
    BY <1>2, WordIsPositive
  <2>2. (-k - 1) * Word = -(k * Word) - Word
    BY WordIsPositive
  <2> QED
    BY <2>1, <2>2, WordIsPositive
<1> QED
  BY <1>1, <1>2

(* Numbers that differ by whole words have one remainder.                   *)
LEMMA SameRemainder ==
    ASSUME NEW a \in Int, NEW b \in Int, NEW q \in Int, a = b + (q * Word)
    PROVE  a % Word = b % Word
<1> DEFINE r == a % Word
           s == b % Word
<1>1. PICK x \in Int : a = (x * Word) + r
  BY Quotient
<1>2. PICK y \in Int : b = (y * Word) + s
  BY Quotient
<1> DEFINE k == x - y - q
<1>3. r \in 0 .. Word - 1 /\ s \in 0 .. Word - 1 /\ k \in Int
  BY ModRange
<1>4. k * Word = (x * Word) - (y * Word) - (q * Word)
  BY WordIsPositive
<1>5. (x * Word) \in Int /\ (y * Word) \in Int /\ (q * Word) \in Int
  BY WordIsPositive
<1> HIDE DEF r, s, k
<1>6. k * Word = s - r
  BY <1>1, <1>2, <1>3, <1>4, <1>5
<1>7. k = 0
  BY <1>3, <1>6, Multiples, WordIsPositive
<1>8. k * Word = 0
  BY <1>7, WordIsPositive
<1>9. r = s
  BY <1>3, <1>6, <1>8
<1> QED
  BY <1>9 DEF r, s

(* Wrapping a term of a sum first, or not, is the same.                     *)
LEMMA ModAdd ==
    ASSUME NEW a \in Int, NEW b \in Int
    PROVE  ((a % Word) + b) % Word = (a + b) % Word
<1> DEFINE r == a % Word
<1>1. PICK x \in Int : a = (x * Word) + r
  BY Quotient
<1>2. r \in Int /\ x * Word \in Int
  BY ModRange, WordIsPositive
<1> HIDE DEF r
<1>3. a + b = (r + b) + (x * Word) /\ a + b \in Int /\ r + b \in Int
  BY <1>1, <1>2
<1>4. (a + b) % Word = (r + b) % Word
  BY <1>3, SameRemainder
<1> QED
  BY <1>4 DEF r

(* Wrapping before a subtraction changes nothing after it.                  *)
LEMMA ModSub ==
    ASSUME NEW a \in Int, NEW b \in Int
    PROVE  (a - (b % Word)) % Word = (a - b) % Word
<1> DEFINE r == b % Word
<1>1. PICK x \in Int : b = (x * Word) + r
  BY Quotient
<1>2. r \in Int /\ x * Word \in Int
  BY ModRange, WordIsPositive
<1> HIDE DEF r
<1>3. a - r = (a - b) + (x * Word) /\ a - r \in Int /\ a - b \in Int
  BY <1>1, <1>2
<1>4. (a - r) % Word = (a - b) % Word
  BY <1>3, SameRemainder
<1> QED
  BY <1>4 DEF r
-----------------------------------------------------------------------------
(* Finitely many blocks are out, and what a thread read of a counter fits   *)
(* in one.                                                                  *)
Reading == {"charge", "release", "stlcharge", "stlfree", "refresh", "peek"}

TypeInv ==
    /\ TypeOK
    /\ IsFiniteSet(chunks) /\ IsFiniteSet(stlBlocks)
    /\ \A t \in Threads : InCall(t, Reading) => op[t].seen \in 0 .. Word - 1

(* The blocks of both allocators are finitely many and have sizes.          *)
LEMMA BlocksAreSized ==
    ASSUME TypeInv
    PROVE  /\ IsFiniteSet(chunks) /\ Sized(chunks) /\ Bytes(chunks) \in Nat
           /\ IsFiniteSet(stlBlocks) /\ Sized(stlBlocks)
           /\ Bytes(stlBlocks) \in Nat
<1>1. IsFiniteSet(chunks) /\ IsFiniteSet(stlBlocks)
  BY DEF TypeInv
<1>2. Sized(chunks) /\ Sized(stlBlocks)
  BY DEF TypeInv, TypeOK, Block, Sized
<1> QED
  BY <1>1, <1>2, BytesIsNat

(* What mspace_memalign returns is new and has a size.                      *)
LEMMA ChunksAreNew ==
    ASSUME TypeInv, NEW size \in Sizes, NEW c \in FreeChunks(size)
    PROVE  c \in Block /\ c \notin chunks
<1>1. base \in Nat /\ maxSize \in Nat
  BY HeapAssumption DEF TypeInv, TypeOK
<1>2. size \in Nat /\ size > 0 /\ Tag \in Nat /\ Slack \in Nat
  BY HeapAssumption
<1>3. /\ c \in [addr : base + 1 .. base + maxSize - 1,
                size : size + Tag .. size + Tag + Slack]
      /\ \A d \in chunks : Extent(c) \cap Extent(d) = {}
  BY DEF FreeChunks
<1>4. c \in Block /\ c.size > 0
  BY <1>1, <1>2, <1>3 DEF Block
<1>5. c.addr \in Extent(c)
  BY <1>4 DEF Extent, Block
<1> QED
  BY <1>3, <1>4, <1>5

(* The runtime gives a block that was not there, of the size asked for.     *)
LEMMA PlacesAreNew ==
    ASSUME NEW size \in Sizes, NEW b \in StlPlaces(size)
    PROVE  b \in Block /\ b \notin stlBlocks /\ b.size = size
<1>1. b.addr \in Nat /\ b.size \in Nat
  BY HeapAssumption DEF StlPlaces
<1> QED
  BY <1>1 DEF StlPlaces, Block

(* What one step of a thread leaves of the types.                           *)
LEMMA TypeKept ==
    ASSUME CustodyInv', TypeInv, OpInv,
           NEW t \in Threads, NEW e, op' = [op EXCEPT ![t] = e],
           e.at \in {"idle", "memalign", "charge", "stl", "stlcharge",
                     "stlfree", "free", "release", "refresh", "peek"},
           e.at \in Reading => e.seen \in 0 .. Word - 1,
           UNCHANGED <<fields, history>>,
           exhausted' \in BOOLEAN, halted' \in BOOLEAN,
           lock' \in {lock, t, NoThread},
           {usedBytes', mspaceUsed', stlUsed'} \subseteq 0 .. Word - 1,
           IsFiniteSet(chunks'), IsFiniteSet(stlBlocks'),
           chunks' \cup stlBlocks' \subseteq Block
    PROVE  TypeInv'
<1>1. \A u \in Threads : op'[u] = IF u = t THEN e ELSE op[u]
  BY DEF OpInv
<1>2. held' \subseteq Block
  BY DEF CustodyInv, NoBlockIsLost
<1>3. lock' \in Threads \cup {NoThread}
  BY DEF TypeInv, TypeOK
<1>4. {usedBytes', mspaceUsed', stlUsed', abandoned', forgotten'}
         \subseteq 0 .. Word - 1
  BY DEF TypeInv, TypeOK, history
<1>5. \A u \in Threads :
         /\ op'[u].at \in {"idle", "memalign", "charge", "stl", "stlcharge",
                           "stlfree", "free", "release", "refresh", "peek"}
         /\ op'[u].at \in Reading => op'[u].seen \in 0 .. Word - 1
  BY <1>1 DEF TypeInv, TypeOK, InCall
<1> QED
  BY <1>2, <1>3, <1>4, <1>5 DEF TypeInv, TypeOK, InCall, fields

(* The calls of the heap's owner keep the types.                            *)
LEMMA TypeOwner ==
    ASSUME CustodyInv', TypeInv, Owner
    PROVE  TypeInv'
<1>1. UNCHANGED <<op, lock, exhausted, stlBlocks>> /\ chunks' \in {chunks, {}}
  BY DEF Owner, Initialize, Terminate, Clear, memory
<1> DEFINE AreaTyped ==
             /\ mem' \in BOOLEAN /\ clearAllowed' \in BOOLEAN
             /\ halted' \in BOOLEAN
             /\ base' \in Bases \cup {0} /\ maxSize' \in {0, MaxSize}
             /\ mem' <=> base' # 0
<1>2. AreaTyped
  <2>1. ASSUME NEW b \in Bases, NEW f \in InitFlags, Initialize(b, f)
        PROVE  AreaTyped
    <3>1. b # 0
      BY HeapAssumption
    <3>2. InitFlags \subseteq BOOLEAN
      BY HeapAssumption
    <3>3. f \in BOOLEAN
      BY <3>2
    <3>4. CASE mem
      BY <2>1, <3>4 DEF Initialize, fields, TypeInv, TypeOK
    <3>5. CASE ~mem
      <4>1. /\ mem' = TRUE /\ base' = b /\ maxSize' = MaxSize
            /\ clearAllowed' = f /\ halted' = halted
        BY <2>1, <3>5 DEF Initialize
      <4>2. halted \in BOOLEAN
        BY DEF TypeInv, TypeOK
      <4> QED
        BY <3>1, <3>3, <4>1, <4>2
    <3> QED
      BY <3>4, <3>5
  <2>2. CASE Terminate
    BY <2>2 DEF Terminate, TypeInv, TypeOK
  <2>3. CASE Clear
    BY <2>3 DEF Clear, fields, TypeInv, TypeOK
  <2> QED
    BY <2>1, <2>2, <2>3 DEF Owner
<1>3. Bytes(chunks) \in Nat /\ Bytes(stlBlocks) \in Nat
  BY BlocksAreSized
<1>4. /\ (abandoned + Bytes(chunks)) % Word \in 0 .. Word - 1
      /\ Bytes(stlBlocks) % Word \in 0 .. Word - 1
      /\ 0 \in 0 .. Word - 1
  <2>1. abandoned \in Int
    BY DEF TypeInv, TypeOK
  <2>2. abandoned + Bytes(chunks) \in Int
    BY <1>3, <2>1
  <2> QED
    BY <1>3, <2>2, ModRange, WordIsPositive
<1>5. {usedBytes', mspaceUsed', stlUsed', abandoned', forgotten'}
         \subseteq 0 .. Word - 1
  BY <1>4 DEF Owner, Initialize, Terminate, Clear, history, TypeInv, TypeOK
<1>6. chunks' \cup stlBlocks' \subseteq Block
  BY <1>1 DEF TypeInv, TypeOK
<1>7. held' \subseteq Block
  BY <1>6 DEF CustodyInv, NoBlockIsLost
<1>8. IsFiniteSet(chunks') /\ IsFiniteSet(stlBlocks')
  BY <1>1, FS_EmptySet DEF TypeInv
<1> QED
  BY <1>1, <1>2, <1>5, <1>6, <1>7, <1>8 DEF TypeInv, TypeOK, InCall

(* The begin of a thread's call keeps the types.                            *)
LEMMA TypeCall ==
    ASSUME CustodyInv, CustodyInv', TypeInv, NEW t \in Threads, Call(t)
    PROVE  TypeInv'
<1> USE DEF CustodyInv
<1>1. /\ UNCHANGED <<fields, usedBytes, mspaceUsed, stlUsed, exhausted, memory,
                     history>>
      /\ halted' \in BOOLEAN /\ lock' \in {lock, t, NoThread}
  BY DEF Call, Allocate, Free, BeginRefresh, BeginPeek, BeginLock, TypeInv,
         TypeOK
<1>2. /\ {usedBytes, mspaceUsed, stlUsed} \subseteq 0 .. Word - 1
      /\ exhausted \in BOOLEAN
      /\ IsFiniteSet(chunks) /\ IsFiniteSet(stlBlocks)
      /\ chunks \cup stlBlocks \subseteq Block
  BY DEF TypeInv, TypeOK
<1>3. ASSUME NEW e, op' = [op EXCEPT ![t] = e],
             e.at \in {"memalign", "stlfree", "free", "refresh", "peek"},
             e.at \in Reading => e.seen \in 0 .. Word - 1
      PROVE  TypeInv'
  BY <1>1, <1>2, <1>3, TypeKept DEF memory
<1>4. ASSUME NEW size \in Sizes, Allocate(t, size) PROVE TypeInv'
  <2>1. CASE UNCHANGED op
    <3>1. held' = held /\ lock' = lock
      BY <1>4 DEF Allocate
    <3> QED
      BY <1>1, <2>1, <3>1 DEF TypeInv, TypeOK, InCall, fields, memory, history
  <2>2. CASE op' = [op EXCEPT ![t] = [at |-> "memalign", size |-> size]]
    BY <1>3, <2>2 DEF Reading
  <2> QED
    BY <1>4, <2>1, <2>2 DEF Allocate
<1>5. ASSUME NEW b \in held, Free(t, b) PROVE TypeInv'
  <2> DEFINE e == IF OutsideArea(b.addr)
                  THEN [at |-> "stlfree", block |-> b, seen |-> stlUsed]
                  ELSE [at |-> "free", block |-> b]
  <2>1. op' = [op EXCEPT ![t] = e]
    BY <1>5 DEF Free
  <2>2. /\ e.at \in {"stlfree", "free"}
        /\ e.at \in Reading => e.seen \in 0 .. Word - 1
    BY <1>2 DEF Reading
  <2> HIDE DEF e
  <2> QED
    BY <1>3, <2>1, <2>2
<1>6. ASSUME BeginRefresh(t) PROVE TypeInv'
  <2>1. PICK uordblks \in Bytes(chunks) .. maxSize :
           op' = [op EXCEPT ![t] = [at |-> "refresh", seen |-> uordblks,
                                    raise |-> usedBytes <= uordblks]]
    BY <1>6 DEF BeginRefresh
  <2>2. uordblks \in 0 .. Word - 1
    <3>1. Bytes(chunks) \in Nat
      BY BlocksAreSized
    <3>2. maxSize \in Nat /\ maxSize < Word /\ Word \in Nat
      BY HeapAssumption DEF TypeInv, TypeOK
    <3> QED
      BY <3>1, <3>2
  <2> QED
    BY <1>3, <2>1, <2>2
<1>7. ASSUME BeginPeek(t) PROVE TypeInv'
  BY <1>2, <1>3, <1>7 DEF BeginPeek
<1> QED
  BY <1>4, <1>5, <1>6, <1>7 DEF Call

(* Every further step of a thread's call keeps the types.                   *)
LEMMA TypeGoesOn ==
    ASSUME CustodyInv, CustodyInv', TypeInv, NEW t \in Threads, Step(t)
    PROVE  TypeInv'
<1> USE DEF CustodyInv
<1>1. /\ {usedBytes, mspaceUsed, stlUsed} \subseteq 0 .. Word - 1
      /\ exhausted \in BOOLEAN /\ halted \in BOOLEAN
      /\ IsFiniteSet(chunks) /\ IsFiniteSet(stlBlocks)
      /\ chunks \cup stlBlocks \subseteq Block
  BY DEF TypeInv, TypeOK
<1>2. Idle.at = "idle" /\ Idle.at \notin Reading
  BY DEF Idle, Reading
<1>3. /\ UNCHANGED <<fields, history>>
      /\ exhausted' \in BOOLEAN /\ halted' \in BOOLEAN
      /\ lock' \in {lock, t, NoThread}
  BY <1>1 DEF Step, Memalign, Charge, MemalignFails, StlAllocate, StlCharge,
              StlFree, BeginFree, MspaceFree, FreeWithoutMspace, Refresh, Peek,
              BeginLock, EndLock
<1>4. ASSUME Memalign(t) PROVE TypeInv'
  <2>1. op[t].size \in Sizes
    BY <1>4 DEF Memalign, OpInv, InCall
  <2>2. PICK c \in FreeChunks(op[t].size) :
           /\ chunks' = chunks \cup {c}
           /\ op' = [op EXCEPT ![t] =
                       [at |-> "charge", block |-> c, seen |-> mspaceUsed]]
    BY <1>4 DEF Memalign
  <2>3. c \in Block
    BY <2>1, ChunksAreNew
  <2>4. IsFiniteSet(chunks')
    BY <1>1, <2>2, FS_AddElement
  <2>5. UNCHANGED <<usedBytes, mspaceUsed, stlUsed, stlBlocks>>
    BY <1>4 DEF Memalign
  <2> QED
    BY <1>1, <1>3, <2>2, <2>3, <2>4, <2>5, TypeKept
<1>5. ASSUME StlAllocate(t) PROVE TypeInv'
  <2>1. op[t].size \in Sizes
    BY <1>5 DEF StlAllocate, OpInv, InCall
  <2>2. UNCHANGED <<usedBytes, mspaceUsed, stlUsed, chunks, held, lock>>
    BY <1>5 DEF StlAllocate
  <2>3. CASE UNCHANGED <<op, stlBlocks>>
    BY <1>3, <2>2, <2>3 DEF TypeInv, TypeOK, InCall, fields, history
  <2>4. ASSUME NEW b \in StlPlaces(op[t].size),
               stlBlocks' = stlBlocks \cup {b},
               op' = [op EXCEPT ![t] =
                        [at |-> "stlcharge", block |-> b, seen |-> stlUsed]]
        PROVE  TypeInv'
    <3>1. b \in Block
      BY <2>1, PlacesAreNew
    <3>2. IsFiniteSet(stlBlocks')
      BY <1>1, <2>4, FS_AddElement
    <3> QED
      BY <1>1, <1>3, <2>2, <2>4, <3>1, <3>2, TypeKept
  <2> QED
    BY <1>5, <2>3, <2>4 DEF StlAllocate
<1>6. ASSUME MemalignFails(t) PROVE TypeInv'
  <2>1. op[t] = [at |-> op[t].at, size |-> op[t].size]
    BY <1>6 DEF MemalignFails, OpInv, InCall
  <2> DEFINE e == [op[t] EXCEPT !.at = "stl"]
  <2>2. e.at = "stl" /\ e.at \notin Reading
    BY <2>1 DEF Reading
  <2>3. /\ op' = [op EXCEPT ![t] = e]
        /\ UNCHANGED <<usedBytes, mspaceUsed, stlUsed, memory>>
    BY <1>6 DEF MemalignFails
  <2> HIDE DEF e
  <2> QED
    BY <1>1, <1>3, <2>2, <2>3, TypeKept DEF memory
<1>7. ASSUME BeginFree(t) PROVE TypeInv'
  <2>1. /\ op' = [op EXCEPT ![t] = [at |-> "release", block |-> op[t].block,
                                    seen |-> mspaceUsed]]
        /\ UNCHANGED <<usedBytes, mspaceUsed, stlUsed, memory>>
    BY <1>7 DEF BeginFree
  <2> QED
    BY <1>1, <1>3, <2>1, TypeKept DEF memory
<1>8. ASSUME op' = [op EXCEPT ![t] = Idle],
             {usedBytes', mspaceUsed', stlUsed'} \subseteq 0 .. Word - 1,
             chunks' \subseteq chunks, stlBlocks' \subseteq stlBlocks
      PROVE  TypeInv'
  <2>1. IsFiniteSet(chunks') /\ IsFiniteSet(stlBlocks')
    BY <1>1, <1>8, FS_Subset
  <2> QED
    BY <1>1, <1>2, <1>3, <1>8, <2>1, TypeKept
<1>9. ASSUME Charge(t) \/ StlCharge(t) \/ MspaceFree(t) \/ StlFree(t)
      PROVE  TypeInv'
  <2>1. op[t].seen \in 0 .. Word - 1
    BY <1>9 DEF Charge, StlCharge, MspaceFree, StlFree, TypeInv, Reading, InCall
  <2>2. op[t].block.size \in Nat
    <3>1. op[t].block \in chunks \cup stlBlocks
      BY <1>9 DEF Charge, StlCharge, MspaceFree, StlFree, HomeInv, InCall,
                  Misjudged
    <3> QED
      BY <1>1, <3>1 DEF Block
  <2>3. /\ (op[t].seen + op[t].block.size) % Word \in 0 .. Word - 1
        /\ (op[t].seen - op[t].block.size) % Word \in 0 .. Word - 1
    BY <2>1, <2>2, ModRange
  <2> QED
    BY <1>1, <1>8, <1>9, <2>3 DEF Charge, StlCharge, MspaceFree, StlFree, memory
<1>10. ASSUME Refresh(t) \/ Peek(t) PROVE TypeInv'
  <2>1. op[t].seen \in 0 .. Word - 1
    BY <1>10 DEF Refresh, Peek, TypeInv, Reading, InCall
  <2> QED
    BY <1>1, <1>8, <1>10, <2>1 DEF Refresh, Peek, memory
<1>11. ASSUME FreeWithoutMspace(t) PROVE TypeInv'
  <2>1. UNCHANGED <<usedBytes, mspaceUsed, stlUsed, lock, op, memory, held>>
    BY <1>11 DEF FreeWithoutMspace
  <2> QED
    BY <1>3, <2>1 DEF TypeInv, TypeOK, InCall, fields, memory, history
<1> QED
  BY <1>4, <1>5, <1>6, <1>7, <1>9, <1>10, <1>11 DEF Step

(* Every variable of the heap has its type: the area's address is set while *)
(* there is an area, and no counter leaves the word, whatever is freed in   *)
(* whatever order.                                                          *)
THEOREM TypeInvCorrect == Spec => []TypeInv
<1>1. Init => TypeInv
  <2> SUFFICES ASSUME Init PROVE TypeInv
    OBVIOUS
  <2>1. IsFiniteSet(chunks) /\ IsFiniteSet(stlBlocks)
    BY FS_EmptySet DEF Init
  <2>2. \A t \in Threads : op[t].at = "idle"
    BY DEF Init, Idle
  <2>3. {usedBytes, mspaceUsed, stlUsed, abandoned, forgotten}
           \subseteq 0 .. Word - 1
    BY WordIsPositive DEF Init
  <2> QED
    BY <2>1, <2>2, <2>3 DEF Init, TypeInv, TypeOK, InCall, Reading
<1>2. CustodyInv /\ CustodyInv' /\ TypeInv /\ [Next]_vars => TypeInv'
  <2> SUFFICES ASSUME CustodyInv, CustodyInv', TypeInv, [Next]_vars
               PROVE  TypeInv'
    OBVIOUS
  <2>1. CASE UNCHANGED vars
    BY <2>1 DEF vars, fields, memory, history, TypeInv, TypeOK, InCall
  <2>2. CASE Next
    BY <2>2, TypeOwner, TypeCall, TypeGoesOn DEF Next
  <2> QED
    BY <2>1, <2>2
<1> QED
  BY <1>1, <1>2, CustodyCorrect, PTL DEF Spec

(* Every reachable state of Heap has its type; the counters fit their word  *)
(* whatever was charged and released (Heap.cpp:110, 168).                   *)
THEOREM TypeCorrect == Spec => []TypeOK
<1>1. TypeInv => TypeOK
  BY DEF TypeInv
<1> QED
  BY <1>1, TypeInvCorrect, PTL
-----------------------------------------------------------------------------
(* A block that comes into an allocator, or leaves it, moves the sum by its *)
(* size, on a counter that wraps as on one that does not.                   *)
LEMMA BlockEnters ==
    ASSUME NEW S, IsFiniteSet(S), Sized(S), NEW x, x.size \in Nat, x \notin S,
           NEW k \in Int
    PROVE  (((Bytes(S) + k) % Word) + x.size) % Word = (Bytes(S \cup {x}) + k) % Word
<1> DEFINE n == Bytes(S)
           m == Bytes(S \cup {x})
<1>1. n \in Nat /\ m = n + x.size
  BY BytesAdded, BytesIsNat
<1> HIDE DEF n, m
<1>2. (n + k) + x.size = m + k /\ n + k \in Int /\ x.size \in Int
  BY <1>1
<1>3. (((n + k) % Word) + x.size) % Word = ((n + k) + x.size) % Word
  BY <1>2, ModAdd, Zenon
<1>4. (((n + k) % Word) + x.size) % Word = (m + k) % Word
  BY <1>2, <1>3, Zenon
<1> QED
  BY <1>4 DEF n, m

(* A block that leaves an allocator takes its size off the counter.         *)
LEMMA BlockLeaves ==
    ASSUME NEW S, IsFiniteSet(S), Sized(S), NEW x \in S, NEW k \in Int
    PROVE  (((Bytes(S) + k) % Word) - x.size) % Word = (Bytes(S \ {x}) + k) % Word
<1> DEFINE n == Bytes(S)
           m == Bytes(S \ {x})
           d == -x.size
<1>1. x.size \in Nat
  BY DEF Sized
<1>2. IsFiniteSet(S \ {x}) /\ Sized(S \ {x})
  BY FS_RemoveElement DEF Sized
<1>3. m \in Nat /\ n = x.size + m
  BY <1>2, BytesTaken, BytesIsNat
<1>4. d \in Int /\ \A r \in Int : r + d = r - x.size
  BY <1>1
<1> HIDE DEF n, m, d
<1>5. (n + k) + d = m + k /\ n + k \in Int
  BY <1>1, <1>3 DEF d
<1>6. (((n + k) % Word) + d) % Word = (m + k) % Word
  <2>1. (((n + k) % Word) + d) % Word = ((n + k) + d) % Word
    BY <1>4, <1>5, ModAdd, Zenon
  <2> QED
    BY <1>5, <2>1, Zenon
<1>7. (n + k) % Word \in Int
  BY <1>5, ModRange
<1>8. (((n + k) % Word) - x.size) % Word = (m + k) % Word
  BY <1>4, <1>6, <1>7
<1> QED
  BY <1>8 DEF n, m
-----------------------------------------------------------------------------
(* The mspace's counter through the calls that change it: between the two   *)
(* ends of the lock what the caller read is the counter, and it is short of *)
(* a chunk exactly while the chunk's caller has not charged it.             *)
MspaceTotal == (Bytes(chunks) + abandoned) % Word

MspaceInv ==
    /\ \A t \in Threads :
          /\ InCall(t, {"charge", "release"}) => op[t].seen = mspaceUsed
          /\ InCall(t, {"charge"}) =>
                (mspaceUsed + op[t].block.size) % Word = MspaceTotal
    /\ (\A t \in Threads : ~InCall(t, {"charge"})) => mspaceUsed = MspaceTotal

(* Whether one thread at a time is between reading the counter and writing  *)
(* it: under the lock, or because there is one thread.                      *)
Serial == HasLock \/ OneThread

NoOther(t, labels) == \A u \in Threads : u # t => ~InCall(u, labels)

(* Where critical sections are serial, who is in one is alone in one.       *)
LEMMA AloneInside ==
    ASSUME Serial, LockInv, NEW t \in Threads,
           BeginLock(t) \/ InCall(t, {"charge", "release"})
    PROVE  NoOther(t, {"charge", "release"})
  BY HeapAssumption DEF Serial, OneThread, LockInv, BeginLock, InCall, NoOther

(* A step of a call outside the section of the counter keeps MspaceInv.     *)
LEMMA MspaceKept ==
    ASSUME OpInv, MspaceInv, NEW t \in Threads, NEW e, op' = [op EXCEPT ![t] = e],
           UNCHANGED <<mspaceUsed, chunks, abandoned>>,
           op[t].at \notin {"charge", "release"}, e.at \notin {"charge", "release"}
    PROVE  MspaceInv'
<1>1. \A u \in Threads : op'[u] = IF u = t THEN e ELSE op[u]
  BY DEF OpInv
<1>2. (\A u \in Threads : ~(op'[u].at \in {"charge"}))
         => (\A u \in Threads : ~(op[u].at \in {"charge"}))
  BY <1>1
<1> QED
  BY <1>1, <1>2 DEF MspaceInv, InCall, MspaceTotal

(* When the thread inside is done, or before it has done anything, the      *)
(* counter is the total.                                                    *)
LEMMA MspaceSettled ==
    ASSUME OpInv, NEW t \in Threads, NEW e, op' = [op EXCEPT ![t] = e],
           NoOther(t, {"charge", "release"}), e.at # "charge",
           e.at = "release" => e.seen = mspaceUsed',
           mspaceUsed' = MspaceTotal'
    PROVE  MspaceInv'
<1>1. \A u \in Threads : op'[u] = IF u = t THEN e ELSE op[u]
  BY DEF OpInv
<1> QED
  BY <1>1 DEF MspaceInv, InCall, NoOther

(* Every step keeps MspaceInv.                                              *)
LEMMA MspaceStep ==
    ASSUME Serial, CustodyInv, TypeInv, LockInv, MspaceInv, [Next]_vars
    PROVE  MspaceInv'
<1> USE DEF CustodyInv
<1>1. Idle.at = "idle"
  BY DEF Idle
<1>2. /\ IsFiniteSet(chunks) /\ Sized(chunks) /\ Bytes(chunks) \in Nat
      /\ abandoned \in Int /\ abandoned \in 0 .. Word - 1
  BY BlocksAreSized DEF TypeInv, TypeOK
<1>3. CASE UNCHANGED vars
  BY <1>3 DEF vars, memory, history, MspaceInv, MspaceTotal, InCall
<1>4. CASE Owner
  <2>1. UNCHANGED op /\ \A t \in Threads : op[t].at = "idle"
    BY <1>1, <1>4 DEF Owner, Initialize, Terminate, Clear, AllIdle
  <2>2. mspaceUsed = MspaceTotal
    BY <2>1 DEF MspaceInv, InCall
  <2>3. mspaceUsed' = MspaceTotal'
    <3>1. CASE Terminate
      <4>1. /\ chunks' = {} /\ mspaceUsed' = mspaceUsed
            /\ abandoned' = (abandoned + Bytes(chunks)) % Word
        BY <3>1 DEF Terminate
      <4>2. abandoned + Bytes(chunks) = Bytes(chunks) + abandoned
        BY <1>2
      <4>3. abandoned' = MspaceTotal
        BY <4>1, <4>2 DEF MspaceTotal
      <4>4. MspaceTotal \in 0 .. Word - 1
        BY <1>2, ModRange DEF MspaceTotal
      <4>5. 0 + MspaceTotal = MspaceTotal /\ MspaceTotal % Word = MspaceTotal
        BY <4>4, ModSmall
      <4> QED
        BY <2>2, <4>1, <4>3, <4>5, BytesOfNone DEF MspaceTotal
    <3>2. CASE Clear
      <4>1. CASE clearAllowed
        <5>1. chunks' = {} /\ mspaceUsed' = 0 /\ abandoned' = 0
          BY <3>2, <4>1 DEF Clear
        <5>2. (0 + 0) % Word = 0
          BY ModSmall, WordIsPositive
        <5> QED
          BY <5>1, <5>2, BytesOfNone DEF MspaceTotal
      <4>2. CASE ~clearAllowed
        BY <2>2, <3>2, <4>2 DEF Clear, history, MspaceTotal
      <4> QED
        BY <4>1, <4>2
    <3>3. CASE \E b \in Bases, f \in InitFlags : Initialize(b, f)
      BY <2>2, <3>3 DEF Initialize, memory, history, MspaceTotal
    <3> QED
      BY <1>4, <3>1, <3>2, <3>3 DEF Owner
  <2> QED
    BY <2>1, <2>3 DEF MspaceInv, InCall
<1>5. ASSUME NEW t \in Threads, Call(t) PROVE MspaceInv'
  <2>1. op[t].at = "idle" /\ UNCHANGED <<mspaceUsed, chunks, abandoned>>
    BY <1>1, <1>5 DEF Call, Allocate, Free, BeginRefresh, BeginPeek, Quiet,
                      memory, history
  <2> DEFINE Moved == \E e : /\ op' = [op EXCEPT ![t] = e]
                             /\ e.at \notin {"charge", "release"}
  <2>2. UNCHANGED op \/ Moved
    <3>1. ASSUME NEW b \in held, Free(t, b) PROVE Moved
      <4> DEFINE e == IF OutsideArea(b.addr)
                      THEN [at |-> "stlfree", block |-> b, seen |-> stlUsed]
                      ELSE [at |-> "free", block |-> b]
      <4>1. op' = [op EXCEPT ![t] = e] /\ e.at \notin {"charge", "release"}
        BY <3>1 DEF Free
      <4> QED
        BY <4>1
    <3>2. ASSUME NEW size \in Sizes, Allocate(t, size)
          PROVE  UNCHANGED op \/ Moved
      <4> DEFINE e == [at |-> "memalign", size |-> size]
      <4>1. e.at \notin {"charge", "release"}
        OBVIOUS
      <4>2. UNCHANGED op \/ op' = [op EXCEPT ![t] = e]
        BY <3>2 DEF Allocate
      <4> HIDE DEF e
      <4> QED
        BY <4>1, <4>2
    <3>3. ASSUME BeginRefresh(t) PROVE Moved
      <4>1. PICK uordblks \in Bytes(chunks) .. maxSize :
               op' = [op EXCEPT ![t] = [at |-> "refresh", seen |-> uordblks,
                                        raise |-> usedBytes <= uordblks]]
        BY <3>3 DEF BeginRefresh
      <4> DEFINE e == [at |-> "refresh", seen |-> uordblks,
                       raise |-> usedBytes <= uordblks]
      <4>2. op' = [op EXCEPT ![t] = e] /\ e.at \notin {"charge", "release"}
        BY <4>1
      <4> HIDE DEF e
      <4> QED
        BY <4>2
    <3>4. ASSUME BeginPeek(t) PROVE Moved
      <4> DEFINE e == [at |-> "peek", seen |-> mspaceUsed,
                       raise |-> usedBytes <= mspaceUsed]
      <4>1. op' = [op EXCEPT ![t] = e] /\ e.at \notin {"charge", "release"}
        BY <3>4 DEF BeginPeek
      <4> HIDE DEF e
      <4> QED
        BY <4>1
    <3> HIDE DEF Moved
    <3> QED
      BY <1>5, <3>1, <3>2, <3>3, <3>4 DEF Call
  <2>3. CASE UNCHANGED op
    BY <2>1, <2>3 DEF MspaceInv, MspaceTotal, InCall
  <2> QED
    BY <2>1, <2>2, <2>3, MspaceKept
<1>6. ASSUME NEW t \in Threads, Step(t) PROVE MspaceInv'
  <2>1. ASSUME Memalign(t) PROVE MspaceInv'
    <3>1. /\ op[t].size \in Sizes /\ BeginLock(t) /\ op[t].at = "memalign"
          /\ UNCHANGED <<mspaceUsed, abandoned>>
      BY <2>1 DEF Memalign, OpInv, InCall, history
    <3>2. PICK c \in FreeChunks(op[t].size) :
             /\ chunks' = chunks \cup {c}
             /\ op' = [op EXCEPT ![t] =
                         [at |-> "charge", block |-> c, seen |-> mspaceUsed]]
      BY <2>1 DEF Memalign
    <3>3. c \notin chunks /\ c.size \in Nat
      BY <3>1, ChunksAreNew DEF Block
    <3>4. NoOther(t, {"charge", "release"})
      BY <3>1, AloneInside
    <3>5. mspaceUsed = MspaceTotal
      BY <3>1, <3>4 DEF MspaceInv, InCall, NoOther
    <3>6. (mspaceUsed + c.size) % Word = MspaceTotal'
      BY <1>2, <3>1, <3>2, <3>3, <3>5, BlockEnters DEF MspaceTotal
    <3>7. \A u \in Threads : op'[u] = IF u = t
             THEN [at |-> "charge", block |-> c, seen |-> mspaceUsed] ELSE op[u]
      BY <3>2 DEF OpInv
    <3> QED
      BY <3>1, <3>4, <3>6, <3>7 DEF MspaceInv, InCall, NoOther
  <2>2. ASSUME Charge(t) PROVE MspaceInv'
    <3>1. /\ op[t].at = "charge" /\ op' = [op EXCEPT ![t] = Idle]
          /\ mspaceUsed' = (op[t].seen + op[t].block.size) % Word
          /\ UNCHANGED <<chunks, abandoned>>
      BY <2>2 DEF Charge, memory, history
    <3>2. mspaceUsed' = MspaceTotal'
      BY <3>1 DEF MspaceInv, InCall, MspaceTotal
    <3> QED
      BY <1>1, <3>1, <3>2, AloneInside, MspaceSettled DEF InCall
  <2>3. ASSUME BeginFree(t) PROVE MspaceInv'
    <3>1. /\ op[t].at = "free" /\ BeginLock(t)
          /\ op' = [op EXCEPT ![t] = [at |-> "release", block |-> op[t].block,
                                      seen |-> mspaceUsed]]
          /\ UNCHANGED <<mspaceUsed, chunks, abandoned>>
      BY <2>3 DEF BeginFree, memory, history
    <3>2. NoOther(t, {"charge", "release"})
      BY <3>1, AloneInside
    <3>3. mspaceUsed' = MspaceTotal'
      BY <3>1, <3>2 DEF MspaceInv, InCall, MspaceTotal, NoOther
    <3>4. \A u \in Threads : op'[u] = IF u = t
             THEN [at |-> "release", block |-> op[t].block, seen |-> mspaceUsed]
             ELSE op[u]
      BY <3>1 DEF OpInv
    <3> QED
      BY <3>1, <3>2, <3>3, <3>4 DEF MspaceInv, InCall, NoOther
  <2>4. ASSUME MspaceFree(t) PROVE MspaceInv'
    <3>1. /\ op[t].at = "release" /\ mem /\ op' = [op EXCEPT ![t] = Idle]
          /\ mspaceUsed' = (op[t].seen - op[t].block.size) % Word
          /\ chunks' = chunks \ {op[t].block} /\ UNCHANGED abandoned
      BY <2>4 DEF MspaceFree, history
    <3>2. NoOther(t, {"charge", "release"})
      BY <3>1, AloneInside DEF InCall
    <3>3. op[t].seen = MspaceTotal
      BY <3>1, <3>2 DEF MspaceInv, InCall, NoOther
    <3>4. op[t].block \in chunks
      BY <3>1 DEF HomeInv, InCall, Misjudged
    <3>5. mspaceUsed' = MspaceTotal'
      BY <1>2, <3>1, <3>3, <3>4, BlockLeaves DEF MspaceTotal
    <3> QED
      BY <1>1, <3>1, <3>2, <3>5, MspaceSettled
  <2>5. ASSUME MemalignFails(t) \/ StlAllocate(t) \/ StlCharge(t) \/ StlFree(t)
                 \/ Refresh(t) \/ Peek(t)
        PROVE  MspaceInv'
    <3>1. /\ op[t].at \notin {"charge", "release"}
          /\ UNCHANGED <<mspaceUsed, chunks, abandoned>>
      BY <2>5 DEF MemalignFails, StlAllocate, StlCharge, StlFree, Refresh, Peek,
                  memory, history
    <3> DEFINE Moved == \E e : /\ op' = [op EXCEPT ![t] = e]
                               /\ e.at \notin {"charge", "release"}
    <3>2. UNCHANGED op \/ Moved
      <4>1. ASSUME MemalignFails(t) PROVE Moved
        <5>1. op[t] = [at |-> op[t].at, size |-> op[t].size]
          BY <4>1 DEF MemalignFails, OpInv, InCall
        <5>2. [op[t] EXCEPT !.at = "stl"].at = "stl"
          BY <5>1
        <5>3. op' = [op EXCEPT ![t] = [op[t] EXCEPT !.at = "stl"]]
          BY <4>1 DEF MemalignFails
        <5> QED
          BY <5>2, <5>3
      <4> QED
        BY <1>1, <2>5, <4>1 DEF StlAllocate, StlCharge, StlFree, Refresh, Peek
    <3>3. CASE UNCHANGED op
      BY <3>1, <3>3 DEF MspaceInv, MspaceTotal, InCall
    <3> QED
      BY <3>1, <3>2, <3>3, MspaceKept
  <2>6. ASSUME FreeWithoutMspace(t) PROVE MspaceInv'
    BY <2>6 DEF FreeWithoutMspace, MspaceInv, MspaceTotal, InCall, memory, history
  <2> QED
    BY <1>6, <2>1, <2>2, <2>3, <2>4, <2>5, <2>6 DEF Step
<1> QED
  BY <1>3, <1>4, <1>5, <1>6 DEF Next
-----------------------------------------------------------------------------
(* The runtime's counter has no lock: with one thread nothing comes between *)
(* reading and writing it.                                                  *)
StlTotal == (Bytes(stlBlocks) - forgotten) % Word

StlInv ==
    /\ \A t \in Threads :
          /\ InCall(t, {"stlcharge", "stlfree"}) => op[t].seen = stlUsed
          /\ InCall(t, {"stlcharge"}) =>
                (stlUsed + op[t].block.size) % Word = StlTotal
    /\ (\A t \in Threads : ~InCall(t, {"stlcharge"})) => stlUsed = StlTotal

(* A step of a call that leaves the runtime's blocks alone keeps StlInv.    *)
LEMMA StlKept ==
    ASSUME OneThread, OpInv, StlInv, NEW t \in Threads, NEW e,
           op' = [op EXCEPT ![t] = e], UNCHANGED <<stlUsed, stlBlocks, forgotten>>,
           op[t].at # "stlcharge", e.at # "stlcharge",
           e.at = "stlfree" => e.seen = stlUsed
    PROVE  StlInv'
<1>1. \A u \in Threads : u = t /\ op'[u] = e
  BY DEF OpInv, OneThread
<1>2. stlUsed = StlTotal
  BY DEF StlInv, InCall, OneThread
<1> QED
  BY <1>1, <1>2 DEF StlInv, InCall, StlTotal

(* The step that writes the counter.                                        *)
LEMMA StlSettled ==
    ASSUME OneThread, OpInv, NEW t \in Threads, op' = [op EXCEPT ![t] = Idle],
           stlUsed' = StlTotal'
    PROVE  StlInv'
<1>1. \A u \in Threads : op'[u] = Idle
  BY DEF OpInv, OneThread
<1>2. \A u \in Threads : op'[u].at = "idle"
  BY <1>1 DEF Idle
<1> QED
  BY <1>2 DEF StlInv, InCall

(* With one thread every step keeps StlInv.                                 *)
LEMMA StlStep ==
    ASSUME OneThread, CustodyInv, TypeInv, StlInv, [Next]_vars
    PROVE  StlInv'
<1> USE DEF CustodyInv
<1>1. Idle.at = "idle"
  BY DEF Idle
<1>2. /\ IsFiniteSet(stlBlocks) /\ Sized(stlBlocks) /\ Bytes(stlBlocks) \in Nat
      /\ forgotten \in Int
  BY BlocksAreSized DEF TypeInv, TypeOK
<1> DEFINE d == -forgotten
<1>7. d \in Int /\ \A n \in Int : n - forgotten = n + d
  BY <1>2
<1> HIDE DEF d
<1>3. CASE UNCHANGED vars
  BY <1>3 DEF vars, memory, history, StlInv, StlTotal, InCall
<1>4. CASE Owner
  <2>1. UNCHANGED <<op, stlBlocks>> /\ \A t \in Threads : op[t].at = "idle"
    BY <1>1, <1>4 DEF Owner, Initialize, Terminate, Clear, AllIdle, memory
  <2>2. CASE UNCHANGED <<stlUsed, forgotten>>
    BY <2>1, <2>2 DEF StlInv, StlTotal, InCall
  <2>3. CASE Clear /\ clearAllowed
    <3>1. stlUsed' = 0 /\ forgotten' = Bytes(stlBlocks) % Word
      BY <2>3 DEF Clear
    <3>2. (Bytes(stlBlocks) - forgotten') % Word = 0
      <4> DEFINE n == Bytes(stlBlocks)
      <4>1. n \in Int
        BY <1>2
      <4> HIDE DEF n
      <4>2. (n - (n % Word)) % Word = (n - n) % Word
        BY <4>1, ModSub
      <4>3. n - n = 0 /\ 0 % Word = 0
        BY <4>1, ModSmall, WordIsPositive
      <4>4. (n - (n % Word)) % Word = 0
        BY <4>2, <4>3
      <4> QED
        BY <3>1, <4>4 DEF n
    <3>3. stlUsed' = StlTotal'
      BY <2>1, <3>1, <3>2 DEF StlTotal
    <3> QED
      BY <2>1, <3>3 DEF StlInv, InCall
  <2> QED
    BY <1>4, <2>2, <2>3 DEF Owner, Initialize, Terminate, Clear, history
<1>5. ASSUME NEW t \in Threads, Call(t) PROVE StlInv'
  <2>1. op[t].at = "idle" /\ UNCHANGED <<stlUsed, stlBlocks, forgotten>>
    BY <1>1, <1>5 DEF Call, Allocate, Free, BeginRefresh, BeginPeek, Quiet,
                      memory, history
  <2> DEFINE Moved == \E e : /\ op' = [op EXCEPT ![t] = e]
                             /\ e.at # "stlcharge"
                             /\ e.at = "stlfree" => e.seen = stlUsed
  <2>2. UNCHANGED op \/ Moved
    <3>1. ASSUME NEW b \in held, Free(t, b) PROVE Moved
      <4> DEFINE e == IF OutsideArea(b.addr)
                      THEN [at |-> "stlfree", block |-> b, seen |-> stlUsed]
                      ELSE [at |-> "free", block |-> b]
      <4>1. /\ op' = [op EXCEPT ![t] = e]
            /\ e.at # "stlcharge"
            /\ e.at = "stlfree" => e.seen = stlUsed
        BY <3>1 DEF Free
      <4> HIDE DEF e
      <4> QED
        BY <4>1
    <3>2. ASSUME NEW size \in Sizes, Allocate(t, size)
          PROVE  UNCHANGED op \/ Moved
      <4> DEFINE e == [at |-> "memalign", size |-> size]
      <4>1. e.at \notin {"stlcharge", "stlfree"}
        OBVIOUS
      <4>2. UNCHANGED op \/ op' = [op EXCEPT ![t] = e]
        BY <3>2 DEF Allocate
      <4> HIDE DEF e
      <4> QED
        BY <4>1, <4>2
    <3>3. ASSUME BeginRefresh(t) PROVE Moved
      <4>1. PICK uordblks \in Bytes(chunks) .. maxSize :
               op' = [op EXCEPT ![t] = [at |-> "refresh", seen |-> uordblks,
                                        raise |-> usedBytes <= uordblks]]
        BY <3>3 DEF BeginRefresh
      <4> DEFINE e == [at |-> "refresh", seen |-> uordblks,
                       raise |-> usedBytes <= uordblks]
      <4>2. op' = [op EXCEPT ![t] = e] /\ e.at \notin {"stlcharge", "stlfree"}
        BY <4>1
      <4> HIDE DEF e
      <4> QED
        BY <4>2
    <3>4. ASSUME BeginPeek(t) PROVE Moved
      <4> DEFINE e == [at |-> "peek", seen |-> mspaceUsed,
                       raise |-> usedBytes <= mspaceUsed]
      <4>1. op' = [op EXCEPT ![t] = e] /\ e.at \notin {"stlcharge", "stlfree"}
        BY <3>4 DEF BeginPeek
      <4> HIDE DEF e
      <4> QED
        BY <4>1
    <3> HIDE DEF Moved
    <3> QED
      BY <1>5, <3>1, <3>2, <3>3, <3>4 DEF Call
  <2>3. CASE UNCHANGED op
    BY <2>1, <2>3 DEF StlInv, StlTotal, InCall
  <2> QED
    BY <2>1, <2>2, <2>3, StlKept
<1>6. ASSUME NEW t \in Threads, Step(t) PROVE StlInv'
  <2>1. ASSUME StlAllocate(t) PROVE StlInv'
    <3>1. /\ op[t].size \in Sizes /\ op[t].at = "stl"
          /\ UNCHANGED <<stlUsed, forgotten>>
      BY <2>1 DEF StlAllocate, OpInv, InCall, history
    <3>2. CASE UNCHANGED <<op, stlBlocks>>
      BY <3>1, <3>2 DEF StlInv, StlTotal, InCall
    <3>3. ASSUME NEW b \in StlPlaces(op[t].size),
                 stlBlocks' = stlBlocks \cup {b},
                 op' = [op EXCEPT ![t] =
                          [at |-> "stlcharge", block |-> b, seen |-> stlUsed]]
          PROVE  StlInv'
      <4>1. b \notin stlBlocks /\ b.size \in Nat
        BY <3>1, PlacesAreNew DEF Block
      <4>2. stlUsed = StlTotal
        BY <3>1 DEF StlInv, InCall, OneThread
      <4>3. Bytes(stlBlocks') \in Int
        BY <1>2, <3>3, <4>1, BytesAdded
      <4>4. /\ StlTotal = (Bytes(stlBlocks) + d) % Word
            /\ StlTotal' = (Bytes(stlBlocks') + d) % Word
        BY <1>2, <1>7, <3>1, <4>3 DEF StlTotal
      <4>5. (stlUsed + b.size) % Word = StlTotal'
        BY <1>2, <1>7, <3>3, <4>1, <4>2, <4>4, BlockEnters
      <4>6. \A u \in Threads :
               u = t /\ op'[u] = [at |-> "stlcharge", block |-> b, seen |-> stlUsed]
        BY <3>3 DEF OpInv, OneThread
      <4> QED
        BY <3>1, <4>5, <4>6 DEF StlInv, InCall
    <3> QED
      BY <2>1, <3>2, <3>3 DEF StlAllocate
  <2>2. ASSUME StlCharge(t) PROVE StlInv'
    <3>1. /\ op[t].at = "stlcharge" /\ op' = [op EXCEPT ![t] = Idle]
          /\ stlUsed' = (op[t].seen + op[t].block.size) % Word
          /\ UNCHANGED <<stlBlocks, forgotten>>
      BY <2>2 DEF StlCharge, memory, history
    <3>2. stlUsed' = StlTotal'
      BY <3>1 DEF StlInv, InCall, StlTotal
    <3> QED
      BY <3>1, <3>2, StlSettled
  <2>3. ASSUME StlFree(t) PROVE StlInv'
    <3>1. /\ op[t].at = "stlfree" /\ op' = [op EXCEPT ![t] = Idle]
          /\ stlUsed' = (op[t].seen - op[t].block.size) % Word
          /\ stlBlocks' = stlBlocks \ {op[t].block} /\ UNCHANGED forgotten
      BY <2>3 DEF StlFree, history
    <3>2. op[t].seen = StlTotal /\ op[t].block \in stlBlocks
      BY <3>1 DEF StlInv, HomeInv, InCall, OneThread
    <3>3. Bytes(stlBlocks') \in Int
      BY <1>2, <3>1, BytesIsNat, FS_RemoveElement DEF Sized
    <3>4. /\ StlTotal = (Bytes(stlBlocks) + d) % Word
          /\ StlTotal' = (Bytes(stlBlocks') + d) % Word
      BY <1>2, <1>7, <3>1, <3>3 DEF StlTotal
    <3>5. stlUsed' = StlTotal'
      BY <1>2, <1>7, <3>1, <3>2, <3>4, BlockLeaves
    <3> QED
      BY <3>1, <3>5, StlSettled
  <2>4. ASSUME MemalignFails(t) PROVE StlInv'
    <3>1. op[t] = [at |-> op[t].at, size |-> op[t].size] /\ op[t].at = "memalign"
      BY <2>4 DEF MemalignFails, OpInv, InCall
    <3> DEFINE e == [op[t] EXCEPT !.at = "stl"]
    <3>2. e.at = "stl"
      BY <3>1
    <3>3. op' = [op EXCEPT ![t] = e] /\ UNCHANGED <<stlUsed, stlBlocks, forgotten>>
      BY <2>4 DEF MemalignFails, memory, history
    <3> HIDE DEF e
    <3> QED
      BY <3>1, <3>2, <3>3, StlKept
  <2>5. ASSUME Memalign(t) PROVE StlInv'
    <3>1. PICK c \in FreeChunks(op[t].size) :
             op' = [op EXCEPT ![t] =
                      [at |-> "charge", block |-> c, seen |-> mspaceUsed]]
      BY <2>5 DEF Memalign
    <3>2. op[t].at = "memalign" /\ UNCHANGED <<stlUsed, stlBlocks, forgotten>>
      BY <2>5 DEF Memalign, history
    <3> DEFINE e == [at |-> "charge", block |-> c, seen |-> mspaceUsed]
    <3>3. op' = [op EXCEPT ![t] = e] /\ e.at \notin {"stlcharge", "stlfree"}
      BY <3>1
    <3> HIDE DEF e
    <3> QED
      BY <3>2, <3>3, StlKept
  <2>6. ASSUME BeginFree(t) PROVE StlInv'
    <3> DEFINE e == [at |-> "release", block |-> op[t].block, seen |-> mspaceUsed]
    <3>1. op' = [op EXCEPT ![t] = e] /\ e.at \notin {"stlcharge", "stlfree"}
      BY <2>6 DEF BeginFree
    <3>2. op[t].at = "free" /\ UNCHANGED <<stlUsed, stlBlocks, forgotten>>
      BY <2>6 DEF BeginFree, memory, history
    <3> HIDE DEF e
    <3> QED
      BY <3>1, <3>2, StlKept
  <2>7. ASSUME Charge(t) \/ MspaceFree(t) \/ Refresh(t) \/ Peek(t) PROVE StlInv'
    <3>1. /\ op' = [op EXCEPT ![t] = Idle] /\ op[t].at # "stlcharge"
          /\ UNCHANGED <<stlUsed, stlBlocks, forgotten>>
      BY <2>7 DEF Charge, MspaceFree, Refresh, Peek, memory, history
    <3> QED
      BY <1>1, <3>1, StlKept
  <2>8. ASSUME FreeWithoutMspace(t) PROVE StlInv'
    BY <2>8 DEF FreeWithoutMspace, StlInv, StlTotal, InCall, memory, history
  <2> QED
    BY <1>6, <2>1, <2>2, <2>3, <2>4, <2>5, <2>6, <2>7, <2>8 DEF Step
<1> QED
  BY <1>3, <1>4, <1>5, <1>6 DEF Next
-----------------------------------------------------------------------------
(* The mspace's counter is what its chunks hold and what a Terminate left   *)
(* in it, whenever nobody is between charging and releasing: no update is   *)
(* lost, whether the heap's lock or the program's single thread keeps the   *)
(* calls apart (Heap.cpp:104-109, 133-138).                                 *)
THEOREM MspaceAccountedCorrect ==
    ASSUME Serial
    PROVE  Spec => []MspaceIsAccounted
<1>1. Init => MspaceInv
  <2> SUFFICES ASSUME Init PROVE MspaceInv
    OBVIOUS
  <2>1. \A t \in Threads : op[t].at = "idle"
    BY DEF Init, Idle
  <2>2. (0 + 0) % Word = 0
    BY ModSmall, WordIsPositive
  <2> QED
    BY <2>1, <2>2, BytesOfNone DEF Init, MspaceInv, MspaceTotal, InCall
<1>2. CustodyInv /\ TypeInv /\ LockInv /\ MspaceInv /\ [Next]_vars => MspaceInv'
  BY MspaceStep
<1>3. MspaceInv => MspaceIsAccounted
  BY DEF MspaceInv, MspaceIsAccounted, MspaceTotal, InCall
<1> QED
  BY <1>1, <1>2, <1>3, CustodyCorrect, TypeInvCorrect, NoUpdateIsLost, PTL
     DEF Spec

(* For the thread that owns the heap the runtime's counter, too, is what    *)
(* its blocks hold, short of those a Clear forgot.                          *)
THEOREM CountersCorrect ==
    ASSUME OneThread
    PROVE  Spec => []CountersAgree
<1>1. Init => StlInv
  <2> SUFFICES ASSUME Init PROVE StlInv
    OBVIOUS
  <2>1. \A t \in Threads : op[t].at = "idle"
    BY DEF Init, Idle
  <2>2. (0 - 0) % Word = 0
    BY ModSmall, WordIsPositive
  <2> QED
    BY <2>1, <2>2, BytesOfNone DEF Init, StlInv, StlTotal, InCall
<1>2. CustodyInv /\ TypeInv /\ StlInv /\ [Next]_vars => StlInv'
  BY StlStep
<1>3. Spec => []MspaceIsAccounted
  BY MspaceAccountedCorrect DEF Serial
<1>4. StlInv => StlIsAccounted
  BY DEF StlInv, StlIsAccounted, StlTotal, InCall
<1> QED
  BY <1>1, <1>2, <1>3, <1>4, CustodyCorrect, TypeInvCorrect, PTL
     DEF Spec, CountersAgree
=============================================================================
