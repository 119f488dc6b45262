-------------------------------- MODULE Heap --------------------------------
(* The Heap of Memory/Heap.hpp and Memory/Heap.cpp: a dlmalloc mspace in a  *)
(* fixed area, and the C++ runtime's allocator (StlAllocator) for what the  *)
(* mspace cannot serve. Threads allocate and free concurrently; only the    *)
(* work on the mspace and its counter is under the heap's lock, the runtime *)
(* allocator's counter is not.                                              *)
(*                                                                          *)
(* A read and a write of a counter by += or -= are two steps. Addresses and *)
(* sizes are small numbers; counters are size_t and wrap at Word.           *)
EXTENDS Integers, FiniteSets, FiniteSetsExt

CONSTANTS
    Threads,
    NoThread,
    HasLock,        \* whether m_lock is set
    Sizes,          \* the sizes threads ask for
    Tag,            \* the room Allocate adds for the tag pointer
    Slack,          \* how much more than asked for a chunk may hold
    Bases,          \* the areas Initialize may be given, by first address
    MaxSize,        \* their size, m_maxSize once initialized
    StlAddresses,   \* where the runtime may put blocks: outside every area
    Word,           \* size_t wraps here
    InitFlags,      \* the values of isClearAllowed programs pass
    Terminates      \* whether the program ever terminates the heap

ASSUME HeapAssumption ==
    /\ NoThread \notin Threads
    /\ HasLock \in BOOLEAN
    /\ Sizes \subseteq Nat \ {0}
    /\ Tag \in Nat /\ Slack \in Nat
    /\ Bases \subseteq Nat \ {0}
    /\ MaxSize \in Nat
    /\ StlAddresses \subseteq Nat \ {0}
    /\ \A a \in StlAddresses, b \in Bases : a \notin b .. b + MaxSize - 1
    /\ Word \in Nat /\ Word > MaxSize
    /\ InitFlags \subseteq BOOLEAN
    /\ Terminates \in BOOLEAN

VARIABLES
    mem,            \* m_mem is set
    base,           \* m_base, 0 when there is none
    maxSize,        \* m_maxSize
    usedBytes,      \* m_usedBytes
    mspaceUsed,     \* m_mspaceUsedSize
    stlUsed,        \* m_stlUsedSize
    exhausted,      \* m_isMemExhausted
    clearAllowed,   \* m_isClearAllowed
    lock,           \* the thread inside m_BeginLock .. m_EndLock
    op,             \* the call each thread is in
    chunks,         \* the allocated chunks of the mspace
    stlBlocks,      \* the allocated blocks of the runtime's allocator
    held,           \* the blocks returned and not yet passed to Free
    halted,         \* a SkyAssert failed or the program crashed
    abandoned,      \* history: bytes a Terminate left in m_mspaceUsedSize
    forgotten       \* history: bytes of runtime blocks a Clear dropped

fields  == <<mem, base, maxSize, clearAllowed>>
memory  == <<chunks, stlBlocks>>
history == <<abandoned, forgotten>>
vars == <<fields, usedBytes, mspaceUsed, stlUsed, exhausted, lock, op, memory,
          held, halted, history>>

Idle == [at |-> "idle"]

Bytes(blocks) == MapThenSumSet(LAMBDA b : b.size, blocks)

Extent(b) == b.addr .. b.addr + b.size - 1

(* What a client may rely on: the threads that are in no call of the heap.  *)
AllIdle == \A t \in Threads : op[t] = Idle

Quiet(t) == ~halted /\ op[t] = Idle

Init ==
    /\ mem = FALSE /\ base = 0 /\ maxSize = 0 /\ clearAllowed = FALSE
    /\ usedBytes = 0 /\ mspaceUsed = 0 /\ stlUsed = 0 /\ exhausted = FALSE
    /\ lock = NoThread
    /\ op = [t \in Threads |-> Idle]
    /\ chunks = {} /\ stlBlocks = {} /\ held = {}
    /\ halted = FALSE
    /\ abandoned = 0 /\ forgotten = 0

\* Slips: the lock is not taken; it is not given back.
BeginLock_Skipped(t) == UNCHANGED lock
EndLock_Skipped(t) == UNCHANGED lock

(* m_BeginLock and m_EndLock, which do nothing on a heap without a lock.    *)
BeginLock(t) ==
    IF HasLock THEN lock = NoThread /\ lock' = t ELSE UNCHANGED lock

EndLock(t) ==
    IF HasLock THEN lock' = NoThread ELSE UNCHANGED lock
-----------------------------------------------------------------------------
(* Initialize sets the area up and resets the high-water mark, but neither  *)
(* of the two counters nor the exhausted flag. It is the owner's call: no   *)
(* other thread uses the heap.                                              *)
Initialize(b, isClearAllowed) ==
    /\ ~halted /\ AllIdle
    /\ \/ /\ mem
          /\ halted' = TRUE
          /\ UNCHANGED <<fields, usedBytes>>
       \/ /\ ~mem
          /\ mem' = TRUE
          /\ base' = b
          /\ maxSize' = MaxSize
          /\ clearAllowed' = isClearAllowed
          /\ usedBytes' = 0
          /\ UNCHANGED halted
    /\ UNCHANGED <<mspaceUsed, stlUsed, exhausted, lock, op, memory, held,
                   history>>

\* Slip: the area keeps its address.
Terminate_KeepsBase ==
    /\ ~halted /\ AllIdle
    /\ Terminates
    /\ mem
    /\ mem' = FALSE
    /\ chunks' = {}
    /\ held' = {b \in held : b \in stlBlocks}
    /\ abandoned' = (abandoned + Bytes(chunks)) % Word
    /\ UNCHANGED <<base, maxSize, clearAllowed, usedBytes, mspaceUsed, stlUsed,
                   exhausted, lock, op, stlBlocks, halted, forgotten>>

(* Terminate destroys the mspace with all its chunks; the counters stay.    *)
Terminate ==
    /\ ~halted /\ AllIdle
    /\ Terminates
    /\ mem
    /\ mem' = FALSE
    /\ base' = 0
    /\ chunks' = {}
    /\ held' = {b \in held : b \in stlBlocks}
    /\ abandoned' = (abandoned + Bytes(chunks)) % Word
    /\ UNCHANGED <<maxSize, clearAllowed, usedBytes, mspaceUsed, stlUsed,
                   exhausted, lock, op, stlBlocks, halted, forgotten>>

\* Slip: the mspace is emptied, its counter is not.
Clear_KeepsCounter ==
    /\ ~halted /\ AllIdle
    /\ mem /\ clearAllowed
    /\ chunks' = {}
    /\ held' = {b \in held : b \in stlBlocks}
    /\ stlUsed' = 0
    /\ abandoned' = 0
    /\ forgotten' = Bytes(stlBlocks) % Word
    /\ UNCHANGED <<fields, usedBytes, mspaceUsed, exhausted, lock, op,
                   stlBlocks, halted>>

(* Clear empties the mspace and zeroes both counters, although the blocks   *)
(* of the runtime's allocator are as alive as before. A heap that was never *)
(* initialized does not allow it; one that was terminated has no area left  *)
(* to empty, and no program may call it.                                    *)
Clear ==
    /\ ~halted /\ AllIdle
    /\ mem \/ ~clearAllowed
    /\ IF clearAllowed
       THEN /\ chunks' = {}
            /\ held' = {b \in held : b \in stlBlocks}
            /\ mspaceUsed' = 0
            /\ stlUsed' = 0
            /\ abandoned' = 0
            /\ forgotten' = Bytes(stlBlocks) % Word
            /\ UNCHANGED halted
       ELSE /\ halted' = TRUE
            /\ UNCHANGED <<chunks, held, mspaceUsed, stlUsed, history>>
    /\ UNCHANGED <<fields, usedBytes, exhausted, lock, op, stlBlocks>>
-----------------------------------------------------------------------------
(* Allocate. A size the whole heap could not hold fails an assertion.       *)
Allocate(t, size) ==
    /\ Quiet(t)
    /\ mem
    /\ IF maxSize <= size
       THEN halted' = TRUE /\ UNCHANGED op
       ELSE /\ op' = [op EXCEPT ![t] = [at |-> "memalign", size |-> size]]
            /\ UNCHANGED halted
    /\ UNCHANGED <<fields, usedBytes, mspaceUsed, stlUsed, exhausted, lock,
                   memory, held, history>>

(* The places mspace_memalign may return: dlmalloc keeps its own record at  *)
(* the start of the area, and a chunk may be larger than was asked for.     *)
FreeChunks(size) ==
    {c \in [addr : base + 1 .. base + maxSize - 1,
            size : size + Tag .. size + Tag + Slack] :
        /\ c.addr + c.size <= base + maxSize
        /\ \A d \in chunks : Extent(c) \cap Extent(d) = {}}

(* The mspace serves the call, inside the lock ...                          *)
Memalign(t) ==
    /\ ~halted
    /\ op[t].at = "memalign"
    /\ BeginLock(t)
    /\ \E c \in FreeChunks(op[t].size) :
          /\ chunks' = chunks \cup {c}
          /\ op' = [op EXCEPT ![t] =
                      [at |-> "charge", block |-> c, seen |-> mspaceUsed]]
    /\ UNCHANGED <<fields, usedBytes, mspaceUsed, stlUsed, exhausted,
                   stlBlocks, held, halted, history>>

(* ... and is charged the chunk's usable size.                              *)
Charge(t) ==
    /\ ~halted
    /\ op[t].at = "charge"
    /\ mspaceUsed' = (op[t].seen + op[t].block.size) % Word
    /\ EndLock(t)
    /\ held' = held \cup {op[t].block}
    /\ op' = [op EXCEPT ![t] = Idle]
    /\ UNCHANGED <<fields, usedBytes, stlUsed, exhausted, memory, halted,
                   history>>

(* Or the mspace cannot: no place is left, or dlmalloc's alignment and      *)
(* bookkeeping leave none that fits. The lock is taken and given back.      *)
MemalignFails(t) ==
    /\ ~halted
    /\ op[t].at = "memalign"
    /\ HasLock => lock = NoThread
    /\ op' = [op EXCEPT ![t].at = "stl"]
    /\ UNCHANGED <<fields, usedBytes, mspaceUsed, stlUsed, exhausted, lock,
                   memory, held, halted, history>>

(* StlAllocator gives a block of the very size that was asked for, wherever *)
(* the runtime has room for it.                                             *)
StlPlaces(size) ==
    [addr : StlAddresses \ {b.addr : b \in stlBlocks}, size : {size}]

(* m_TryStlAllocate, outside the lock: the heap is exhausted from now on,   *)
(* the runtime gives the block whatever the heap's size, or gives none and  *)
(* the assertion fails.                                                     *)
StlAllocate(t) ==
    /\ ~halted
    /\ op[t].at = "stl"
    /\ exhausted' = TRUE
    /\ \/ \E b \in StlPlaces(op[t].size) :
             /\ stlBlocks' = stlBlocks \cup {b}
             /\ op' = [op EXCEPT ![t] =
                         [at |-> "stlcharge", block |-> b, seen |-> stlUsed]]
             /\ UNCHANGED halted
       \/ /\ StlPlaces(op[t].size) = {}
          /\ halted' = TRUE
          /\ UNCHANGED <<stlBlocks, op>>
    /\ UNCHANGED <<fields, usedBytes, mspaceUsed, stlUsed, lock, chunks, held,
                   history>>

StlCharge(t) ==
    /\ ~halted
    /\ op[t].at = "stlcharge"
    /\ stlUsed' = (op[t].seen + op[t].block.size) % Word
    /\ held' = held \cup {op[t].block}
    /\ op' = [op EXCEPT ![t] = Idle]
    /\ UNCHANGED <<fields, usedBytes, mspaceUsed, exhausted, lock, memory,
                   halted, history>>
-----------------------------------------------------------------------------
\* Slip: the first address behind the area counts as inside.
OutsideArea_OffByOne(addr) == base > addr \/ base + maxSize < addr

(* Free asks the address whose block it is. Terminate sets m_base to null   *)
(* and keeps m_maxSize, so that without an area the first m_maxSize         *)
(* addresses count as inside.                                               *)
OutsideArea(addr) == base > addr \/ base + maxSize <= addr

(* A thread frees a block some thread got and nobody freed. A block outside *)
(* the area is taken off the runtime's counter without the lock.            *)
Free(t, b) ==
    /\ Quiet(t)
    /\ b \in held
    /\ held' = held \ {b}
    /\ op' = [op EXCEPT ![t] =
                IF OutsideArea(b.addr)
                THEN [at |-> "stlfree", block |-> b, seen |-> stlUsed]
                ELSE [at |-> "free", block |-> b]]
    /\ UNCHANGED <<fields, usedBytes, mspaceUsed, stlUsed, exhausted, lock,
                   memory, halted, history>>

StlFree(t) ==
    /\ ~halted
    /\ op[t].at = "stlfree"
    /\ stlUsed' = (op[t].seen - op[t].block.size) % Word
    /\ stlBlocks' = stlBlocks \ {op[t].block}
    /\ op' = [op EXCEPT ![t] = Idle]
    /\ UNCHANGED <<fields, usedBytes, mspaceUsed, exhausted, lock, chunks,
                   held, halted, history>>

(* The mspace's blocks are taken off its counter and freed under the lock.  *)
BeginFree(t) ==
    /\ ~halted
    /\ op[t].at = "free"
    /\ BeginLock(t)
    /\ op' = [op EXCEPT ![t] = [at |-> "release", block |-> op[t].block,
                                seen |-> mspaceUsed]]
    /\ UNCHANGED <<fields, usedBytes, mspaceUsed, stlUsed, exhausted, memory,
                   held, halted, history>>

\* Slip: the block is taken off the counter but never freed.
MspaceFree_Leaks(t) ==
    /\ ~halted
    /\ op[t].at = "release"
    /\ mem
    /\ mspaceUsed' = (op[t].seen - op[t].block.size) % Word
    /\ EndLock(t)
    /\ op' = [op EXCEPT ![t] = Idle]
    /\ UNCHANGED <<fields, usedBytes, stlUsed, exhausted, memory, held, halted,
                   history>>

MspaceFree(t) ==
    /\ ~halted
    /\ op[t].at = "release"
    /\ mem
    /\ mspaceUsed' = (op[t].seen - op[t].block.size) % Word
    /\ chunks' = chunks \ {op[t].block}
    /\ EndLock(t)
    /\ op' = [op EXCEPT ![t] = Idle]
    /\ UNCHANGED <<fields, usedBytes, stlUsed, exhausted, stlBlocks, held,
                   halted, history>>

(* On a terminated heap m_mem is null: the first thing mspace_free does is  *)
(* to read a field of it, and the program crashes there, inside the lock.   *)
(* What the counter lost just before dies with the program.                 *)
FreeWithoutMspace(t) ==
    /\ ~halted
    /\ op[t].at = "release"
    /\ ~mem
    /\ halted' = TRUE
    /\ UNCHANGED <<fields, usedBytes, mspaceUsed, stlUsed, exhausted, lock, op,
                   memory, held, history>>
-----------------------------------------------------------------------------
(* GetUsedBytes(true) asks the mspace, whose own count is at least what its *)
(* chunks hold and at most the area, and raises the high-water mark to it.  *)
BeginRefresh(t) ==
    /\ Quiet(t)
    /\ mem
    /\ BeginLock(t)
    /\ \E uordblks \in Bytes(chunks) .. maxSize :
          op' = [op EXCEPT ![t] = [at |-> "refresh", seen |-> uordblks,
                                   raise |-> usedBytes <= uordblks]]
    /\ UNCHANGED <<fields, usedBytes, mspaceUsed, stlUsed, exhausted, memory,
                   held, halted, history>>

Refresh(t) ==
    /\ ~halted
    /\ op[t].at = "refresh"
    /\ usedBytes' = IF op[t].raise THEN op[t].seen ELSE usedBytes
    /\ EndLock(t)
    /\ op' = [op EXCEPT ![t] = Idle]
    /\ UNCHANGED <<fields, mspaceUsed, stlUsed, exhausted, memory, held,
                   halted, history>>

(* GetUsedBytes(false) compares and raises it to m_mspaceUsedSize, and adds *)
(* the counters up, without the lock.                                       *)
BeginPeek(t) ==
    /\ Quiet(t)
    /\ op' = [op EXCEPT ![t] = [at |-> "peek", seen |-> mspaceUsed,
                                raise |-> usedBytes <= mspaceUsed]]
    /\ UNCHANGED <<fields, usedBytes, mspaceUsed, stlUsed, exhausted, lock,
                   memory, held, halted, history>>

\* Slip: the mark is set without the comparison.
Peek_Overwrites(t) ==
    /\ ~halted
    /\ op[t].at = "peek"
    /\ usedBytes' = op[t].seen
    /\ op' = [op EXCEPT ![t] = Idle]
    /\ UNCHANGED <<fields, mspaceUsed, stlUsed, exhausted, lock, memory, held,
                   halted, history>>

Peek(t) ==
    /\ ~halted
    /\ op[t].at = "peek"
    /\ usedBytes' = IF op[t].raise THEN op[t].seen ELSE usedBytes
    /\ op' = [op EXCEPT ![t] = Idle]
    /\ UNCHANGED <<fields, mspaceUsed, stlUsed, exhausted, lock, memory, held,
                   halted, history>>
-----------------------------------------------------------------------------
(* The steps of a call that is under way.                                   *)
Step(t) ==
    \/ Memalign(t)
    \/ Charge(t)
    \/ MemalignFails(t)
    \/ StlAllocate(t)
    \/ StlCharge(t)
    \/ StlFree(t)
    \/ BeginFree(t)
    \/ MspaceFree(t)
    \/ FreeWithoutMspace(t)
    \/ Refresh(t)
    \/ Peek(t)

Owner ==
    \/ \E b \in Bases, f \in InitFlags : Initialize(b, f)
    \/ Terminate
    \/ Clear

Call(t) ==
    \/ \E size \in Sizes : Allocate(t, size)
    \/ \E b \in held : Free(t, b)
    \/ BeginRefresh(t)
    \/ BeginPeek(t)

Next == Owner \/ \E t \in Threads : Call(t) \/ Step(t)

Spec == Init /\ [][Next]_vars

(* A thread inside a call keeps running unless it waits for the lock.       *)
FairSpec == Spec /\ \A t \in Threads : WF_vars(Step(t))
-----------------------------------------------------------------------------
Block == [addr : Nat, size : Nat]

TypeOK ==
    /\ mem \in BOOLEAN /\ clearAllowed \in BOOLEAN /\ exhausted \in BOOLEAN
    /\ halted \in BOOLEAN
    /\ base \in Bases \cup {0} /\ (mem <=> base # 0)
    /\ maxSize \in {0, MaxSize}
    /\ {usedBytes, mspaceUsed, stlUsed, abandoned, forgotten}
          \subseteq 0 .. Word - 1
    /\ lock \in Threads \cup {NoThread}
    /\ \A b \in chunks \cup stlBlocks \cup held : b \in Block
    /\ \A t \in Threads : op[t].at \in
          {"idle", "memalign", "charge", "stl", "stlcharge", "stlfree", "free",
           "release", "refresh", "peek"}

InCall(t, labels) == op[t].at \in labels

(* Between the charges of one call the mspace counter is what the chunks of *)
(* the present mspace hold, plus what mspaces destroyed by Terminate held:  *)
(* no interleaving loses an update, and chunks freed give their charge back.*)
MspaceIsAccounted ==
    (\A t \in Threads : ~InCall(t, {"charge", "release"})) =>
        mspaceUsed = (Bytes(chunks) + abandoned) % Word

(* For one thread the runtime's counter is what its blocks hold, short of   *)
(* the blocks a Clear dropped from it: those wrap it when they are freed.   *)
StlIsAccounted ==
    (\A t \in Threads : ~InCall(t, {"stlcharge", "stlfree"})) =>
        stlUsed = (Bytes(stlBlocks) - forgotten) % Word

(* For the thread that owns the heap both counters are right through every  *)
(* order of Initialize, Clear, Terminate, allocations and frees.            *)
CountersAgree == MspaceIsAccounted /\ StlIsAccounted

(* What the address test takes for the heap's although the runtime has it:  *)
(* nothing while there is an area; once it was given up, the blocks among   *)
(* the first m_maxSize addresses, for m_base is null and m_maxSize is kept. *)
Misjudged == IF mem THEN {} ELSE {b \in stlBlocks : b.addr < maxSize}

(* The address test of Free sends each block to the allocator it came from, *)
(* at the edges of the area and after the area was moved. After Terminate   *)
(* it errs on the blocks Misjudged names and on no other: one of these goes *)
(* to the mspace that is gone, every other block still to the runtime.      *)
BlocksGoHome ==
    \A t \in Threads :
        /\ InCall(t, {"free", "release"}) => op[t].block \in chunks \cup Misjudged
        /\ InCall(t, {"stlfree"}) => op[t].block \in stlBlocks \ Misjudged

(* A block is never lost or in two hands: what the allocators have given is *)
(* held by the program or in exactly one call.                              *)
Carriers == {t \in Threads :
               InCall(t, {"charge", "stlcharge", "free", "release", "stlfree"})}

NoBlockIsLost ==
    /\ chunks \cup stlBlocks = held \cup {op[t].block : t \in Carriers}
    /\ \A t \in Carriers : op[t].block \notin held
    /\ \A t, u \in Carriers : op[t].block = op[u].block => t = u

(* With one thread the high-water mark only falls when the heap is set up.  *)
PeakNeverFalls ==
    [][usedBytes' < usedBytes => ~mem /\ mem']_vars

(* Whoever holds the lock gives it back: no path of the heap keeps it,      *)
(* unless an assertion or a crash stops the program meanwhile.              *)
LockIsReleased ==
    \A t \in Threads : lock = t ~> lock # t \/ halted
=============================================================================
