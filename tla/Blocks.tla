------------------------------- MODULE Blocks -------------------------------
(* What the Heap expects of its mspace (Memory/Heap.cpp): blocks inside the *)
(* area that hold what was asked for and the tag, waste little, start where *)
(* they shall, and never overlap. A block that is given back or a Clear     *)
(* changes no other.                                                        *)
EXTENDS Integers, FiniteSets

CONSTANTS
    Base, MaxSize,  \* the area
    Requests,       \* what is asked for: records of a size and an align
    Overhead,       \* the room for the tag
    Slack           \* how much more than asked for a block may hold

VARIABLE blocks     \* the blocks given

Serves(b, r) ==
    /\ b.addr % r.align = 0
    /\ b.size \in r.size + Overhead .. r.size + Overhead + Slack

Inside(b) == Base < b.addr /\ b.addr + b.size <= Base + MaxSize

Apart(b, c) == b.addr + b.size <= c.addr \/ c.addr + c.size <= b.addr

Init == blocks = {}

Give(r) ==
    /\ blocks \subseteq blocks'
    /\ \E b \in blocks' \ blocks :
          /\ blocks' = blocks \cup {b}
          /\ Serves(b, r) /\ Inside(b)
          /\ \A c \in blocks : Apart(b, c)

GiveBack == \E b \in blocks : blocks' = blocks \ {b}

Clear == blocks' = {}

Next == (\E r \in Requests : Give(r)) \/ GiveBack \/ Clear

Spec == Init /\ [][Next]_blocks
=============================================================================
