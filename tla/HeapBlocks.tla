------------------------------ MODULE HeapBlocks ------------------------------
(***************************************************************************)
(* What a GlobalAlloc promises its callers: a block it hands out is inside *)
(* the heap, aligned, large enough and shares no byte with another one     *)
(* until it is given back.                                                 *)
(***************************************************************************)
EXTENDS Integers

CONSTANTS Start, Size, Layouts

VARIABLE live      \* [addr, layout]

Init == live = {}

Ends(b) == b.addr + b.layout.size

Alloc ==
    \E a \in Start .. Start + Size, l \in Layouts :
        LET b == [addr |-> a, layout |-> l]
        IN  /\ a % l.align = 0
            /\ Ends(b) <= Start + Size
            /\ \A c \in live : Ends(b) <= c.addr \/ Ends(c) <= b.addr
            /\ b \notin live
            /\ live' = live \cup {b}

Dealloc == \E b \in live : live' = live \ {b}

Spec == Init /\ [][Alloc \/ Dealloc]_live

=============================================================================
