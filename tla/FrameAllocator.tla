---------------------------- MODULE FrameAllocator ----------------------------
(***************************************************************************)
(* What the frame allocator promises: a set of free frames, from which a   *)
(* caller gets one frame, or the section of neighbours it asked for.       *)
(* There is no list and no search here.                                    *)
(***************************************************************************)
EXTENDS Integers

CONSTANTS Usable   \* the frames of the memory map

VARIABLES
    free,    \* the frames nobody holds
    asked,   \* the section asked for, <<length, alignment>>, or <<>>
    up       \* FALSE once the kernel has stopped for good

vars == <<free, asked, up>>

Init ==
    /\ free = {}
    /\ asked = << >>
    /\ up = TRUE

\* A frame is found at boot, or given back.
Add(f) ==
    /\ asked = << >>
    /\ f \notin free
    /\ free' = free \cup {f}
    /\ UNCHANGED <<asked, up>>

One ==
    /\ asked = << >>
    /\ \E f \in free : free' = free \ {f}
    /\ UNCHANGED <<asked, up>>

Ask ==
    /\ asked = << >>
    /\ asked' \in (Nat \ {1}) \X (Nat \ {0})
    /\ UNCHANGED <<free, up>>

Grant ==
    /\ asked # << >>
    /\ \E b \in free :
         LET section == b .. b + asked[1] - 1 IN
         /\ b % asked[2] = 0
         /\ section \subseteq free
         /\ free' = free \ section
    /\ asked' = << >>
    /\ UNCHANGED up

Refuse ==
    /\ asked # << >>
    /\ asked' = << >>
    /\ UNCHANGED <<free, up>>

Halt ==
    /\ up' = FALSE
    /\ UNCHANGED <<free, asked>>

Next ==
    /\ up
    /\ \/ \E f \in Usable : Add(f)
       \/ One
       \/ Ask
       \/ Grant
       \/ Refuse
       \/ Halt

Spec == Init /\ [][Next]_vars

=============================================================================
