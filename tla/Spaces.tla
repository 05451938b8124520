-------------------------------- MODULE Spaces --------------------------------
(***************************************************************************)
(* What the page tables are for: every root gives a frame to some of its   *)
(* pages. One page, or one block, is mapped or unmapped at a time, frames  *)
(* come from those nobody uses and go back there, and no other page of any *)
(* root notices. There are no tables below the root here.                  *)
(***************************************************************************)
EXTENDS Integers

CONSTANTS
    Pages, LowerHalf,
    Frames       \* the frames that can be claimed

VARIABLES
    maps,        \* per root table, the frame behind each page, or 0
    unused,      \* the frames nobody uses
    void         \* a root was made of what somebody had left in a frame

vars == <<maps, unused, void>>

Init ==
    /\ DOMAIN maps = {}
    /\ unused = Frames
    /\ void = FALSE

\* Memory is set aside: for tables, for a section to be mapped, for a stack.
Claim == unused' \subseteq unused

\* A root with an empty lower half and the upper half of another.
New ==
    \E r \in unused \ unused' :
        /\ DOMAIN maps' = DOMAIN maps \cup {r}
        /\ \A other \in DOMAIN maps : maps'[other] = maps[other]
        /\ \A p \in LowerHalf : maps'[r][p] = 0
        /\ \A other \in DOMAIN maps : \A p \in Pages \ LowerHalf : maps'[r][p] = maps[other][p]

\* The pages of a root that a step gives another frame.
Changed(r) == {p \in Pages : maps'[r][p] # maps[r][p]}

Map(r) ==
    LET block == Changed(r) IN
    /\ DOMAIN maps' = DOMAIN maps
    /\ \A other \in DOMAIN maps \ {r} : maps'[other] = maps[other]
    /\ \A p, q \in block : maps'[r][q] - maps'[r][p] = q - p
    /\ \A p \in block : maps'[r][p] \notin unused' \cup {0}
    /\ \A p \in block \cap LowerHalf : maps[r][p] = 0

Unmap(r, p) ==
    /\ maps[r][p] \notin unused \cup {0}
    /\ maps' = [maps EXCEPT ![r][p] = 0]
    /\ unused' = unused \cup {maps[r][p]}

Step ==
    \/ Claim /\ maps' = maps
    \/ Claim /\ New
    \/ Claim /\ \E r \in DOMAIN maps : Map(r)
    \/ \E r \in DOMAIN maps, p \in LowerHalf : Unmap(r, p)

\* A root nobody has cleared: from here on nothing is promised.
Spoil == void \/ DOMAIN maps' # DOMAIN maps

Next == IF void' THEN Spoil ELSE Step /\ ~void

Spec == Init /\ [][Next]_vars

=============================================================================
