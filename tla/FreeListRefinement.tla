-------------------------- MODULE FreeListRefinement --------------------------
(***************************************************************************)
(* The linked list implements FrameAllocator: the free frames are those    *)
(* nobody holds, and what is asked for is what the search looks for.       *)
(***************************************************************************)
EXTENDS FreeList

Allocator == INSTANCE FrameAllocator WITH
    Usable <- {Map[i] : i \in DOMAIN Map},
    free   <- Free,
    asked  <- IF Searching THEN <<scan.frames, scan.align>> ELSE << >>,
    up     <- ~fault

\* Whatever the list looks like, one claim takes one free frame, and a search
\* takes exactly the aligned section it was asked for, or nothing.
ImplementsAllocator == Allocator!Spec

=============================================================================
