------------------------------ MODULE MCFreeList ------------------------------
(* Memory maps for FreeList: usable frames with holes between them.          *)
EXTENDS FreeListRefinement

\* Three neighbours, a hole, three more; pages 1, 5 and 9 are never usable.
HoleMap   == <<2, 3, 4, 6, 7, 8>>
HolePages == 1 .. 9

\* A run at the end of the map that a search can be left with.
ShortMap   == <<2, 4, 5>>
ShortPages == 2 .. 6
=============================================================================
