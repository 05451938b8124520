---------------------------- MODULE HeapRefinement ----------------------------
(***************************************************************************)
(* The list of free regions implements HeapBlocks.                         *)
(***************************************************************************)
EXTENDS Heap

Promise == INSTANCE HeapBlocks WITH Start <- HeapStart, Size <- HeapSize

\* Whatever is allocated and freed in whatever order, callers get what
\* GlobalAlloc promises them.
ImplementsHeapBlocks == Promise!Spec

=============================================================================
