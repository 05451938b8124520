-------------------------------- MODULE MCHeap --------------------------------
(* A heap of 96 bytes that starts at an address no large alignment divides. *)
EXTENDS HeapRefinement

\* A small one, one that leaves a rest of 8 bytes, one aligned like a page.
MCLayouts == {[size |-> 1, align |-> 1], [size |-> 20, align |-> 8], [size |-> 16, align |-> 32]}

=============================================================================
