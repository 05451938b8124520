----------------------- MODULE AddressSpacesRefinement -----------------------
(***************************************************************************)
(* The page tables implement Spaces: the frame behind a page is what       *)
(* virt_to_phys finds, and the unused frames are those on the free list.   *)
(***************************************************************************)
EXTENDS AddressSpaces

Abstract == INSTANCE Spaces WITH
    Frames <- Usable,
    maps   <- [r \in Roots |-> [p \in Pages |-> virt_to_phys(mem, r, p)]],
    unused <- {free[i] : i \in DOMAIN free},
    void   <- dirty

\* However tables are claimed, shared, copied and extended on the way, a call
\* changes what it was asked to change in the table it was asked about, one
\* page or block at a time, and maps no frame that can still be claimed.
ImplementsSpaces == Abstract!Spec

=============================================================================
