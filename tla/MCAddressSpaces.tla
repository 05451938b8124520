--------------------------- MODULE MCAddressSpaces ---------------------------
(* A machine of three levels with six entries a table: 216 pages, the upper  *)
(* half from page 108 on. Frames above 100 are not usable memory.            *)
EXTENDS AddressSpacesRefinement

\* The HHDM is one leaf of the root, the kernel two pages below slot 5.
To(f) == [kind |-> "branch", frame |-> f, stale |-> FALSE]

Boot == [t \in {101, 102, 103} |->
            CASE t = 101 -> [Cleared EXCEPT ![3] = Leaf(108), ![5] = To(102)]
              [] t = 102 -> [Cleared EXCEPT ![1] = To(103)]
              [] t = 103 -> [Cleared EXCEPT ![0] = Leaf(301), ![1] = Leaf(302)]]

\* IO in the last two level 2 entries, as in the code.
Io == <<Request(204, 402, 2), Request(210, 408, 2)>>

\* Neighbours, a hole, and a long run behind it.
Frames58 == [i \in 1 .. 58 |-> IF i <= 5 THEN i ELSE i + 2]

\* Slot 2 is for programs, as in Sv39 when they are linked at 2 GiB.
TwoSegments == <<[page |-> 6, pages |-> 1], [page |-> 77, pages |-> 2]>>
FarSegments == <<[page |-> 80, pages |-> 2]>>
TwoPrograms == <<TwoSegments, FarSegments>>
OneProgram == <<FarSegments>>

Scattered == {[base |-> 6, pages |-> 1, kind |-> "scattered"],
              [base |-> 11, pages |-> 2, kind |-> "contiguous"]}
Constrained == {[base |-> 1, pages |-> 2, kind |-> "constrained"]}

\* A page of somebody's, read as a table: a leaf, or a branch to a table in use, which
\* stands for any other frame.
Left == {[Cleared EXCEPT ![2] = Leaf(300)], [Cleared EXCEPT ![2] = To(102)]}
EveryFrame == {Frames58[i] : i \in DOMAIN Frames58}
=============================================================================
