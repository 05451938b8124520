--------------------------------- MODULE Heap ---------------------------------
(***************************************************************************)
(* The kernel's heap, LSD/src/memory/linked_list.rs: a list of free        *)
(* regions, searched first fit, that are split and never joined again.     *)
(* Each operation runs under the allocator's spin lock and is one step.    *)
(* Addresses and sizes are in bytes.                                       *)
(***************************************************************************)
EXTENDS Integers, Sequences, FiniteSets, SequencesExt

CONSTANTS
    HeapStart,      \* the address of HEAP
    HeapSize,       \* 16384
    NodeSize,       \* size_of::<ListNode>(), 16
    NodeAlign,      \* align_of::<ListNode>(), 8
    Layouts,        \* what is allocated: [size, align]
    Null            \* not a block

ASSUME HeapAssumption ==
    /\ HeapStart \in Nat /\ HeapSize \in Nat
    /\ NodeAlign \in Nat \ {0} /\ NodeSize \in Nat \ {0}
    /\ NodeSize % NodeAlign = 0
    /\ HeapStart % NodeAlign = 0     \* HEAP is an array of u8: nothing aligns it
    /\ HeapSize % NodeAlign = 0
    /\ HeapSize >= NodeSize
    /\ \A l \in Layouts : l.size \in Nat /\ l.align \in Nat \ {0}
                          /\ (l.align % NodeAlign = 0 \/ NodeAlign % l.align = 0)

VARIABLES
    free,       \* the list of free regions, first to last
    live,       \* blocks handed out: [addr, layout]
    freed       \* the block freed last, if nothing was asked for since, or Null

vars == <<free, live, freed>>

-----------------------------------------------------------------------------
(* Regions *)

Region(addr, size) == [addr |-> addr, size |-> size]
end_addr(r) == r.addr + r.size

align_up(addr, align) == ((addr + align - 1) \div align) * align

\* size_align: the layout that can hold a ListNode when it is free again.
AlignOf(l) == IF l.align < NodeAlign THEN NodeAlign ELSE l.align

\* Deviation: the size is not padded to the alignment.
Unpadded(l) == IF l.size < NodeSize THEN NodeSize ELSE l.size

SizeOf(l) == LET padded == align_up(l.size, AlignOf(l))
             IN  IF padded < NodeSize THEN NodeSize ELSE padded

\* Deviation: a rest too small to be listed does not matter.
FitsLoosely(r, l) == align_up(r.addr, AlignOf(l)) + SizeOf(l) <= end_addr(r)

\* alloc_from_region is Ok
Fits(r, l) ==
    LET end == align_up(r.addr, AlignOf(l)) + SizeOf(l)
    IN  /\ end <= end_addr(r)
        /\ \/ end = end_addr(r)
           \/ end_addr(r) - end >= NodeSize

\* Deviation: the rest starts at the end the block would have had unaligned.
RestEarly(r, l) ==
    LET end == r.addr + SizeOf(l)
    IN  IF end < end_addr(r) THEN <<Region(end, end_addr(r) - end)>> ELSE << >>

\* Deviation: the rest's size is taken the wrong way round.
RestSwapped(r, l) ==
    LET end == align_up(r.addr, AlignOf(l)) + SizeOf(l)
    IN  IF end < end_addr(r) THEN <<Region(end, end - end_addr(r))>> ELSE << >>

\* What of r is listed again. What lies before the aligned start is lost.
Rest(r, l) ==
    LET end == align_up(r.addr, AlignOf(l)) + SizeOf(l)
    IN  IF end < end_addr(r) THEN <<Region(end, end_addr(r) - end)>> ELSE << >>

\* Deviation: a freed region is listed last.
AddLast(list, r) == Append(list, r)

add_free_region(list, r) == <<r>> \o list

\* find_region: the first that fits.
Found(l) == {i \in DOMAIN free : Fits(free[i], l) /\ \A j \in 1 .. i - 1 : ~ Fits(free[j], l)}

-----------------------------------------------------------------------------
(* Operations *)

Init ==
    /\ free = add_free_region(<< >>, Region(HeapStart, HeapSize))
    /\ live = {}
    /\ freed = Null

Alloc(l) ==
    /\ \E i \in Found(l) :
          /\ free' = Rest(free[i], l) \o RemoveAt(free, i)
          /\ live' = live \cup {[addr |-> align_up(free[i].addr, AlignOf(l)), layout |-> l]}
    /\ freed' = Null

\* null_mut() if no region fits
AllocFails(l) ==
    /\ Found(l) = {}
    /\ freed' = Null
    /\ UNCHANGED <<free, live>>

Dealloc(b) ==
    /\ b \in live
    /\ free' = add_free_region(free, Region(b.addr, SizeOf(b.layout)))
    /\ live' = live \ {b}
    /\ freed' = b

Next ==
    \/ \E l \in Layouts : Alloc(l)
    \/ \E l \in Layouts : AllocFails(l)
    \/ \E b \in live : Dealloc(b)

Spec == Init /\ [][Next]_vars

-----------------------------------------------------------------------------
(* Properties *)

Blocks == {Region(b.addr, SizeOf(b.layout)) : b \in live}
Regions == {free[i] : i \in DOMAIN free}
Apart(r, s) == end_addr(r) <= s.addr \/ end_addr(s) <= r.addr
Inside(r) == HeapStart <= r.addr /\ end_addr(r) <= HeapStart + HeapSize
Bytes(rs) == FoldSet(LAMBDA r, n : n + r.size, 0, rs)

TypeOK ==
    /\ free \in Seq([addr : Nat, size : Nat])
    /\ live \subseteq [addr : Nat, layout : Layouts]
    /\ freed \in [addr : Nat, layout : Layouts] \cup {Null}

\* The assertions of add_free_region hold: every region listed is aligned for a
\* ListNode and can hold one, however regions were split.
NodesFit == \A r \in Regions : r.addr % NodeAlign = 0 /\ r.size >= NodeSize

\* No byte is in two places: no two blocks share one, no block contains a part
\* of a free region, where the list keeps its nodes, and no region is listed twice.
NoOverlap ==
    /\ \A r \in Blocks \cup Regions : Inside(r)
    /\ \A r \in Blocks, s \in Regions : Apart(r, s)
    /\ \A r, s \in Blocks : r # s => Apart(r, s)
    /\ \A b, c \in live : b.addr = c.addr => b = c
    /\ \A i, j \in DOMAIN free : i # j => Apart(free[i], free[j])

\* Regions and blocks of alloc and dealloc divide the heap: each lies in it, on
\* its own, and is fit for the node that is or will be written into it.
HeapSound == TypeOK /\ NodesFit /\ NoOverlap

\* A step loses no byte but those an allocation skips to align its block.
LosesAlignmentOnly ==
    [][LET lost == Bytes(Blocks \cup Regions) - Bytes(Blocks' \cup Regions')
       IN  /\ lost >= 0
           /\ lost > 0 => \E b \in live' \ live : lost < b.layout.align]_vars

\* A block that has just been freed is had again, in the same place, by
\* whoever asks for the same layout next: freeing and allocating never drifts.
FreedComesBack ==
    [][freed # Null =>
         /\ ~ AllocFails(freed.layout)
         /\ Alloc(freed.layout) => live' = live \cup {freed}]_vars

=============================================================================
