------------------------------ MODULE PageTables ------------------------------
(***************************************************************************)
(* The page table walks of LSD/src/memory/vmm.rs, as functions of what the *)
(* tables hold. A page is its number, a frame is its number, and m maps    *)
(* every frame that is used as a table to its entries. Permission bits are *)
(* left out: every caller maps with at least one of READ, WRITE, EXECUTE.  *)
(***************************************************************************)
EXTENDS Integers, Sequences, FiniteSets

CONSTANTS
    Levels,   \* LEVELS: the level of a root table; the lowest level is 1
    Fan       \* entries of a table, 512 in the code

ASSUME ShapeAssumption ==
    /\ Levels \in Nat \ {0, 1}
    /\ Fan \in Nat \ {0}
    /\ Fan % 2 = 0

Slots == 0 .. Fan - 1

UpperSlots == Fan \div 2 .. Fan - 1

\* Fan to the power of n: the pages under a table of level n.
Power[n \in 0 .. Levels] == IF n = 0 THEN 1 ELSE Fan * Power[n - 1]

Span(l) == Power[l - 1]            \* pages under an entry of level l
Pages == 0 .. Power[Levels] - 1
NoFrame == 0

\* VirtualAddress::index
Index(page, l) == (page \div Span(l)) % Fan

\* is_leaf, is_branch; stale: bits above the PPN that nobody has cleared.
Entry == [kind : {"none", "branch", "leaf"}, frame : Nat, stale : BOOLEAN]
NoEntry == [kind |-> "none", frame |-> NoFrame, stale |-> FALSE]
Leaf(f) == [kind |-> "leaf", frame |-> f, stale |-> FALSE]
Cleared == [i \in Slots |-> NoEntry]

\* set_ppn and set_valid on an entry that was not valid: the rest stays.
Branch(e, f) == [kind |-> "branch", frame |-> f, stale |-> e.stale]

\* What a claimed frame holds when nobody clears it. Its first words were the links
\* of the free list: prev, null at the head, and next, page aligned and so no valid
\* entry, but with the high bits of an HHDM address. Every other word is as found.
Unwiped(found) ==
    [i \in Slots |-> IF i \in {0, 1} THEN [NoEntry EXCEPT !.stale = i = 1] ELSE found[i]]

\* The same of a frame that held nothing but the links.
Linked == Unwiped(Cleared)

\* A table that map has claimed.
NewTable == Cleared

\* The tables met on the way down to a page, per level.
Path(m, root, page) ==
    LET path[l \in 1 .. Levels] ==
          IF l = Levels THEN root
          ELSE LET above == path[l + 1]
                   e == m[above][Index(page, l + 1)]
               IN IF above # NoFrame /\ e.kind = "branch" THEN e.frame ELSE NoFrame
    IN path

\* The frame behind a page. The kernel follows every branch, the processor
\* (hard) none with reserved bits set.
Frame(m, root, page, hard) ==
    LET down[l \in 1 .. Levels] ==
          [t \in DOMAIN m |->
             LET e == m[t][Index(page, l)] IN
             IF e.kind = "leaf"
               THEN e.frame - (e.frame % Span(l)) + (page % Span(l))
               ELSE IF e.kind = "branch" /\ l > 1 /\ (hard => ~e.stale)
                 THEN down[l - 1][e.frame] ELSE NoFrame]
    IN down[Levels][root]

virt_to_phys(m, root, page) == Frame(m, root, page, FALSE)
Translate(m, root, page) == Frame(m, root, page, TRUE)

-----------------------------------------------------------------------------
(* map *)

\* The level of the lowest table on the way to the target.
Deepest(m, root, page, target) ==
    LET path == Path(m, root, page) IN
    CHOOSE l \in target .. Levels :
        /\ path[l] # NoFrame
        /\ \A k \in target .. l - 1 : path[k] = NoFrame

\* How many tables map claims, and whether it meets a leaf: "Didnt expect leaf".
NewTables(m, root, page, target) == Deepest(m, root, page, target) - target
MapPanics(m, root, page, target) ==
    LET l == Deepest(m, root, page, target) IN
    l > target /\ m[Path(m, root, page)[l]][Index(page, l)].kind = "leaf"

\* map, the tables it needs being new[1], new[2], ... from the top down.
MapIn(m, new, root, page, f, target) ==
    LET l == Deepest(m, root, page, target)
        bottom == Path(m, root, page)[l]
        below(i, e) == IF i = Len(new) THEN Leaf(f) ELSE Branch(e, new[i + 1])
        claimed == {new[i] : i \in DOMAIN new}
    IN [t \in DOMAIN m \cup claimed |->
          IF t \in claimed
            THEN LET i == CHOOSE i \in DOMAIN new : new[i] = t
                 IN [NewTable EXCEPT ![Index(page, l - i)] = below(i, NoEntry)]
            ELSE IF t = bottom THEN [m[t] EXCEPT ![Index(page, l)] = below(0, @)]
                               ELSE m[t]]

-----------------------------------------------------------------------------
(* unmap, from a root down to level 1 *)

\* "No leaf found while unmapping", "Unexpected entry", "No entry found".
UnmapPanics(m, root, page) ==
    LET t == Path(m, root, page)[1] IN
    t = NoFrame \/ m[t][Index(page, 1)].kind # "leaf"

\* Deviation: the cleared copy of the table is not written back.
UnmapInCopy(m, root, page) == m

UnmapIn(m, root, page) ==
    [m EXCEPT ![Path(m, root, page)[1]][Index(page, 1)] = NoEntry]

-----------------------------------------------------------------------------
(* clone_table_range: a deep copy that claims a frame per table it meets.  *)
(* A table below the root is named by its level and its first page.        *)

Below(m, root, slots) ==
    {n \in (1 .. Levels - 1) \X Pages :
        /\ n[2] % Power[n[1]] = 0
        /\ Index(n[2], Levels) \in slots
        /\ Path(m, root, n[2])[n[1]] # NoFrame}

\* Depth first: a table is claimed before what is below and behind it.
Rank(nodes, n) ==
    1 + Cardinality({o \in nodes : o[2] < n[2] \/ (o[2] = n[2] /\ o[1] > n[1])})

CloneSize(m, root, slots) == Cardinality(Below(m, root, slots))

\* Deviation: the entries are copied, the tables below them are not.
CopiedShallow(m, nodes, new, table, l, b) == m[table]

\* What the copy of a table at level l, first page b, holds: its own tables.
Copied(m, nodes, new, table, l, b) ==
    [i \in Slots |->
        LET e == m[table][i]
            child == <<l - 1, b + i * Span(l)>>
        IN IF e.kind = "branch" THEN [e EXCEPT !.frame = new[Rank(nodes, child)]]
           ELSE IF e.kind = "leaf" THEN e ELSE NoEntry]

\* m with src's slots copied to dest, the copies in new.
clone_table_range(m, new, src, dest, slots) ==
    LET nodes == Below(m, src, slots)
        root == Copied(m, nodes, new, src, Levels, 0)
    IN [t \in DOMAIN m \cup {new[i] : i \in DOMAIN new} |->
          IF t = dest THEN [i \in Slots |-> IF i \in slots THEN root[i] ELSE m[dest][i]]
          ELSE IF \E n \in nodes : new[Rank(nodes, n)] = t
            THEN LET n == CHOOSE n \in nodes : new[Rank(nodes, n)] = t
                 IN Copied(m, nodes, new, Path(m, src, n[2])[n[1]], n[1], n[2])
            ELSE m[t]]

=============================================================================
