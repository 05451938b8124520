---------------------------- MODULE AddressSpaces ----------------------------
(***************************************************************************)
(* Who builds page tables and when: vmm::init at boot, new_with_upperhalf  *)
(* for a second core or a program, userspace::load, and the Vmm of drivers *)
(* (LSD/src/memory/vmm.rs, LSD/src/userspace.rs, LSD/src/main.rs).         *)
(*                                                                         *)
(* A call that maps or unmaps a range is a list of requests, one step per  *)
(* page, in between which the processor may cache a translation. The frame *)
(* allocator is its list of free frames, see FreeList.                     *)
(***************************************************************************)
EXTENDS PageTables

CONSTANTS
    Memory,       \* the frames on the free list at boot, in order
    BootMem,      \* the tables the bootloader leaves, BootRoot among them
    BootRoot,
    IoRequests,   \* the mappings of "Mapping IO"
    Programs,     \* what kmain loads, in order: sequences of segments [page, pages]
    StackBlocks,  \* level 2 pages of a program's stack, 4 in the code
    HartStack,    \* frames of a core's stack, 0x80 in the code
    Written,      \* the frames that firmware and bootloader have not left zero
    Leftovers,    \* bound: what a written frame may hold, read as a table
    Calls,        \* what is asked of a Vmm: [base, pages, kind]
    MaxHarts,     \* bound: other cores
    MaxAllocs,    \* bound: calls of Vmm::alloc
    Watched       \* bound: the pages whose cached translation is followed

VARIABLES
    mem,       \* the tables: frame -> entries
    free,      \* the free list
    kernel,    \* the kernel's own root table
    satp,      \* the root of the table in use
    tasks,     \* loaded programs: [root, segments, stack]
    harts,     \* other cores: [root, stack]
    sections,  \* what the arena of the Vmm has handed out: [base, pages]
    work,      \* the call in progress
    tlb,       \* cached translations <<page, frame>> of the table in use
    allocs,    \* how often Vmm::alloc has been called
    panicked,
    written,   \* the frames that somebody has written to before they were listed
    dirty      \* a root has been made of such a frame and not been cleared

vars == <<mem, free, kernel, satp, tasks, harts, sections, work, tlb, allocs, panicked,
          written, dirty>>

Idle == [op |-> "idle", root |-> NoFrame, todo |-> << >>, segments |-> << >>,
         stack |-> 0]
Request(page, f, target) == [page |-> page, frame |-> f, target |-> target]
Section(b, n) == b .. b + n - 1
Half == Power[Levels] \div 2   \* the first page of the upper half
LowerHalf == 0 .. Half - 1

\* The frames of the memory map are distinct, and none of them is in use.
ASSUME MemoryAssumption ==
    /\ Memory \in Seq(Nat \ {NoFrame})
    /\ \A i, j \in DOMAIN Memory : Memory[i] = Memory[j] => i = j
    /\ \A i \in DOMAIN Memory : Memory[i] \notin DOMAIN BootMem

\* The bootloader's tables lead to each other, and from its root no deeper
\* than there are levels.
ASSUME BootAssumption ==
    /\ BootRoot \in DOMAIN BootMem /\ NoFrame \notin DOMAIN BootMem
    /\ BootMem \in [DOMAIN BootMem -> [Slots -> Entry]]
    /\ \A t \in DOMAIN BootMem, i \in Slots :
          BootMem[t][i].kind = "branch" => BootMem[t][i].frame \in DOMAIN BootMem
    /\ \A p \in Pages :
          LET t == Path(BootMem, BootRoot, p)[1] IN
          t # NoFrame => BootMem[t][Index(p, 1)].kind # "branch"

\* IO lies in the upper half, programs and what a Vmm hands out in the lower,
\* and a slot of the root has room for a stack.
ASSUME RequestAssumption ==
    /\ IoRequests \in Seq([page : Pages \ LowerHalf, frame : Nat, target : 1 .. Levels])
    /\ Programs \in Seq(Seq([page : Nat, pages : Nat]))
    /\ \A n \in DOMAIN Programs : \A i \in DOMAIN Programs[n] :
          Section(Programs[n][i].page, Programs[n][i].pages) \subseteq LowerHalf
    /\ \A c \in Calls : /\ c.base \in Nat /\ c.pages \in Nat
                       /\ Section(c.base, c.pages) \subseteq LowerHalf
    /\ StackBlocks \in Nat /\ StackBlocks * Span(2) <= Span(Levels)
    /\ HartStack \in Nat
    /\ Watched \subseteq Pages

\* The HHDM takes the first slot of the upper half, and the bootloader has neither a
\* leaf above nor a table below what is mapped for IO, block by block, outside of the
\* memory map: the kernel is linked 20 GiB below IO, under other entries of level 3.
ASSUME IoAssumption ==
    /\ BootMem[BootRoot][Fan \div 2].kind # "none"
    /\ \A i \in DOMAIN IoRequests :
          LET r == IoRequests[i] IN
          /\ ~MapPanics(BootMem, BootRoot, r.page, r.target)
          /\ r.target > 1 => Path(BootMem, BootRoot, r.page)[r.target - 1] = NoFrame
          /\ r.frame # NoFrame /\ r.frame % Span(r.target) = 0
          /\ \A j \in DOMAIN Memory : Memory[j] \notin Section(r.frame, Span(r.target))
          /\ \A j \in DOMAIN IoRequests \ {i} :
                IoRequests[j].page \div Span(r.target) # r.page \div Span(r.target)

\* The segments of a program are apart, and none is in slot 1 of the root: they are
\* linked at 1 and 2 GiB, in slot 0 of Sv48 and Sv57.
ASSUME LoadAssumption ==
    \A n \in DOMAIN Programs : \A i \in DOMAIN Programs[n] :
        LET code == Section(Programs[n][i].page, Programs[n][i].pages) IN
        /\ \A p \in code : Index(p, Levels) # 1
        /\ \A j \in DOMAIN Programs[n] \ {i} :
              code \cap Section(Programs[n][j].page, Programs[n][j].pages) = {}

Init ==
    /\ mem = BootMem
    /\ free = Memory
    /\ kernel = NoFrame
    /\ satp = BootRoot
    /\ tasks = << >>
    /\ harts = {}
    /\ sections = {}
    /\ work = Idle
    /\ tlb = {}
    /\ allocs = 0
    /\ panicked = FALSE
    /\ written = Written
    /\ dirty = FALSE

Ready == work = Idle /\ ~panicked
Booted == kernel # NoFrame
Mapping == work.todo # << >> /\ work.op # "free" /\ ~panicked
Ended(op) == work.op = op /\ work.todo = << >> /\ ~panicked

\* claim_continuous and claim_aligned: the first run on a list, see FreeList.
RunAt(list, i, n, align) ==
    /\ i + n <= Len(list)
    /\ list[i] % align = 0
    /\ \A j \in 1 .. n - 1 : list[i + j] = list[i] + j
HasRun(list, n, align) == \E i \in DOMAIN list : RunAt(list, i, n, align)
Run(list, n, align) == CHOOSE i \in DOMAIN list :
                          /\ RunAt(list, i, n, align)
                          /\ \A j \in 1 .. i - 1 : ~RunAt(list, j, n, align)
Without(list, i, n) == SubSeq(list, 1, i - 1) \o SubSeq(list, i + n, Len(list))
First(n) == SubSeq(free, 1, n)
After(n) == SubSeq(free, n + 1, Len(free))

\* A root table with the kernel half of the table in use, and how much it took.
Cost == 1 + CloneSize(mem, satp, UpperSlots)
Enough == Len(free) > Cost
WithRoot(entries) ==
    LET root == free[1]
        tables == [t \in DOMAIN mem \cup {root} |-> IF t = root THEN entries ELSE mem[t]]
    IN clone_table_range(tables, Tail(First(Cost)), satp, root, UpperSlots)

\* What firmware, bootloader or a former holder have left in a frame.
Found(f) == IF f \in written THEN Leftovers ELSE {Cleared}

new_with_upperhalf ==
    /\ \E found \in Found(free[1]) : mem' = WithRoot(Unwiped(found))
    /\ dirty' = (dirty \/ free[1] \in written)

-----------------------------------------------------------------------------
(* vmm::init *)

vmm_init ==
    /\ Ready
    /\ ~Booted
    /\ Enough
    /\ mem' = WithRoot(Cleared)
    /\ free' = After(Cost)
    /\ kernel' = free[1]
    /\ work' = [Idle EXCEPT !.op = "init", !.root = free[1], !.todo = IoRequests]
    /\ UNCHANGED <<satp, tasks, harts, sections, tlb, allocs, panicked,
                   written, dirty>>

\* Satp::set writes satp and flushes everything.
SetSatp(root) == satp' = root /\ tlb' = {}

InitDone ==
    /\ Ended("init")
    /\ SetSatp(kernel)
    /\ work' = Idle
    /\ UNCHANGED <<mem, free, kernel, tasks, harts, sections, allocs, panicked,
                   written, dirty>>

-----------------------------------------------------------------------------
(* One page of a call: map, or unmap, pull and flush *)

\* Deviation: no sfence.vma.
NotFlushed(page) == tlb

Flushed(page) == {c \in tlb : c[1] # page}

\* The frame of a request: the section claimed before the loop, or a claim.
MapNext ==
    /\ Mapping
    /\ LET r == Head(work.todo)
           claims == IF r.frame = NoFrame THEN 1 ELSE 0
           f == IF r.frame = NoFrame THEN free[1] ELSE r.frame
           n == NewTables(mem, work.root, r.page, r.target)
       IN /\ Len(free) > claims + n
          /\ panicked' = MapPanics(mem, work.root, r.page, r.target)
          /\ IF panicked' THEN UNCHANGED <<mem, free, tlb>>
             ELSE /\ mem' = MapIn(mem, SubSeq(free, claims + 1, claims + n),
                                  work.root, r.page, f, r.target)
                  /\ free' = After(claims + n)
                  /\ tlb' = IF work.op = "alloc" THEN Flushed(r.page) ELSE tlb
    /\ work' = [work EXCEPT !.todo = Tail(@)]
    /\ UNCHANGED <<kernel, satp, tasks, harts, sections, allocs, written, dirty>>

UnmapNext ==
    /\ work.op = "free" /\ work.todo # << >> /\ ~panicked
    /\ LET page == Head(work.todo).page IN
          /\ panicked' = UnmapPanics(mem, work.root, page)
          /\ IF panicked' THEN UNCHANGED <<mem, free, tlb, written>>
             ELSE /\ free' = <<virt_to_phys(mem, work.root, page)>> \o free
                  /\ mem' = UnmapIn(mem, work.root, page)
                  /\ tlb' = Flushed(page)
                  /\ written' = written \cup {virt_to_phys(mem, work.root, page)}
    /\ work' = [work EXCEPT !.todo = Tail(@)]
    /\ UNCHANGED <<kernel, satp, tasks, harts, sections, allocs, dirty>>

-----------------------------------------------------------------------------
(* Vmm::alloc, alloc_constrained, free: drivers, under the kernel's table *)

AtBoot == Booted /\ satp = kernel /\ Ready

\* Deviation: Vmm::alloc steps to the next frame before it maps the first, too.
FrameOfNext(kind, phys, i) == IF kind = "scattered" THEN NoFrame ELSE phys + i

\* alloc_constrained steps to the next frame before it maps the first.
FrameOf(kind, phys, i) ==
    IF kind = "scattered" THEN NoFrame
    ELSE IF kind = "contiguous" THEN phys + i - 1
    ELSE phys + i

Alloc(c) ==
    /\ AtBoot
    /\ allocs < MaxAllocs
    /\ allocs' = allocs + 1
    /\ \A s \in sections : Section(c.base, c.pages) \cap Section(s.base, s.pages) = {}
    /\ HasRun(free, c.pages, 1)
    /\ LET i == Run(free, c.pages, 1) IN
         /\ free' = IF c.kind = "scattered" THEN free ELSE Without(free, i, c.pages)
         /\ work' = [Idle EXCEPT !.op = "alloc", !.root = satp, !.todo =
                       [k \in 1 .. c.pages |->
                          Request(c.base + k - 1, FrameOf(c.kind, free[i], k), 1)]]
    /\ sections' = sections \cup {[base |-> c.base, pages |-> c.pages]}
    /\ UNCHANGED <<mem, kernel, satp, tasks, harts, tlb, panicked,
                   written, dirty>>

Free(s) ==
    /\ AtBoot
    /\ s \in sections
    /\ sections' = sections \ {s}
    /\ work' = [Idle EXCEPT !.op = "free", !.root = satp, !.todo =
                  [k \in 1 .. s.pages |-> Request(s.base + k - 1, NoFrame, 1)]]
    /\ UNCHANGED <<mem, free, kernel, satp, tasks, harts, tlb, allocs, panicked,
                   written, dirty>>

CallDone ==
    /\ Ended("alloc") \/ Ended("free")
    /\ work' = Idle
    /\ UNCHANGED <<mem, free, kernel, satp, tasks, harts, sections, tlb, allocs, panicked,
                   written, dirty>>

-----------------------------------------------------------------------------
(* smp_init: a table and a stack for another core *)

StartHart ==
    /\ AtBoot
    /\ tasks = << >>
    /\ Cardinality(harts) < MaxHarts
    /\ Enough
    /\ new_with_upperhalf
    /\ LET left == After(Cost)
           i == Run(left, HartStack, 1)
       IN /\ HasRun(left, HartStack, 1)
          /\ free' = Without(left, i, HartStack)
          /\ harts' = harts \cup {[root |-> free[1], stack |-> left[i]]}
    /\ UNCHANGED <<kernel, satp, tasks, sections, work, tlb, allocs, panicked, written>>

-----------------------------------------------------------------------------
(* userspace::load *)

Load ==
    /\ AtBoot
    /\ Len(tasks) < Len(Programs)
    /\ Enough
    /\ new_with_upperhalf
    /\ free' = After(Cost)
    /\ work' = [Idle EXCEPT !.op = "load", !.root = free[1],
                            !.segments = Programs[Len(tasks) + 1]]
    /\ UNCHANGED <<kernel, satp, tasks, harts, sections, tlb, allocs, panicked, written>>

LoadSegment ==
    /\ Ended("load")
    /\ work.segments # << >>
    /\ LET s == Head(work.segments) IN
         /\ HasRun(free, s.pages, 1)
         /\ LET i == Run(free, s.pages, 1) IN
              /\ free' = Without(free, i, s.pages)
              /\ work' = [work EXCEPT !.segments = Tail(@), !.todo =
                            [k \in 1 .. s.pages |->
                               Request(s.page + k - 1, free[i] + k - 1, 1)]]
    /\ UNCHANGED <<mem, kernel, satp, tasks, harts, sections, tlb, allocs, panicked,
                   written, dirty>>

\* The slots of the root that the arena of the program is made from.
ArenaSlots(root) == {i \in 1 .. Fan \div 2 : mem[root][i].kind = "none"}

LoadStack ==
    /\ Ended("load")
    /\ work.segments = << >>
    /\ HasRun(free, StackBlocks * Span(2), Span(2))
    /\ \E slot \in ArenaSlots(work.root) :
         LET i == Run(free, StackBlocks * Span(2), Span(2))
             base == slot * Span(Levels)
         IN /\ free' = Without(free, i, StackBlocks * Span(2))
            /\ work' = [work EXCEPT !.op = "stack", !.stack = base, !.todo =
                          [k \in 1 .. StackBlocks |->
                             Request(base + (k - 1) * Span(2), free[i] + (k - 1) * Span(2), 2)]]
    /\ UNCHANGED <<mem, kernel, satp, tasks, harts, sections, tlb, allocs, panicked,
                   written, dirty>>

LoadDone ==
    /\ Ended("stack")
    /\ tasks' = Append(tasks, [root |-> work.root, segments |-> Programs[Len(tasks) + 1],
                               stack |-> work.stack])
    /\ work' = Idle
    /\ UNCHANGED <<mem, free, kernel, satp, harts, sections, tlb, allocs, panicked,
                   written, dirty>>

-----------------------------------------------------------------------------
(* Tasks run, the processor caches what it translates *)

Switch ==
    /\ Ready
    /\ Len(tasks) = Len(Programs)
    /\ \E t \in DOMAIN tasks : SetSatp(tasks[t].root)
    /\ UNCHANGED <<mem, free, kernel, tasks, harts, sections, work, allocs, panicked,
                   written, dirty>>

Touch(page) ==
    /\ Booted
    /\ Translate(mem, satp, page) # NoFrame
    /\ tlb' = tlb \cup {<<page, Translate(mem, satp, page)>>}
    /\ UNCHANGED <<mem, free, kernel, satp, tasks, harts, sections, work, allocs, panicked,
                   written, dirty>>

Next ==
    \/ vmm_init
    \/ InitDone
    \/ MapNext
    \/ UnmapNext
    \/ \E c \in Calls : Alloc(c)
    \/ \E s \in sections : Free(s)
    \/ CallDone
    \/ StartHart
    \/ Load
    \/ LoadSegment
    \/ LoadStack
    \/ LoadDone
    \/ Switch
    \/ \E page \in Watched : Touch(page)

Spec == Init /\ [][Next]_vars

-----------------------------------------------------------------------------
(* Properties *)

Usable == {Memory[i] : i \in DOMAIN Memory}
Loading == work.op \in {"load", "stack"}
Roots == (IF Booted THEN {kernel} ELSE {})
            \cup {tasks[t].root : t \in DOMAIN tasks}
            \cup {h.root : h \in harts}
            \cup (IF Loading THEN {work.root} ELSE {})

\* Every root that was not cleared is of a frame that nobody had written to. Nothing in
\* the code sees to it (vmm.rs:195), so it is the condition of all that follows.
Clean == ~dirty

TypeOK ==
    /\ mem \in [DOMAIN mem -> [Slots -> Entry]]
    /\ \A t \in DOMAIN mem, i \in Slots :
          mem[t][i].kind = "branch" => mem[t][i].frame \in DOMAIN mem
    /\ free \in Seq(Usable)
    /\ satp \in DOMAIN mem
    /\ Roots \subseteq DOMAIN mem \cap Usable
    /\ \A s \in sections : Section(s.base, s.pages) \subseteq LowerHalf
    /\ panicked \in BOOLEAN

\* Frames the call in progress has claimed but not mapped yet.
Awaiting ==
    UNION {Section(r.frame, Span(r.target)) :
             r \in {work.todo[i] : i \in DOMAIN work.todo} \ {Request(p, NoFrame, 1) : p \in Pages}}

\* How often a frame is listed, a root or under a branch, behind a lower half
\* page, in the stack of a core, or about to be mapped.
Holders(f, mappings) ==
    Cardinality({i \in DOMAIN free : free[i] = f})
    + Cardinality({x \in mappings : x[3] = f})
    + Cardinality({e \in (DOMAIN mem \cap Usable) \X Slots :
                     mem[e[1]][e[2]].kind = "branch" /\ mem[e[1]][e[2]].frame = f})
    + Cardinality({h \in harts : f \in Section(h.stack, HartStack)})
    + (IF f \in Roots THEN 1 ELSE 0)
    + (IF f \in Awaiting THEN 1 ELSE 0)

\* No frame is lost and none serves two purposes: on the free list, as a
\* table, as memory of one page of one program or driver, or as a stack.
OneHolder ==
    LET mappings == {<<r, p, virt_to_phys(mem, r, p)>> : r \in Roots, p \in LowerHalf} IN
    ~panicked => \A f \in Usable : Holders(f, mappings) = 1

\* Whatever table is in use, the kernel, the HHDM and IO are where they were.
KernelHalfShared ==
    Booted /\ work.op # "init" =>
        \A r \in Roots, p \in Pages \ LowerHalf :
            Translate(mem, r, p) = Translate(mem, kernel, p)

\* The pages of the segments of a loaded program are there for it, and its
\* lower half has nothing else but the stack.
ProgramMapped ==
    \A t \in DOMAIN tasks :
        LET code == UNION {Section(tasks[t].segments[i].page, tasks[t].segments[i].pages) :
                             i \in DOMAIN tasks[t].segments}
            stack == Section(tasks[t].stack, StackBlocks * Span(2))
        IN \A p \in LowerHalf :
             /\ p \in code => Translate(mem, tasks[t].root, p) # NoFrame
             /\ (virt_to_phys(mem, tasks[t].root, p) # NoFrame) <=> p \in code \cup stack

\* Between calls exactly the sections that are allocated are mapped.
SectionsMapped ==
    Booted /\ Ready =>
        \A p \in LowerHalf :
            (Translate(mem, kernel, p) # NoFrame)
              <=> \E s \in sections : p \in Section(s.base, s.pages)

\* The processor never holds a translation that the table no longer gives.
TlbFresh == Clean => \A c \in tlb : Translate(mem, satp, c[1]) = c[2]

\* No call meets a leaf where a table should be, or nothing where a page should.
NeverPanics == ~panicked

\* The tables are trees of frames of their own that share the kernel's half, and
\* no handler of map, unmap or load meets an entry it does not expect.
TablesSound == Clean => TypeOK /\ OneHolder /\ KernelHalfShared /\ NeverPanics

\* What is loaded or allocated is mapped, and in no lower half is anything else.
PagesMapped == Clean => ProgramMapped /\ SectionsMapped

\* "Only call on memory that is being unused, and wont be used later".
PullsUnused ==
    [][Clean /\ work.op = "free" /\ work.todo # << >> /\ Len(free') = Len(free) + 1
         => \A i \in DOMAIN free : free[i] # free'[1]]_vars

\* "Mapping 0x.. to 0x..": the stack is where a program is told it is.
StackMapped ==
    \A t \in DOMAIN tasks : \A p \in Section(tasks[t].stack, StackBlocks * Span(2)) :
        Translate(mem, tasks[t].root, p) # NoFrame

=============================================================================
