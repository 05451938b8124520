------------------------- MODULE AddressSpacesProofs -------------------------
(***************************************************************************)
(* Proofs about AddressSpaces: that the processor holds no translation the *)
(* tables no longer give, that no call panics and every program finds its  *)
(* pages, that every frame has one holder, and that the tables implement   *)
(* Spaces.                                                                 *)
(***************************************************************************)
EXTENDS AddressSpacesRefinement, PageTablesProofs

(* Runs of the free list: what is claimed is off it, what is left is as it was. *)

LEMMA RunIs ==
    ASSUME NEW U, NEW list \in Seq(U), NEW n, NEW align, HasRun(list, n, align)
    PROVE  Run(list, n, align) \in DOMAIN list /\ RunAt(list, Run(list, n, align), n, align)
<1> DEFINE T == {i \in DOMAIN list : RunAt(list, i, n, align)}
<1>1. T \in SUBSET Nat /\ T # {}
  BY DEF HasRun
<1> HIDE DEF T
<1>2. PICK i \in T : \A j \in T : i <= j
  BY <1>1, LeastOf
<1>3. i \in Nat /\ i \in DOMAIN list /\ RunAt(list, i, n, align)
  BY <1>1 DEF T
<1>4. \A j \in DOMAIN list : RunAt(list, j, n, align) => i <= j
  BY <1>2 DEF T
<1>5. \A j \in 1 .. i - 1 : ~RunAt(list, j, n, align)
  <2>1. \A j \in 1 .. i - 1 : j \in DOMAIN list /\ ~(i <= j)
    BY <1>3
  <2> QED BY <1>4, <2>1
<1> HIDE DEF T
<1> QED BY <1>3, <1>5 DEF Run

LEMMA WithoutIs ==
    ASSUME NEW U, NEW list \in Seq(U), NEW i \in 1 .. Len(list), NEW n \in Nat, i + n <= Len(list)
    PROVE  /\ Without(list, i, n) \in Seq(U)
           /\ Len(Without(list, i, n)) = Len(list) - n
           /\ \A k \in 1 .. Len(list) - n :
                 Without(list, i, n)[k] = IF k < i THEN list[k] ELSE list[k + n]
<1> DEFINE a == SubSeq(list, 1, i - 1)
           z == SubSeq(list, i + n, Len(list))
<1>1. Len(list) \in Nat /\ i \in Nat \ {0} /\ i - 1 \in Nat /\ i + n \in Nat \ {0}
  OBVIOUS
<1>2. a \in Seq(U) /\ Len(a) = i - 1 /\ \A k \in 1 .. i - 1 : a[k] = list[k]
  <2>1. /\ SubSeq(list, 1, i - 1) \in Seq(U)
        /\ Len(SubSeq(list, 1, i - 1)) = (i - 1) - 1 + 1
        /\ \A k \in 1 .. (i - 1) - 1 + 1 : SubSeq(list, 1, i - 1)[k] = list[1 + k - 1]
    BY <1>1, SubSeqIs
  <2> HIDE DEF a
  <2> QED BY <1>1, <2>1 DEF a
<1>3. z \in Seq(U) /\ Len(z) = Len(list) - (i + n) + 1
      /\ \A k \in 1 .. Len(list) - (i + n) + 1 : z[k] = list[i + n + k - 1]
  BY <1>1, SubSeqIs
<1> HIDE DEF a, z
<1>4. Without(list, i, n) = a \o z
  BY DEF Without, a, z
<1>5. a \o z \in Seq(U) /\ Len(a \o z) = Len(list) - n
      /\ \A k \in 1 .. Len(list) - n : (a \o z)[k] = IF k < i THEN a[k] ELSE z[k - (i - 1)]
  BY <1>1, <1>2, <1>3
<1>6. ASSUME NEW k \in 1 .. Len(list) - n
      PROVE  (a \o z)[k] = IF k < i THEN list[k] ELSE list[k + n]
  <2>1. CASE k < i
    BY <1>1, <1>2, <1>5, <2>1
  <2>2. CASE ~(k < i)
    <3>1. k - (i - 1) \in 1 .. Len(list) - (i + n) + 1 /\ i + n + (k - (i - 1)) - 1 = k + n
      BY <1>1, <2>2
    <3>2. z[k - (i - 1)] = list[k + n]
      BY <1>3, <3>1
    <3> QED BY <1>5, <2>2, <3>2
  <2> QED BY <2>1, <2>2
<1> QED BY <1>4, <1>5, <1>6

\* rest is list without the frames of S.
Moved(list, rest, S) == Holds(rest) = Holds(list) \ S /\ S \subseteq Holds(list)

\* The frames of a run are all in U, and none of them, but all others, are left on
\* the list.
RunOff(list, i, n, U) ==
    /\ PartOf(Without(list, i, n), list, U)
    /\ Moved(list, Without(list, i, n), Section(list[i], n))
    /\ \A k \in 0 .. n - 1 : /\ list[i] + k \in Holds(list)
                             /\ list[i] + k \notin Holds(Without(list, i, n))

LEMMA RunTaken ==
    ASSUME NEW U, U \subseteq Nat, NEW list \in Seq(U), Distinct(list), NEW n \in Nat, NEW align,
           NEW i \in DOMAIN list, RunAt(list, i, n, align)
    PROVE  RunOff(list, i, n, U)
<1> DEFINE s == Without(list, i, n)
           at(k) == IF k < i THEN k ELSE k + n
<1>1. Len(list) \in Nat /\ DOMAIN list = 1 .. Len(list) /\ i \in 1 .. Len(list)
      /\ i + n <= Len(list) /\ \A j \in 1 .. n - 1 : list[i + j] = list[i] + j
  BY DEF RunAt
<1>2. s \in Seq(U) /\ Len(s) = Len(list) - n
      /\ \A k \in 1 .. Len(list) - n : s[k] = list[at(k)]
  <2>1. s \in Seq(U) /\ Len(s) = Len(list) - n
      /\ \A k \in 1 .. Len(list) - n : s[k] = IF k < i THEN list[k] ELSE list[k + n]
    BY <1>1, WithoutIs
  <2> HIDE DEF s
  <2> QED BY <2>1
<1> HIDE DEF s
<1>3. DOMAIN s = 1 .. Len(list) - n
  BY <1>1, <1>2
<1>4. \A k \in DOMAIN s : at(k) \in DOMAIN list /\ (at(k) < i \/ at(k) >= i + n)
  BY <1>1, <1>3
<1>5. \A j, k \in DOMAIN s : at(j) = at(k) => j = k
  BY <1>1, <1>3
<1> HIDE DEF at
<1>6. Distinct(s) /\ Holds(s) \subseteq Holds(list)
  <2>1. \A k \in DOMAIN s : s[k] = list[at(k)] /\ at(k) \in DOMAIN list
    BY <1>2, <1>3, <1>4
  <2>2. Distinct(s)
    <3> SUFFICES ASSUME NEW j \in DOMAIN s, NEW k \in DOMAIN s, s[j] = s[k] PROVE j = k
      BY DEF Distinct
    <3>1. at(j) = at(k)
      BY <2>1 DEF Distinct
    <3> QED BY <1>5, <3>1
  <2> QED BY <2>1, <2>2 DEF Holds
<1>7. ASSUME NEW k \in 0 .. n - 1
      PROVE  list[i] + k \in Holds(list) /\ list[i] + k \notin Holds(s)
  <2>1. i + k \in DOMAIN list
    BY <1>1
  <2>2. list[i] \in Nat
    <3>1. list[i] \in U
      OBVIOUS
    <3> QED BY <3>1
  <2>3. list[i + k] = list[i] + k
    <3>1. CASE k = 0
      <4>1. i + k = i /\ list[i] + k = list[i]
        BY <1>1, <2>2, <3>1
      <4> QED BY <4>1
    <3>2. CASE k # 0
      BY <1>1, <3>2
    <3> QED BY <3>1, <3>2
  <2>4. \A j \in DOMAIN s : s[j] # list[i + k]
    <3> SUFFICES ASSUME NEW j \in DOMAIN s, s[j] = list[i + k] PROVE FALSE
      OBVIOUS
    <3>1. list[at(j)] = list[i + k] /\ at(j) \in DOMAIN list
      BY <1>2, <1>3, <1>4
    <3>2. at(j) = i + k
      BY <2>1, <3>1 DEF Distinct
    <3> QED BY <1>1, <1>4, <3>2
  <2> QED BY <2>1, <2>3, <2>4 DEF Holds
<1>8. ASSUME NEW j \in DOMAIN list, list[j] \notin Holds(s)
      PROVE  list[j] \in Section(list[i], n)
  <2>1. j \in i .. i + n - 1
    <3> SUFFICES ASSUME j \notin i .. i + n - 1 PROVE FALSE
      OBVIOUS
    <3>1. CASE j < i
      <4>1. j \in DOMAIN s /\ at(j) = j
        BY <1>1, <1>3, <3>1 DEF at
      <4> QED BY <1>2, <1>3, <1>8, <4>1 DEF Holds
    <3>2. CASE ~(j < i)
      <4>1. j - n \in DOMAIN s /\ at(j - n) = j
        BY <1>1, <1>3, <3>2 DEF at
      <4> QED BY <1>2, <1>3, <1>8, <4>1 DEF Holds
    <3> QED BY <3>1, <3>2
  <2>2. list[i] \in Nat
    <3>1. list[i] \in U
      OBVIOUS
    <3> QED BY <3>1
  <2>3. CASE j = i
    BY <2>1, <2>2, <2>3 DEF Section
  <2>4. CASE j # i
    <3>1. j - i \in 1 .. n - 1 /\ i + (j - i) = j
      BY <1>1, <2>1, <2>4
    <3>2. list[j] = list[i] + (j - i)
      BY <1>1, <3>1
    <3> QED BY <2>2, <3>1, <3>2 DEF Section
  <2> QED BY <2>3, <2>4
<1>9. Moved(list, s, Section(list[i], n))
  <2>1. \A f \in Section(list[i], n) : f \in Holds(list) /\ f \notin Holds(s)
    <3> SUFFICES ASSUME NEW f \in Section(list[i], n) PROVE f \in Holds(list) /\ f \notin Holds(s)
      OBVIOUS
    <3> DEFINE a == list[i]
    <3>1. a \in U
      OBVIOUS
    <3>2. f \in Section(a, n) /\ \A k \in 0 .. n - 1 : a + k \in Holds(list) /\ a + k \notin Holds(s)
      BY <1>7
    <3> HIDE DEF a, s
    <3>3. f - a \in 0 .. n - 1 /\ a + (f - a) = f
      BY <3>1, <3>2 DEF Section
    <3> QED BY <3>2, <3>3
  <2>2. \A f \in Holds(list) : f \notin Holds(s) => f \in Section(list[i], n)
    BY <1>8 DEF Holds
  <2> QED BY <1>6, <2>1, <2>2 DEF Moved
<1> QED BY <1>2, <1>6, <1>7, <1>9 DEF RunOff, PartOf, s

-----------------------------------------------------------------------------
(* The inductive invariant                                                  *)

Boots == DOMAIN BootMem
Segments == [page : Nat, pages : Nat]
Requests == [page : Pages, frame : Nat, target : 1 .. Levels]
Tasks == [root : Usable, segments : Seq(Segments), stack : Nat]
Works == [op : {"idle", "init", "alloc", "free", "load", "stack"}, root : Nat,
          todo : Seq(Requests), segments : Seq(Segments), stack : Nat]

\* The table a driver works on has all of it in the lower half, one page each.
VmmWork == work.op \in {"alloc", "free"}
Mapped(p) == virt_to_phys(mem, kernel, p)
TodoPages == {work.todo[i].page : i \in DOMAIN work.todo}
Granted == UNION {Section(s.base, s.pages) : s \in sections}

\* What is handed out and mapped by now, or handed back and not yet unmapped.
Expected ==
    IF work.op = "alloc" THEN Granted \ TodoPages
    ELSE IF work.op = "free" THEN Granted \cup TodoPages ELSE Granted

\* A frame of the free list that is neither on it nor a table now.
Off(f) == f \in Usable /\ f \notin Holds(free) /\ f \notin DOMAIN mem

BootInv == \A t \in Boots : mem[t] = BootMem[t]
FreeInv == Distinct(free) /\ \A i \in DOMAIN free : free[i] \notin DOMAIN mem

WorkInv ==
    /\ work \in Works
    /\ tasks \in Seq(Tasks)
    /\ kernel \in Nat
    /\ satp = BootRoot \/ satp \in Roots
    /\ \A i \in DOMAIN work.segments :
          Section(work.segments[i].page, work.segments[i].pages) \subseteq LowerHalf
    /\ work.op = "idle" => work.todo = << >>
    /\ ~Booted => satp = BootRoot /\ work.op = "idle" /\ sections = {} /\ tlb = {}
                /\ tasks = << >>
    /\ work.op = "init" => work.root = kernel /\ satp = BootRoot
                           /\ \A i \in DOMAIN work.todo : work.todo[i].page \notin LowerHalf
    /\ VmmWork => work.root = kernel /\ satp = kernel
                  /\ \A i \in DOMAIN work.todo : /\ work.todo[i].page \in LowerHalf
                                                 /\ work.todo[i].target = 1
    /\ Loading => work.root # kernel /\ satp = kernel /\ Len(tasks) < Len(Programs)

SectionInv ==
    /\ \A s \in sections : s.base \in Nat /\ s.pages \in Nat
    /\ \A s, t \in sections : s # t =>
          Section(s.base, s.pages) \cap Section(t.base, t.pages) = {}
    /\ work.op = "alloc" => \A i \in DOMAIN work.todo : work.todo[i].page \in Granted
    /\ work.op = "free" => \A i \in DOMAIN work.todo : work.todo[i].page \notin Granted
    /\ VmmWork => \A i, j \in DOMAIN work.todo :
                     work.todo[i].page = work.todo[j].page => i = j

GrantInv == Booted /\ ~panicked => \A p \in LowerHalf : Mapped(p) # NoFrame <=> p \in Expected

FrameInv ==
    Booted => \A p \in LowerHalf : Mapped(p) # NoFrame =>
                 /\ Off(Mapped(p))
                 /\ \A q \in LowerHalf : Mapped(q) = Mapped(p) => q = p

ClaimInv ==
    work.op = "alloc" => \A i \in DOMAIN work.todo : work.todo[i].frame # NoFrame =>
        /\ Off(work.todo[i].frame)
        /\ \A p \in LowerHalf : Mapped(p) # work.todo[i].frame
        /\ \A j \in DOMAIN work.todo : work.todo[j].frame = work.todo[i].frame => j = i

TlbInv == \A c \in tlb : c[1] \in Pages /\ Translate(mem, satp, c[1]) = c[2]

\* Every table but the bootloader's has its place below one root.
Trees(m, pl, R) ==
    /\ Placed(m, pl)
    /\ DOMAIN m = DOMAIN pl \cup Boots
    /\ DOMAIN pl \cap Boots = {}
    /\ \A r \in R : RootAt(pl, r)

TreeInv == \E pl : Trees(mem, pl, Roots)

Inv == /\ TypeOK /\ TreeInv /\ BootInv /\ FreeInv /\ WorkInv
       /\ SectionInv /\ GrantInv /\ FrameInv /\ ClaimInv /\ TlbInv

LEMMA MemoryFacts ==
    /\ Usable \subseteq Nat \ {NoFrame}
    /\ Usable \cap Boots = {}
    /\ Memory \in Seq(Usable) /\ Distinct(Memory)
<1>1. /\ Memory \in Seq(Nat \ {NoFrame})
      /\ \A i, j \in DOMAIN Memory : Memory[i] = Memory[j] => i = j
      /\ \A i \in DOMAIN Memory : Memory[i] \notin DOMAIN BootMem
  BY MemoryAssumption DEF MemoryAssumption
<1>2. \A i \in DOMAIN Memory : Memory[i] \in Usable /\ Memory[i] \in Nat \ {NoFrame}
  BY <1>1 DEF Usable
<1>3. Memory \in Seq(Usable)
  BY <1>1, <1>2
<1> QED BY <1>1, <1>2, <1>3 DEF Usable, Boots, Distinct

LEMMA BootFacts ==
    /\ Closed(BootMem, Boots) /\ BootRoot \in Boots /\ Bottomed(BootMem, BootRoot)
    /\ BootMem = [t \in Boots |-> BootMem[t]]
<1>1. /\ BootRoot \in DOMAIN BootMem /\ NoFrame \notin DOMAIN BootMem
      /\ BootMem \in [DOMAIN BootMem -> [Slots -> Entry]]
      /\ \A t \in DOMAIN BootMem, i \in Slots :
            BootMem[t][i].kind = "branch" => BootMem[t][i].frame \in DOMAIN BootMem
  BY BootAssumption DEF BootAssumption
<1>2. Bottomed(BootMem, BootRoot)
  BY BootAssumption DEF BootAssumption, Bottomed
<1> QED BY <1>1, <1>2 DEF Closed, Boots

\* The root's slot says which half a page is in.
LEMMA HalfIs ==
    ASSUME NEW p \in Pages
    PROVE  p \in LowerHalf <=> Index(p, Levels) \notin UpperSlots
<1> DEFINE h == Fan \div 2
           P == Power[Levels - 1]
           i == p \div P
           r == p % P
<1>1. /\ h \in Nat /\ Fan = 2 * h /\ Levels - 1 \in 0 .. Levels /\ Levels \in 1 .. Levels
      /\ p \in Nat /\ Levels \in 0 .. Levels /\ Fan \in Nat
  BY Shape, PrefixEnds
<1>2. P \in Nat /\ P > 0 /\ Power[Levels] = Fan * P
  BY <1>1, PowerFacts
<1>3. i = Index(p, Levels) /\ i \in Slots
  <2>1. Prefix(p, Levels - 1) = Prefix(p, Levels) * Fan + Index(p, Levels)
        /\ Index(p, Levels) \in Slots
    BY <1>1, PrefixStep
  <2>2. Prefix(p, Levels) = 0
    BY PrefixEnds
  <2>3. Index(p, Levels) \in Nat
    BY <2>1 DEF Slots
  <2> QED BY <1>1, <2>1, <2>2, <2>3 DEF Prefix
<1>4. i \in Nat /\ r \in 0 .. P - 1 /\ p = P * i + r
  <2> HIDE DEF P
  <2> QED BY <1>1, <1>2, Division
<1>5. Half = P * h
  <2>1. Power[Levels] = 2 * (P * h) + 0
    <3> HIDE DEF P, h
    <3> QED BY <1>1, <1>2
  <2>2. P * h \in Nat
    BY <1>1, <1>2
  <2> DEFINE x == P * h
             y == Power[Levels]
  <2>3. x \in Nat /\ y = 2 * x + 0 /\ y \in Nat
    BY <2>1, <2>2
  <2> HIDE DEF x, y
  <2>4. 0 \in 0 .. 2 - 1
    OBVIOUS
  <2>5. y \div 2 = x
    BY <2>3, <2>4, DivUnique
  <2> QED BY <2>5 DEF Half, x, y
<1> HIDE DEF i, r, P, h
<1>6. Half \in Nat
  BY <1>1, <1>2, <1>5
<1>7. CASE i < h
  <2>1. P * i + P <= P * h
    BY <1>1, <1>2, <1>4, <1>7, Between
  <2>2. p < Half
    <3>1. P * i \in Nat /\ P * h \in Nat
      BY <1>1, <1>2, <1>4
    <3> QED BY <1>2, <1>4, <1>5, <2>1, <3>1
  <2>3. i \notin UpperSlots
    BY <1>1, <1>4, <1>7 DEF UpperSlots, h
  <2> QED BY <1>1, <1>3, <1>6, <2>2, <2>3 DEF LowerHalf
<1>8. CASE ~(i < h)
  <2>1. P * h <= P * i
    <3>1. CASE i = h
      BY <1>1, <1>2, <3>1
    <3>2. CASE i # h
      <4>1. P * h + P <= P * i
        BY <1>1, <1>2, <1>4, <1>8, <3>2, Between
      <4>2. P * h \in Nat /\ P * i \in Nat
        BY <1>1, <1>2, <1>4
      <4> QED BY <1>2, <4>1, <4>2
    <3> QED BY <3>1, <3>2
  <2>2. ~(p < Half)
    <3>1. P * i \in Nat /\ P * h \in Nat
      BY <1>1, <1>2, <1>4
    <3> QED BY <1>2, <1>4, <1>5, <2>1, <3>1
  <2>3. i \in UpperSlots
    BY <1>1, <1>3, <1>4, <1>8 DEF UpperSlots, h, Slots
  <2> QED BY <1>1, <1>3, <1>6, <2>2, <2>3 DEF LowerHalf
<1> QED BY <1>7, <1>8

\* A block below the root's slots lies in one half.
LEMMA SameHalf ==
    ASSUME NEW p \in Pages, NEW q \in Pages, NEW k \in 0 .. Levels - 1, Prefix(p, k) = Prefix(q, k)
    PROVE  p \in LowerHalf <=> q \in LowerHalf
<1>1. p \in Nat /\ q \in Nat /\ k \in 0 .. Levels /\ Levels - 1 \in k .. Levels
      /\ Levels \in 1 .. Levels
  BY PrefixEnds, Shape
<1>2. Prefix(p, Levels - 1) = Prefix(q, Levels - 1)
  BY <1>1, PrefixAbove
<1>3. Index(p, Levels) = Index(q, Levels)
  BY <1>1, <1>2, SamePrefix
<1> QED BY <1>3, HalfIs

LEMMA LowerPages ==
    /\ LowerHalf \subseteq Pages /\ Pages \subseteq Nat
    /\ Half \in Nat
<1> DEFINE y == Power[Levels]
<1>1. y \in Nat
  <2>1. Levels \in 0 .. Levels
    BY Shape
  <2> QED BY <2>1, PowerFacts
<1> HIDE DEF y
<1>2. y \div 2 \in Nat /\ y \div 2 <= y
  BY <1>1
<1>3. Half = y \div 2 /\ Pages = 0 .. y - 1
  BY DEF Half, Pages, y
<1> QED BY <1>1, <1>2, <1>3 DEF LowerHalf

LEMMA IdleIs ==
    Idle \in Works /\ Idle.op = "idle" /\ Idle.todo = << >> /\ Idle.segments = << >>
BY DEF Idle, Works, NoFrame

LEMMA InitInv == Init => Inv
<1> SUFFICES ASSUME Init PROVE Inv
  OBVIOUS
<1>1. /\ mem = BootMem /\ free = Memory /\ kernel = NoFrame /\ satp = BootRoot
      /\ tasks = << >> /\ harts = {} /\ sections = {} /\ work = Idle /\ tlb = {}
      /\ panicked = FALSE
  BY DEF Init
<1>2. Roots = {} /\ ~Booted
  BY <1>1, IdleIs DEF Roots, Loading, Booted
<1>3. TypeOK
  <2>1. /\ mem \in [DOMAIN mem -> [Slots -> Entry]]
        /\ \A t \in DOMAIN mem, i \in Slots :
              mem[t][i].kind = "branch" => mem[t][i].frame \in DOMAIN mem
        /\ satp \in DOMAIN mem
    BY <1>1, BootAssumption DEF BootAssumption
  <2> QED BY <1>1, <1>2, <2>1, MemoryFacts DEF TypeOK
<1>4. TreeInv
  <2> DEFINE pl == [t \in {} |-> 0]
  <2>1. DOMAIN pl = {} /\ pl \in [DOMAIN pl -> Places]
    OBVIOUS
  <2> HIDE DEF pl
  <2>2. Closed(mem, DOMAIN pl)
    BY <2>1 DEF Closed
  <2>3. Placed(mem, pl)
    BY <2>1, <2>2 DEF Placed
  <2>4. Trees(mem, pl, Roots)
    BY <1>1, <1>2, <2>1, <2>3 DEF Trees, Boots
  <2> QED BY <2>4 DEF TreeInv
<1>5. BootInv
  BY <1>1 DEF BootInv
<1>6. FreeInv
  BY <1>1, MemoryFacts, MemoryAssumption DEF FreeInv, MemoryAssumption
<1>7. WorkInv
  BY <1>1, <1>2, IdleIs DEF WorkInv, VmmWork, Loading, NoFrame
<1>8. SectionInv /\ GrantInv /\ FrameInv /\ ClaimInv /\ TlbInv
  BY <1>1, <1>2, IdleIs DEF SectionInv, VmmWork, GrantInv, FrameInv, ClaimInv, TlbInv
<1> QED BY <1>3, <1>4, <1>5, <1>6, <1>7, <1>8 DEF Inv

\* Steps that leave the tables alone and at most claim frames.
LEMMA Still ==
    ASSUME Inv, UNCHANGED <<mem, kernel>>, Roots' \subseteq Roots, PartOf(free', free, Usable)
    PROVE  /\ TreeInv' /\ BootInv' /\ FreeInv' /\ FrameInv'
           /\ \A f : Off(f) /\ f \notin Holds(free) => Off(f)'
           /\ \A p : Mapped(p)' = Mapped(p)
<1>1. TreeInv /\ BootInv /\ FreeInv /\ FrameInv
  BY DEF Inv
<1>2. mem' = mem /\ kernel' = kernel
  OBVIOUS
<1>3. free' \in Seq(Usable) /\ Distinct(free') /\ Holds(free') \subseteq Holds(free)
  BY DEF PartOf
<1>4. TreeInv'
  <2>1. PICK pl : Trees(mem, pl, Roots)
    BY <1>1 DEF TreeInv
  <2>2. Trees(mem', pl, Roots')
    BY <1>2, <2>1 DEF Trees
  <2> QED BY <2>2 DEF TreeInv
<1>5. BootInv'
  BY <1>1, <1>2 DEF BootInv, Boots
<1>6. FreeInv'
  <2>1. \A f \in Holds(free) : f \notin DOMAIN mem
    BY <1>1 DEF FreeInv, Holds
  <2>2. \A i \in DOMAIN free' : free'[i] \in Holds(free)
    BY <1>3 DEF Holds
  <2> QED BY <1>2, <1>3, <2>1, <2>2 DEF FreeInv, Distinct
<1>7. \A f : Off(f) => Off(f)'
  BY <1>2, <1>3 DEF Off, Usable, Holds
<1>8. \A p : Mapped(p)' = Mapped(p)
  BY <1>2 DEF Mapped
<1>9. FrameInv'
  BY <1>1, <1>2, <1>7, <1>8 DEF FrameInv, Booted, LowerHalf, Half
<1> QED BY <1>4, <1>5, <1>6, <1>7, <1>8, <1>9

LEMMA Untouched ==
    ASSUME Inv, free' = free
    PROVE  PartOf(free', free, Usable)
BY DEF Inv, TypeOK, FreeInv, PartOf

LEMMA InitDoneStep == Inv /\ InitDone => Inv'
<1> SUFFICES ASSUME Inv, InitDone PROVE Inv'
  OBVIOUS
<1>1. /\ work.op = "init" /\ satp' = kernel /\ tlb' = {} /\ work' = Idle
      /\ UNCHANGED <<mem, free, kernel, tasks, harts, sections, panicked>>
      /\ work.todo = << >>
  BY DEF InitDone, Ended, SetSatp
<1>2. TypeOK /\ WorkInv /\ SectionInv /\ GrantInv
  BY DEF Inv
<1>3. Booted /\ Booted'
  BY <1>1, <1>2 DEF WorkInv, Booted
<1>4. kernel \in Roots /\ Roots' \subseteq Roots /\ kernel' \in Roots'
  BY <1>1, <1>3, IdleIs DEF Roots, Loading, Booted
<1>5. TreeInv' /\ BootInv' /\ FreeInv' /\ FrameInv' /\ \A p : Mapped(p)' = Mapped(p)
  BY <1>1, <1>4, Untouched, Still
<1>6. TypeOK'
  BY <1>1, <1>2, <1>4 DEF TypeOK
<1>7. WorkInv'
  BY <1>1, <1>2, <1>3, <1>4, IdleIs DEF WorkInv, VmmWork, Loading
<1>8. SectionInv' /\ ClaimInv' /\ TlbInv'
  BY <1>1, <1>2, IdleIs DEF SectionInv, VmmWork, ClaimInv, TlbInv
<1>9. Expected' = Expected
  BY <1>1, IdleIs DEF Expected, Granted, TodoPages
<1>10. GrantInv'
  BY <1>1, <1>2, <1>3, <1>5, <1>9 DEF GrantInv, LowerHalf, Half
<1> QED BY <1>5, <1>6, <1>7, <1>8, <1>10 DEF Inv

LEMMA CallDoneStep == Inv /\ CallDone => Inv'
<1> SUFFICES ASSUME Inv, CallDone PROVE Inv'
  OBVIOUS
<1>1. /\ work.op \in {"alloc", "free"} /\ work' = Idle /\ work.todo = << >>
      /\ UNCHANGED <<mem, free, kernel, satp, tasks, harts, sections, tlb, panicked>>
  BY DEF CallDone, Ended
<1>2. TypeOK /\ WorkInv /\ SectionInv /\ GrantInv /\ TlbInv
  BY DEF Inv
<1>3. Booted /\ Booted'
  BY <1>1, <1>2 DEF WorkInv, Booted
<1>4. Roots' = Roots
  BY <1>1, IdleIs DEF Roots, Loading, Booted
<1>5. TreeInv' /\ BootInv' /\ FreeInv' /\ FrameInv' /\ \A p : Mapped(p)' = Mapped(p)
  BY <1>1, <1>4, Untouched, Still
<1>6. TypeOK'
  BY <1>1, <1>2, <1>4 DEF TypeOK
<1>7. WorkInv'
  BY <1>1, <1>2, <1>3, <1>4, IdleIs DEF WorkInv, VmmWork, Loading
<1>8. SectionInv' /\ ClaimInv' /\ TlbInv'
  BY <1>1, <1>2, IdleIs DEF SectionInv, VmmWork, ClaimInv, TlbInv
<1>9. Expected' = Expected
  BY <1>1, IdleIs DEF Expected, Granted, TodoPages
<1>10. GrantInv'
  BY <1>1, <1>2, <1>3, <1>5, <1>9 DEF GrantInv, LowerHalf, Half
<1> QED BY <1>5, <1>6, <1>7, <1>8, <1>10 DEF Inv

LEMMA SwitchStep == Inv /\ Switch => Inv'
<1> SUFFICES ASSUME Inv, Switch PROVE Inv'
  OBVIOUS
<1>1. PICK t \in DOMAIN tasks : satp' = tasks[t].root /\ tlb' = {}
  BY DEF Switch, SetSatp
<1>2. /\ work = Idle
      /\ UNCHANGED <<mem, free, kernel, tasks, harts, sections, work, panicked>>
  BY DEF Switch, Ready
<1>3. TypeOK /\ WorkInv /\ SectionInv /\ GrantInv /\ ClaimInv
  BY DEF Inv
<1>4. Roots' = Roots /\ satp' \in Roots
  BY <1>1, <1>2 DEF Roots, Loading, Booted
<1>5. TreeInv' /\ BootInv' /\ FreeInv' /\ FrameInv' /\ \A p : Mapped(p)' = Mapped(p)
  BY <1>2, <1>4, Untouched, Still
<1>6. TypeOK'
  BY <1>2, <1>3, <1>4 DEF TypeOK
<1>7. Booted /\ Booted'
  BY <1>1, <1>2, <1>3 DEF WorkInv, Booted
<1>8. WorkInv'
  BY <1>1, <1>2, <1>3, <1>4, <1>7, IdleIs DEF WorkInv, VmmWork, Loading
<1>9. SectionInv' /\ ClaimInv' /\ TlbInv'
  BY <1>1, <1>2, <1>3, IdleIs DEF SectionInv, VmmWork, ClaimInv, TlbInv
<1>10. Expected' = Expected
  BY <1>2 DEF Expected, Granted, TodoPages
<1>11. GrantInv'
  BY <1>2, <1>3, <1>5, <1>7, <1>10 DEF GrantInv, LowerHalf, Half
<1> QED BY <1>5, <1>6, <1>8, <1>9, <1>11 DEF Inv

LEMMA TouchStep ==
    ASSUME Inv, NEW page \in Watched, Touch(page)
    PROVE  Inv'
<1>1. /\ Booted /\ tlb' = tlb \cup {<<page, Translate(mem, satp, page)>>}
      /\ UNCHANGED <<mem, free, kernel, satp, tasks, harts, sections, work, panicked>>
  BY DEF Touch
<1>2. TypeOK /\ WorkInv /\ SectionInv /\ GrantInv /\ ClaimInv /\ TlbInv
  BY DEF Inv
<1>3. Roots' = Roots
  BY <1>1 DEF Roots, Loading, Booted
<1>4. TreeInv' /\ BootInv' /\ FreeInv' /\ FrameInv'
      /\ (\A f : Off(f) => Off(f)') /\ \A p : Mapped(p)' = Mapped(p)
  <2>1. PartOf(free', free, Usable)
    BY <1>1, Untouched
  <2>2. \A f : Off(f) => Off(f)'
    BY <1>1 DEF Off, Usable, Holds
  <2> QED BY <1>1, <1>3, <2>1, <2>2, Still
<1>5. TypeOK' /\ Booted'
  BY <1>1, <1>2, <1>3 DEF TypeOK, Booted
<1>6. WorkInv'
  BY <1>1, <1>2, <1>3, <1>5 DEF WorkInv, VmmWork, Loading
<1>7. SectionInv'
  BY <1>1, <1>2 DEF SectionInv, VmmWork, Granted
<1>8. ClaimInv'
  BY <1>1, <1>2, <1>4 DEF ClaimInv, LowerHalf, Half
<1>9. TlbInv'
  <2>1. page \in Pages
    BY RequestAssumption DEF RequestAssumption
  <2> QED BY <1>1, <1>2, <2>1 DEF TlbInv
<1>10. Expected' = Expected
  BY <1>1 DEF Expected, Granted, TodoPages
<1>11. GrantInv'
  BY <1>1, <1>2, <1>4, <1>10 DEF GrantInv, LowerHalf, Half, Booted
<1> QED BY <1>4, <1>5, <1>6, <1>7, <1>8, <1>9, <1>11 DEF Inv

LEMMA LoadDoneStep == Inv /\ LoadDone => Inv'
<1> SUFFICES ASSUME Inv, LoadDone PROVE Inv'
  OBVIOUS
<1> DEFINE task == [root |-> work.root, segments |-> Programs[Len(tasks) + 1],
                    stack |-> work.stack]
<1>1. /\ work.op = "stack" /\ tasks' = Append(tasks, task) /\ work' = Idle
      /\ UNCHANGED <<mem, free, kernel, satp, harts, sections, tlb, panicked>>
  BY DEF LoadDone, Ended
<1>2. TypeOK /\ WorkInv /\ SectionInv /\ GrantInv /\ TlbInv
  BY DEF Inv
<1>3. /\ Booted /\ Booted' /\ work.root \in Roots /\ work.root \in Usable /\ work.stack \in Nat
      /\ Len(tasks) \in Nat /\ tasks \in Seq(Tasks) /\ Len(tasks) < Len(Programs)
  <2>1. Booted /\ work.root \in Roots
    BY <1>1, <1>2 DEF WorkInv, Roots, Loading
  <2> QED BY <1>1, <1>2, <2>1 DEF Booted, TypeOK, WorkInv, Works, Loading
<1>4. task \in Tasks
  <2>1. Programs[Len(tasks) + 1] \in Seq(Segments)
    <3>1. Programs \in Seq(Seq(Segments))
      BY RequestAssumption DEF RequestAssumption, Segments
    <3>2. Len(tasks) + 1 \in DOMAIN Programs
      BY <1>3, <3>1
    <3> QED BY <3>1, <3>2
  <2> QED BY <1>3, <2>1 DEF Tasks
<1>5. tasks' \in Seq(Tasks) /\ {tasks'[t].root : t \in DOMAIN tasks'}
                                 = {tasks[t].root : t \in DOMAIN tasks} \cup {work.root}
  <2>1. task.root = work.root
    OBVIOUS
  <2> HIDE DEF task
  <2>2. /\ tasks' \in Seq(Tasks) /\ DOMAIN tasks' = DOMAIN tasks \cup {Len(tasks) + 1}
        /\ tasks'[Len(tasks) + 1] = task
        /\ \A t \in DOMAIN tasks : tasks'[t] = tasks[t]
    BY <1>1, <1>3, <1>4
  <2> QED BY <2>1, <2>2
<1> HIDE DEF task
<1>6. Roots' = Roots
  BY <1>1, <1>5, IdleIs DEF Roots, Loading, Booted
<1>7. TreeInv' /\ BootInv' /\ FreeInv' /\ FrameInv' /\ \A p : Mapped(p)' = Mapped(p)
  BY <1>1, <1>6, Untouched, Still
<1>8. TypeOK'
  BY <1>1, <1>2, <1>6 DEF TypeOK
<1>9. WorkInv'
  BY <1>1, <1>2, <1>3, <1>5, <1>6, IdleIs DEF WorkInv, VmmWork, Loading
<1>10. SectionInv' /\ ClaimInv' /\ TlbInv'
  BY <1>1, <1>2, IdleIs DEF SectionInv, VmmWork, ClaimInv, TlbInv
<1>11. Expected' = Expected
  BY <1>1, IdleIs DEF Expected, Granted
<1>12. GrantInv'
  BY <1>1, <1>2, <1>3, <1>7, <1>11 DEF GrantInv, LowerHalf, Half
<1> QED BY <1>7, <1>8, <1>9, <1>10, <1>12 DEF Inv

\* The requests of a call are for its pages, one each.
PageByPage(list, b, n, frames) ==
    /\ list \in Seq(Requests)
    /\ DOMAIN list = 1 .. n
    /\ \A k \in 1 .. n : /\ list[k].page = b + k - 1 /\ list[k].page \in Section(b, n)
                         /\ list[k].page \in LowerHalf
                         /\ list[k].frame = frames[k] /\ list[k].target = 1
    /\ \A j, k \in 1 .. n : list[j].page = list[k].page => j = k
    /\ {list[k].page : k \in DOMAIN list} = Section(b, n)

LEMMA RequestsAre ==
    ASSUME NEW b \in Nat, NEW n \in Nat, Section(b, n) \subseteq LowerHalf,
           NEW frames \in [1 .. n -> Nat],
           NEW list, list = [k \in 1 .. n |-> Request(b + k - 1, frames[k], 1)]
    PROVE  PageByPage(list, b, n, frames)
<1>1. \A k \in 1 .. n : /\ list[k] = Request(b + k - 1, frames[k], 1)
                        /\ b + k - 1 \in Section(b, n)
  BY DEF Section
<1>2. \A k \in 1 .. n : /\ list[k].page = b + k - 1 /\ list[k].page \in Section(b, n)
                        /\ list[k].page \in LowerHalf
                        /\ list[k].frame = frames[k] /\ list[k].target = 1
                        /\ list[k] = [page |-> b + k - 1, frame |-> frames[k], target |-> 1]
  BY <1>1 DEF Request
<1>3. \A k \in 1 .. n : list[k] \in Requests
  <2> SUFFICES ASSUME NEW k \in 1 .. n PROVE list[k] \in Requests
    OBVIOUS
  <2>1. 1 \in 1 .. Levels
    BY Shape
  <2>2. list[k] = [page |-> b + k - 1, frame |-> frames[k], target |-> 1]
    BY <1>2
  <2>3. b + k - 1 \in Pages /\ frames[k] \in Nat
    BY <1>2, LowerPages
  <2> QED BY <2>1, <2>2, <2>3 DEF Requests
<1>4. list \in Seq(Requests)
  BY <1>3
<1>5. \A j, k \in 1 .. n : list[j].page = list[k].page => j = k
  <2> SUFFICES ASSUME NEW j \in 1 .. n, NEW k \in 1 .. n, list[j].page = list[k].page PROVE j = k
    OBVIOUS
  <2>1. b + j - 1 = b + k - 1
    BY <1>2
  <2> QED BY <2>1
<1>6. {list[k].page : k \in DOMAIN list} = Section(b, n)
  <2>1. \A p \in Section(b, n) : p - b + 1 \in 1 .. n /\ b + (p - b + 1) - 1 = p
    BY DEF Section
  <2>2. \A p \in Section(b, n) : \E k \in 1 .. n : list[k].page = p
    <3> SUFFICES ASSUME NEW p \in Section(b, n) PROVE \E k \in 1 .. n : list[k].page = p
      OBVIOUS
    <3> DEFINE k == p - b + 1
    <3>1. k \in 1 .. n /\ b + k - 1 = p
      BY <2>1
    <3> HIDE DEF k
    <3> QED BY <1>2, <3>1
  <2>3. DOMAIN list = 1 .. n
    OBVIOUS
  <2>4. \A k \in 1 .. n : list[k].page \in Section(b, n)
    BY <1>2
  <2> HIDE DEF PageByPage
  <2> QED BY <2>2, <2>3, <2>4, Zenon
<1> QED BY <1>2, <1>4, <1>5, <1>6 DEF PageByPage

\* A new call of an idle machine, and its requests.
IsCall(w, op, root, todo, segments) ==
    /\ w \in Works /\ w.op = op /\ w.root = root /\ w.todo = todo
    /\ w.segments = segments

LEMMA RecordIs ==
    ASSUME NEW op \in {"idle", "init", "alloc", "free", "load", "stack"}, NEW root \in Nat,
           NEW todo \in Seq(Requests), NEW segments \in Seq(Segments), NEW stack \in Nat,
           NEW w, w = [op |-> op, root |-> root, todo |-> todo, segments |-> segments,
                       stack |-> stack]
    PROVE  IsCall(w, op, root, todo, segments)
BY DEF Works, IsCall

LEMMA CallIs ==
    ASSUME NEW op \in {"alloc", "free", "load", "stack", "init"}, NEW root \in Nat,
           NEW todo \in Seq(Requests),
           NEW w, w = [Idle EXCEPT !.op = op, !.root = root, !.todo = todo]
    PROVE  IsCall(w, op, root, todo, << >>)
<1> DEFINE rec(o, r, t) == [op |-> o, root |-> r, todo |-> t, segments |-> << >>, stack |-> 0]
           none == << >>
<1>1. w = rec(op, root, todo)
  <2>1. Idle = rec("idle", NoFrame, << >>)
    BY DEF Idle
  <2>2. [rec("idle", NoFrame, << >>) EXCEPT !.op = op] = rec(op, NoFrame, << >>)
    OBVIOUS
  <2>3. [rec(op, NoFrame, << >>) EXCEPT !.root = root] = rec(op, root, << >>)
    OBVIOUS
  <2>4. [rec(op, root, << >>) EXCEPT !.todo = todo] = rec(op, root, todo)
    OBVIOUS
  <2> QED BY <2>1, <2>2, <2>3, <2>4
<1>2. w = [op |-> op, root |-> root, todo |-> todo, segments |-> none, stack |-> 0]
  BY <1>1
<1>3. none \in Seq(Segments) /\ 0 \in Nat
      /\ op \in {"idle", "init", "alloc", "free", "load", "stack"}
  OBVIOUS
<1> HIDE DEF none
<1>4. IsCall(w, op, root, todo, none)
  BY <1>2, <1>3, RecordIs
<1> QED BY <1>4 DEF none

LEMMA FreeStep ==
    ASSUME Inv, NEW s \in sections, Free(s)
    PROVE  Inv'
<1> DEFINE list == [k \in 1 .. s.pages |-> Request(s.base + k - 1, NoFrame, 1)]
           pages == Section(s.base, s.pages)
<1>1. /\ Booted /\ satp = kernel /\ work = Idle /\ ~panicked
      /\ sections' = sections \ {s}
      /\ work' = [Idle EXCEPT !.op = "free", !.root = satp, !.todo = list]
      /\ UNCHANGED <<mem, free, kernel, satp, tasks, harts, tlb, panicked>>
  BY DEF Free, AtBoot, Ready
<1>2. TypeOK /\ WorkInv /\ SectionInv /\ GrantInv /\ TlbInv
  BY DEF Inv
<1>3. s.base \in Nat /\ s.pages \in Nat /\ pages \subseteq LowerHalf
  BY <1>2 DEF SectionInv, TypeOK
<1>4. PageByPage(list, s.base, s.pages, [k \in 1 .. s.pages |-> NoFrame])
  <2> DEFINE frames == [k \in 1 .. s.pages |-> NoFrame]
  <2>1. frames \in [1 .. s.pages -> Nat] /\ \A k \in 1 .. s.pages : frames[k] = NoFrame
    BY DEF NoFrame
  <2>2. list = [k \in 1 .. s.pages |-> Request(s.base + k - 1, frames[k], 1)]
    BY <2>1
  <2> HIDE DEF frames
  <2> QED BY <1>3, <2>1, <2>2, RequestsAre DEF frames
<1>5. kernel \in Nat /\ list \in Seq(Requests)
  BY <1>2, <1>4 DEF WorkInv, PageByPage
<1>6. /\ work' \in Works /\ work'.op = "free" /\ work'.root = satp /\ work'.todo = list
      /\ work'.segments = << >>
  <2>1. satp \in Nat /\ "free" \in {"alloc", "free", "load", "stack", "init"}
    BY <1>1, <1>5
  <2> HIDE DEF list
  <2>2. IsCall(work', "free", satp, list, << >>)
    BY <1>1, <1>5, <2>1, CallIs
  <2> QED BY <2>2 DEF IsCall
<1> HIDE DEF list
<1>7. Roots' = Roots
  BY <1>1, <1>6, IdleIs DEF Roots, Loading, Booted
<1>8. TreeInv' /\ BootInv' /\ FreeInv' /\ FrameInv' /\ \A p : Mapped(p)' = Mapped(p)
  BY <1>1, <1>7, Untouched, Still
<1>9. TypeOK'
  BY <1>1, <1>2, <1>7 DEF TypeOK, LowerHalf, Half
<1>10. /\ DOMAIN list = 1 .. s.pages
       /\ \A k \in 1 .. s.pages : list[k].page \in LowerHalf /\ list[k].target = 1
                                  /\ list[k].page \in pages
       /\ \A j, k \in 1 .. s.pages : list[j].page = list[k].page => j = k
       /\ {list[k].page : k \in DOMAIN list} = pages
  BY <1>4 DEF PageByPage
<1>11. WorkInv'
  BY <1>1, <1>2, <1>6, <1>7, <1>10 DEF WorkInv, VmmWork, Loading, LowerHalf, Half, Booted
<1>12. pages \subseteq Granted /\ Granted' = Granted \ pages
  <2>1. \A t \in sections : t # s => Section(t.base, t.pages) \cap pages = {}
    BY <1>2 DEF SectionInv
  <2>2. Granted' = UNION {Section(t.base, t.pages) : t \in sections \ {s}}
    BY <1>1 DEF Granted
  <2> QED BY <2>1, <2>2 DEF Granted
<1>13. SectionInv'
  <2>1. \A k \in DOMAIN list : list[k].page \notin Granted'
    BY <1>10, <1>12
  <2>2. \A t \in sections' : t \in sections
    BY <1>1
  <2>3. \A t \in sections : t.base \in Nat /\ t.pages \in Nat
    BY <1>2 DEF SectionInv
  <2>4. \A t, u \in sections : t # u =>
           Section(t.base, t.pages) \cap Section(u.base, u.pages) = {}
    BY <1>2 DEF SectionInv
  <2> QED BY <1>6, <1>10, <2>1, <2>2, <2>3, <2>4 DEF SectionInv, VmmWork
<1>14. ClaimInv' /\ TlbInv'
  BY <1>1, <1>2, <1>6 DEF ClaimInv, TlbInv
<1>15. Expected' = Expected
  <2>1. TodoPages' = pages
    BY <1>6, <1>10 DEF TodoPages
  <2>2. Expected' = Granted' \cup pages
    BY <1>6, <2>1 DEF Expected
  <2>3. Expected = Granted
    BY <1>1, IdleIs DEF Expected
  <2> QED BY <1>12, <2>2, <2>3
<1>16. GrantInv'
  BY <1>1, <1>2, <1>8, <1>15 DEF GrantInv, LowerHalf, Half, Booted
<1> QED BY <1>8, <1>9, <1>11, <1>13, <1>14, <1>16 DEF Inv

\* What is off the list after a run of it was claimed.
LEMMA RunFrames ==
    ASSUME Inv, NEW n \in Nat, NEW align, HasRun(free, n, align),
           NEW list, list = Without(free, Run(free, n, align), n)
    PROVE  /\ PartOf(list, free, Usable)
           /\ free[Run(free, n, align)] \in Nat
           /\ \A k \in 0 .. n - 1 :
                 LET f == free[Run(free, n, align)] + k IN
                 f \in Usable /\ f \in Holds(free) /\ f \notin Holds(list) /\ f \notin DOMAIN mem
           /\ Moved(free, list, Section(free[Run(free, n, align)], n))
<1> DEFINE i == Run(free, n, align)
<1>1. free \in Seq(Usable) /\ Distinct(free) /\ \A j \in DOMAIN free : free[j] \notin DOMAIN mem
  BY DEF Inv, TypeOK, FreeInv
<1>2. i \in DOMAIN free /\ RunAt(free, i, n, align)
  BY <1>1, RunIs
<1>3. Usable \subseteq Nat
  BY MemoryFacts
<1> HIDE DEF i
<1>4. RunOff(free, i, n, Usable)
  BY <1>1, <1>2, <1>3, RunTaken
<1>5. PartOf(list, free, Usable) /\ Moved(free, list, Section(free[i], n))
      /\ \A k \in 0 .. n - 1 : free[i] + k \in Holds(free) /\ free[i] + k \notin Holds(list)
  BY <1>4 DEF RunOff, i
<1>6. \A f \in Holds(free) : f \in Usable /\ f \notin DOMAIN mem
  BY <1>1 DEF Holds
<1>7. free[i] \in Nat
  <2>1. free[i] \in Usable
    BY <1>1, <1>2
  <2> QED BY <1>3, <2>1
<1> QED BY <1>5, <1>6, <1>7 DEF i

\* alloc_constrained takes a frame past those it claimed.
Regular == \A c \in Calls : c.kind \in {"scattered", "contiguous"}

LEMMA AllocStep ==
    ASSUME Inv, Regular, NEW c \in Calls, Alloc(c)
    PROVE  Inv'
<1> DEFINE i == Run(free, c.pages, 1)
           n == c.pages
           frames == [k \in 1 .. n |-> FrameOf(c.kind, free[i], k)]
           list == [k \in 1 .. n |-> Request(c.base + k - 1, FrameOf(c.kind, free[i], k), 1)]
           pages == Section(c.base, c.pages)
           left == Without(free, i, n)
<1>1. /\ Booted /\ satp = kernel /\ work = Idle /\ ~panicked
      /\ \A s \in sections : pages \cap Section(s.base, s.pages) = {}
      /\ HasRun(free, n, 1)
      /\ free' = IF c.kind = "scattered" THEN free ELSE left
      /\ work' = [Idle EXCEPT !.op = "alloc", !.root = satp, !.todo = list]
      /\ sections' = sections \cup {[base |-> c.base, pages |-> c.pages]}
      /\ UNCHANGED <<mem, kernel, satp, tasks, harts, tlb, panicked>>
  BY DEF Alloc, AtBoot, Ready
<1>2. TypeOK /\ WorkInv /\ SectionInv /\ GrantInv /\ FrameInv /\ TlbInv
  BY DEF Inv
<1>3. c.base \in Nat /\ n \in Nat /\ pages \subseteq LowerHalf
      /\ c.kind \in {"scattered", "contiguous"}
  BY RequestAssumption DEF RequestAssumption, Regular
<1> HIDE DEF n, left
<1>4. /\ PartOf(left, free, Usable) /\ free[i] \in Nat
      /\ \A k \in 0 .. n - 1 :
            /\ free[i] + k \in Usable /\ free[i] + k \in Holds(free)
            /\ free[i] + k \notin Holds(left) /\ free[i] + k \notin DOMAIN mem
  <2>1. /\ PartOf(Without(free, Run(free, n, 1), n), free, Usable)
        /\ free[Run(free, n, 1)] \in Nat
        /\ \A k \in 0 .. n - 1 :
              LET f == free[Run(free, n, 1)] + k IN
              f \in Usable /\ f \in Holds(free)
              /\ f \notin Holds(Without(free, Run(free, n, 1), n)) /\ f \notin DOMAIN mem
    BY <1>1, <1>3, RunFrames
  <2> QED BY <2>1 DEF n, left
<1>5. PartOf(free', free, Usable)
  BY <1>1, <1>4, Untouched
<1> HIDE DEF i
<1>6. /\ frames \in [1 .. n -> Nat] /\ \A k \in 1 .. n : frames[k] = FrameOf(c.kind, free[i], k)
      /\ \A k \in 1 .. n : frames[k] # NoFrame =>
            c.kind = "contiguous" /\ frames[k] = free[i] + k - 1
  BY <1>3, <1>4 DEF FrameOf, NoFrame
<1>7. list = [k \in 1 .. n |-> Request(c.base + k - 1, frames[k], 1)]
  BY <1>6
<1> HIDE DEF frames, list
<1>8. PageByPage(list, c.base, n, frames)
  <2>1. Section(c.base, n) \subseteq LowerHalf
    BY <1>3 DEF n
  <2> QED BY <1>3, <1>6, <1>7, <2>1, RequestsAre
<1>9. kernel \in Nat /\ list \in Seq(Requests)
  BY <1>2, <1>8 DEF WorkInv, PageByPage
<1>10. /\ work' \in Works /\ work'.op = "alloc" /\ work'.root = satp /\ work'.todo = list
       /\ work'.segments = << >>
  <2>1. satp \in Nat /\ "alloc" \in {"alloc", "free", "load", "stack", "init"}
    BY <1>1, <1>9
  <2>2. IsCall(work', "alloc", satp, list, << >>)
    BY <1>1, <1>9, <2>1, CallIs
  <2> QED BY <2>2 DEF IsCall
<1>11. Roots' = Roots
  BY <1>1, <1>10, IdleIs DEF Roots, Loading, Booted
<1>12. TreeInv' /\ BootInv' /\ FreeInv' /\ FrameInv' /\ \A p : Mapped(p)' = Mapped(p)
  BY <1>1, <1>5, <1>11, Still
<1>13. TypeOK'
  <2>1. Section(c.base, c.pages) \subseteq LowerHalf /\ free' \in Seq(Usable)
    BY <1>3, <1>5 DEF PartOf
  <2>2. \A s \in sections' : Section(s.base, s.pages) \subseteq LowerHalf
    BY <1>1, <1>2, <2>1 DEF TypeOK
  <2> QED BY <1>1, <1>2, <1>11, <2>1, <2>2 DEF TypeOK, LowerHalf, Half, Usable
<1>14. /\ DOMAIN list = 1 .. n
       /\ \A k \in 1 .. n : /\ list[k].page \in LowerHalf /\ list[k].target = 1
                            /\ list[k].page \in pages /\ list[k].frame = frames[k]
       /\ \A j, k \in 1 .. n : list[j].page = list[k].page => j = k
       /\ {list[k].page : k \in DOMAIN list} = pages
  BY <1>8 DEF PageByPage, n
<1>15. WorkInv'
  BY <1>1, <1>2, <1>10, <1>11, <1>14 DEF WorkInv, VmmWork, Loading, LowerHalf, Half, Booted
<1>16. Granted' = Granted \cup pages /\ Granted \cap pages = {}
  <2> DEFINE new == [base |-> c.base, pages |-> c.pages]
  <2>1. Section(new.base, new.pages) = pages /\ sections' = sections \cup {new}
    BY <1>1
  <2> HIDE DEF new, pages
  <2>2. Granted' = Granted \cup Section(new.base, new.pages)
    BY <2>1 DEF Granted
  <2>3. \A s \in sections : pages \cap Section(s.base, s.pages) = {}
    BY <1>1
  <2>4. Granted \cap pages = {}
    BY <2>3 DEF Granted
  <2> QED BY <2>1, <2>2, <2>4
<1>17. SectionInv'
  <2>1. \A k \in DOMAIN list : list[k].page \in Granted'
    BY <1>14, <1>16
  <2>2. \A s \in sections' : s.base \in Nat /\ s.pages \in Nat
    BY <1>1, <1>2, <1>3 DEF SectionInv, n
  <2>3. \A s, t \in sections' : s # t =>
           Section(s.base, s.pages) \cap Section(t.base, t.pages) = {}
    BY <1>1, <1>2 DEF SectionInv
  <2> QED BY <1>10, <1>14, <2>1, <2>2, <2>3 DEF SectionInv, VmmWork
<1>18. ClaimInv'
  <2>1. ASSUME NEW k \in 1 .. n, frames[k] # NoFrame
        PROVE  /\ frames[k] \in Usable /\ frames[k] \notin Holds(free')
               /\ frames[k] \notin DOMAIN mem'
               /\ \A p \in LowerHalf : Mapped(p) # frames[k]
               /\ \A j \in 1 .. n : frames[j] = frames[k] => j = k
    <3>1. c.kind = "contiguous" /\ frames[k] = free[i] + k - 1
      BY <1>6, <2>1
    <3>2. k - 1 \in 0 .. n - 1 /\ free[i] + (k - 1) = frames[k]
      BY <1>3, <1>4, <3>1
    <3>3. frames[k] \in Usable /\ frames[k] \in Holds(free) /\ frames[k] \notin Holds(left)
          /\ frames[k] \notin DOMAIN mem
      BY <1>4, <3>2
    <3>4. free' = left /\ mem' = mem
      BY <1>1, <3>1
    <3>5. \A p \in LowerHalf : Mapped(p) # frames[k]
      BY <1>1, <1>2, <2>1, <3>3 DEF FrameInv, Off
    <3>6. \A j \in 1 .. n : frames[j] = frames[k] => j = k
      BY <1>4, <1>6, <2>1, <3>1
    <3> QED BY <3>3, <3>4, <3>5, <3>6
  <2>2. work'.todo = list /\ DOMAIN list = 1 .. n /\ \A k \in 1 .. n : list[k].frame = frames[k]
    BY <1>10, <1>14
  <2>3. \A k \in DOMAIN work'.todo : work'.todo[k].frame # NoFrame =>
           /\ work'.todo[k].frame \in Usable /\ work'.todo[k].frame \notin Holds(free')
           /\ work'.todo[k].frame \notin DOMAIN mem'
           /\ \A p \in LowerHalf : Mapped(p)' # work'.todo[k].frame
           /\ \A j \in DOMAIN work'.todo : work'.todo[j].frame = work'.todo[k].frame => j = k
    BY <1>12, <2>1, <2>2
  <2> QED BY <2>3 DEF ClaimInv, Off, LowerHalf, Half, Usable
<1>19. TlbInv'
  BY <1>1, <1>2 DEF TlbInv
<1>20. Expected' = Expected
  <2>1. TodoPages' = pages
    BY <1>10, <1>14 DEF TodoPages
  <2>2. Expected' = Granted' \ pages
    BY <1>10, <2>1 DEF Expected
  <2>3. Expected = Granted
    BY <1>1, IdleIs DEF Expected
  <2> QED BY <1>16, <2>2, <2>3
<1>21. GrantInv'
  BY <1>1, <1>2, <1>12, <1>20 DEF GrantInv, LowerHalf, Half, Booted
<1> QED BY <1>12, <1>13, <1>15, <1>17, <1>18, <1>19, <1>21 DEF Inv

LEMMA WorkIs ==
    ASSUME NEW w \in Works
    PROVE  /\ w = [op |-> w.op, root |-> w.root, todo |-> w.todo, segments |-> w.segments,
                   stack |-> w.stack]
           /\ w.op \in {"idle", "init", "alloc", "free", "load", "stack"}
           /\ w.root \in Nat /\ w.todo \in Seq(Requests) /\ w.segments \in Seq(Segments)
           /\ w.stack \in Nat
BY DEF Works

\* The first segment of the program is asked for page by page, in frames claimed.
SegmentMade ==
    LET s == Head(work.segments) IN
    /\ s = work.segments[1] /\ 1 \in DOMAIN work.segments /\ s \in Segments
    /\ \A j \in DOMAIN Tail(work.segments) :
          j + 1 \in DOMAIN work.segments /\ j + 1 # 1 /\ Tail(work.segments)[j] = work.segments[j + 1]
    /\ \A j \in DOMAIN work.segments : j # 1 =>
          j - 1 \in DOMAIN Tail(work.segments) /\ Tail(work.segments)[j - 1] = work.segments[j]
    /\ PartOf(free', free, Usable)
    /\ work' \in Works /\ work'.op = "load" /\ work'.root = work.root
    /\ work'.segments = Tail(work.segments)
    /\ \E frames : /\ PageByPage(work'.todo, s.page, s.pages, frames)
                   /\ \A k \in 1 .. s.pages : frames[k] \in Usable /\ frames[k] \notin Holds(free')
                   /\ \E g \in Nat : /\ \A k \in 1 .. s.pages : frames[k] = g + k - 1
                                     /\ Moved(free, free', Section(g, s.pages))

LEMMA LoadSegmentIs ==
    ASSUME Inv, LoadSegment
    PROVE  SegmentMade
<1> DEFINE s == Head(work.segments)
           n == s.pages
           i == Run(free, n, 1)
           frames == [k \in 1 .. n |-> free[i] + k - 1]
           list == [k \in 1 .. n |-> Request(s.page + k - 1, free[i] + k - 1, 1)]
<1>1. /\ work.op = "load" /\ work.segments # << >>
      /\ HasRun(free, n, 1) /\ free' = Without(free, i, n)
      /\ work' = [work EXCEPT !.segments = Tail(@), !.todo = list]
      /\ UNCHANGED <<mem, kernel, satp, tasks, harts, sections, tlb, panicked>>
  BY DEF LoadSegment, Ended
<1>2. TypeOK /\ WorkInv /\ SectionInv /\ GrantInv /\ FrameInv /\ TlbInv
  BY DEF Inv
<1>3. /\ work \in Works /\ work.segments \in Seq(Segments)
      /\ \A j \in DOMAIN work.segments :
            Section(work.segments[j].page, work.segments[j].pages) \subseteq LowerHalf
  BY <1>2 DEF WorkInv, Works
<1>4. /\ s \in Segments /\ Tail(work.segments) \in Seq(Segments)
      /\ Section(s.page, s.pages) \subseteq LowerHalf
      /\ \A j \in DOMAIN Tail(work.segments) :
            Section(Tail(work.segments)[j].page, Tail(work.segments)[j].pages) \subseteq LowerHalf
  <2> DEFINE segs == work.segments
  <2>1. segs \in Seq(Segments) /\ segs # << >>
    BY <1>1, <1>3
  <2> HIDE DEF segs
  <2>2. /\ Head(segs) \in Segments /\ Tail(segs) \in Seq(Segments) /\ Head(segs) = segs[1]
        /\ 1 \in DOMAIN segs
        /\ \A j \in DOMAIN Tail(segs) : j + 1 \in DOMAIN segs /\ Tail(segs)[j] = segs[j + 1]
    BY <2>1
  <2>3. \A j \in DOMAIN segs : Section(segs[j].page, segs[j].pages) \subseteq LowerHalf
    BY <1>3 DEF segs
  <2>4. /\ Section(Head(segs).page, Head(segs).pages) \subseteq LowerHalf
        /\ \A j \in DOMAIN Tail(segs) :
              Section(Tail(segs)[j].page, Tail(segs)[j].pages) \subseteq LowerHalf
    BY <2>2, <2>3
  <2> QED BY <2>2, <2>4 DEF segs
<1>5. s.page \in Nat /\ n \in Nat
  BY <1>4 DEF Segments
<1> HIDE DEF s
<1>6. PartOf(free', free, Usable) /\ free[i] \in Nat
  BY <1>1, <1>5, RunFrames
<1>11. ASSUME NEW k \in 1 .. n
      PROVE  free[i] + k - 1 \in Usable /\ free[i] + k - 1 \notin Holds(free')
  <2> DEFINE list2 == free'
  <2>1. \A j \in 0 .. n - 1 : free[i] + j \in Usable /\ free[i] + j \notin Holds(free')
    BY <1>1, <1>5, RunFrames
  <2>2. k - 1 \in 0 .. n - 1 /\ free[i] + (k - 1) = free[i] + k - 1
    BY <1>5, <1>6
  <2> QED BY <2>1, <2>2
<1>16. \E g \in Nat : /\ \A k \in 1 .. n : frames[k] = g + k - 1
                      /\ Moved(free, free', Section(g, n))
  <2>1. Moved(free, free', Section(free[i], n))
    BY <1>1, <1>5, RunFrames
  <2>2. \A k \in 1 .. n : frames[k] = free[i] + k - 1
    OBVIOUS
  <2> HIDE DEF i, frames
  <2> QED BY <1>6, <2>1, <2>2
<1> HIDE DEF i
<1>7. frames \in [1 .. n -> Nat] /\ list = [k \in 1 .. n |-> Request(s.page + k - 1, frames[k], 1)]
  BY <1>5, <1>6
<1>12. \A k \in 1 .. n : frames[k] \in Usable /\ frames[k] \notin Holds(free')
  BY <1>11
<1> HIDE DEF frames, list
<1>8. PageByPage(list, s.page, n, frames)
  <2> DEFINE b == s.page
  <2>1. b \in Nat /\ Section(b, n) \subseteq LowerHalf
        /\ list = [k \in 1 .. n |-> Request(b + k - 1, frames[k], 1)]
    BY <1>4, <1>5, <1>7
  <2> HIDE DEF b
  <2>2. PageByPage(list, b, n, frames)
    BY <1>5, <1>7, <2>1, RequestsAre
  <2> QED BY <2>2 DEF b
<1>13. list \in Seq(Requests)
  BY <1>8 DEF PageByPage
<1>9. IsCall(work', "load", work.root, list, Tail(work.segments))
  <2> DEFINE rest == Tail(work.segments)
             rec(g, t) == [op |-> work.op, root |-> work.root, todo |-> t, segments |-> g,
                           stack |-> work.stack]
  <2>1. rest \in Seq(Segments) /\ work.op = "load" /\ work.root \in Nat /\ work.stack \in Nat
        /\ work = rec(work.segments, work.todo)
    BY <1>1, <1>3, <1>4, WorkIs
  <2> HIDE DEF rest
  <2>2. work' = [work EXCEPT !.segments = rest, !.todo = list]
    BY <1>1, <2>1 DEF rest
  <2>3. work' = rec(rest, list)
    <3>1. [rec(work.segments, work.todo) EXCEPT !.segments = rest] = rec(rest, work.todo)
      OBVIOUS
    <3>2. [rec(rest, work.todo) EXCEPT !.todo = list] = rec(rest, list)
      OBVIOUS
    <3> HIDE DEF rec
    <3> QED BY <2>1, <2>2, <3>1, <3>2
  <2>4. work' = [op |-> "load", root |-> work.root, todo |-> list, segments |-> rest,
                 stack |-> work.stack]
    BY <2>1, <2>3
  <2>5. "load" \in {"idle", "init", "alloc", "free", "load", "stack"}
    OBVIOUS
  <2>6. IsCall(work', "load", work.root, list, rest)
    BY <1>13, <2>1, <2>4, <2>5, RecordIs
  <2> QED BY <2>6 DEF rest
<1>10. /\ work' \in Works /\ work'.op = "load" /\ work'.root = work.root /\ work'.todo = list
       /\ work'.segments = Tail(work.segments)
  BY <1>9 DEF IsCall
<1>14. /\ s = work.segments[1] /\ 1 \in DOMAIN work.segments
       /\ \A j \in DOMAIN Tail(work.segments) :
             j + 1 \in DOMAIN work.segments /\ j + 1 # 1
             /\ Tail(work.segments)[j] = work.segments[j + 1]
       /\ \A j \in DOMAIN work.segments : j # 1 =>
             j - 1 \in DOMAIN Tail(work.segments) /\ Tail(work.segments)[j - 1] = work.segments[j]
  <2> DEFINE segs == work.segments
  <2>1. segs \in Seq(Segments) /\ segs # << >> /\ s = Head(segs)
    BY <1>1, <1>3 DEF s
  <2> HIDE DEF segs
  <2>2. /\ Head(segs) = segs[1] /\ 1 \in DOMAIN segs
        /\ \A j \in DOMAIN Tail(segs) : j + 1 \in DOMAIN segs /\ j + 1 # 1 /\ Tail(segs)[j] = segs[j + 1]
        /\ \A j \in DOMAIN segs : j # 1 => j - 1 \in DOMAIN Tail(segs) /\ Tail(segs)[j - 1] = segs[j]
    BY <2>1
  <2> QED BY <2>1, <2>2 DEF segs
<1>15. \E g : /\ PageByPage(work'.todo, s.page, n, g)
              /\ \A k \in 1 .. n : g[k] \in Usable /\ g[k] \notin Holds(free')
              /\ \E h \in Nat : /\ \A k \in 1 .. n : g[k] = h + k - 1
                                /\ Moved(free, free', Section(h, n))
  BY <1>8, <1>10, <1>12, <1>16
<1>17. \E g : /\ PageByPage(work'.todo, s.page, s.pages, g)
              /\ \A k \in 1 .. s.pages : g[k] \in Usable /\ g[k] \notin Holds(free')
              /\ \E h \in Nat : /\ \A k \in 1 .. s.pages : g[k] = h + k - 1
                                /\ Moved(free, free', Section(h, s.pages))
  BY <1>15, Zenon DEF n
<1>18. s \in Segments /\ PartOf(free', free, Usable)
  BY <1>4, <1>6
<1> QED BY <1>10, <1>14, <1>17, <1>18, Zenon DEF SegmentMade, s

LEMMA LoadSegmentStep == Inv /\ LoadSegment => Inv'
<1> SUFFICES ASSUME Inv, LoadSegment PROVE Inv'
  OBVIOUS
<1>1. work.op = "load" /\ UNCHANGED <<mem, kernel, satp, tasks, harts, sections, tlb, panicked>>
  BY DEF LoadSegment, Ended
<1>2. TypeOK /\ WorkInv /\ SectionInv /\ GrantInv /\ FrameInv /\ TlbInv
  BY DEF Inv
<1>3. /\ PartOf(free', free, Usable) /\ work' \in Works /\ work'.op = "load"
      /\ work'.root = work.root
  BY LoadSegmentIs DEF SegmentMade
<1>4. \A j \in DOMAIN work'.segments :
         Section(work'.segments[j].page, work'.segments[j].pages) \subseteq LowerHalf
  <2>1. /\ work'.segments = Tail(work.segments)
        /\ \A j \in DOMAIN Tail(work.segments) :
              j + 1 \in DOMAIN work.segments /\ Tail(work.segments)[j] = work.segments[j + 1]
    BY LoadSegmentIs DEF SegmentMade
  <2>2. \A j \in DOMAIN work.segments :
           Section(work.segments[j].page, work.segments[j].pages) \subseteq LowerHalf
    BY <1>2 DEF WorkInv
  <2> QED BY <2>1, <2>2
<1>5. Roots' = Roots /\ Booted /\ Booted'
  BY <1>1, <1>2, <1>3 DEF Roots, Loading, Booted, WorkInv
<1>6. TreeInv' /\ BootInv' /\ FreeInv' /\ FrameInv' /\ \A p : Mapped(p)' = Mapped(p)
  BY <1>1, <1>3, <1>5, Still
<1>7. TypeOK'
  BY <1>1, <1>2, <1>3, <1>5 DEF TypeOK, LowerHalf, Half, Usable, PartOf
<1>8. WorkInv'
  BY <1>1, <1>2, <1>4, <1>3, <1>5 DEF WorkInv, VmmWork, Loading, LowerHalf, Half
<1>9. SectionInv' /\ ClaimInv' /\ TlbInv'
  BY <1>1, <1>2, <1>3 DEF SectionInv, VmmWork, ClaimInv, TlbInv
<1>10. Expected' = Expected
  BY <1>1, <1>3 DEF Expected, Granted
<1>11. GrantInv'
  BY <1>1, <1>2, <1>5, <1>6, <1>10 DEF GrantInv, LowerHalf, Half
<1> QED BY <1>6, <1>7, <1>8, <1>9, <1>11 DEF Inv

\* A slot has room for the stack.
LEMMA StackPages ==
    ASSUME NEW slot \in 1 .. Fan \div 2, NEW k \in 1 .. StackBlocks
    PROVE  /\ slot * Span(Levels) + (k - 1) * Span(2) \in Pages
           /\ slot * Span(Levels) \in Nat /\ (k - 1) * Span(2) \in Nat
<1> DEFINE P == Span(Levels)
           Q == Span(2)
           R == Power[Levels]
           x == (k - 1) * Q
           z == StackBlocks * Q
<1>1. /\ Levels \in 1 .. Levels /\ Levels - 1 \in 0 .. Levels /\ 1 \in 0 .. Levels
      /\ Fan \in Nat /\ Fan >= 2 /\ Fan = 2 * (Fan \div 2) /\ Fan \div 2 \in Nat
      /\ Levels \in 0 .. Levels
  BY Shape
<1>2. P \in Nat /\ P > 0 /\ Q \in Nat /\ Q > 0 /\ R = Fan * P /\ R \in Nat
  BY <1>1, PowerFacts DEF Span
<1>3. StackBlocks \in Nat /\ z <= P
  BY RequestAssumption DEF RequestAssumption
<1>4. Pages = 0 .. R - 1
  BY DEF Pages
<1> HIDE DEF P, Q, R
<1>5. x \in Nat /\ x < z
  <2>1. Q * (k - 1) + Q <= Q * StackBlocks
    BY <1>2, <1>3, Between
  <2>2. Q * (k - 1) = x /\ Q * StackBlocks = z /\ x \in Nat /\ z \in Nat
    BY <1>2, <1>3
  <2> QED BY <1>2, <2>1, <2>2
<1> HIDE DEF x, z
<1>6. slot \in Nat /\ slot < Fan
  BY <1>1
<1>7. P * slot + P <= P * Fan
  BY <1>1, <1>2, <1>6, Between
<1>8. P * slot = slot * P /\ P * Fan = R /\ slot * P \in Nat
  BY <1>1, <1>2, <1>6
<1> DEFINE y == slot * P
<1>9. y \in Nat /\ y + P <= R
  BY <1>7, <1>8
<1> HIDE DEF y
<1>10. z \in Nat
  BY <1>2, <1>3 DEF z
<1>11. y + x \in Pages
  BY <1>2, <1>3, <1>4, <1>5, <1>9, <1>10
<1> QED BY <1>5, <1>9, <1>11 DEF x, y, P, Q

\* The stack is asked for block by block, in frames claimed, under a slot of the root
\* that nothing hangs under.
StackMade ==
    /\ PartOf(free', free, Usable)
    /\ work' \in Works /\ work'.op = "stack" /\ work'.root = work.root /\ work'.segments = << >>
    /\ \E slot \in ArenaSlots(work.root), g \in Nat :
          /\ work'.stack = slot * Span(Levels)
          /\ DOMAIN work'.todo = 1 .. StackBlocks
          /\ \A k \in 1 .. StackBlocks :
                /\ work'.todo[k].page = slot * Span(Levels) + (k - 1) * Span(2)
                /\ work'.todo[k].frame = g + (k - 1) * Span(2)
                /\ work'.todo[k].target = 2
          /\ g % Span(2) = 0
          /\ \A j \in 0 .. StackBlocks * Span(2) - 1 : g + j \in Usable /\ g + j \notin Holds(free')
          /\ Moved(free, free', Section(g, StackBlocks * Span(2)))

LEMMA LoadStackIs ==
    ASSUME Inv, LoadStack
    PROVE  StackMade
<1> DEFINE n == StackBlocks * Span(2)
           i == Run(free, n, Span(2))
<1>1. PICK slot \in ArenaSlots(work.root) :
         /\ free' = Without(free, i, n)
         /\ work' = [work EXCEPT !.op = "stack", !.stack = slot * Span(Levels), !.todo =
                       [k \in 1 .. StackBlocks |->
                          Request(slot * Span(Levels) + (k - 1) * Span(2),
                                  free[i] + (k - 1) * Span(2), 2)]]
  BY DEF LoadStack
<1> DEFINE base == slot * Span(Levels)
           list == [k \in 1 .. StackBlocks |->
                      Request(base + (k - 1) * Span(2), free[i] + (k - 1) * Span(2), 2)]
<1>2. /\ work.op = "load" /\ work.segments = << >> /\ HasRun(free, n, Span(2))
      /\ UNCHANGED <<mem, kernel, satp, tasks, harts, sections, tlb, panicked>>
  BY DEF LoadStack, Ended
<1>3. TypeOK /\ WorkInv /\ SectionInv /\ GrantInv /\ FrameInv /\ TlbInv
  BY DEF Inv
<1>4. slot \in 1 .. Fan \div 2
  BY DEF ArenaSlots
<1>5. StackBlocks \in Nat /\ n \in Nat /\ base \in Nat
  <2>1. StackBlocks \in Nat
    BY RequestAssumption DEF RequestAssumption
  <2>2. 1 \in 0 .. Levels /\ Levels - 1 \in 0 .. Levels
    BY Shape
  <2>3. Span(2) \in Nat /\ Span(Levels) \in Nat /\ slot \in Nat
    BY <1>4, <2>2, PowerFacts, Shape DEF Span
  <2> QED BY <2>1, <2>3
<1> HIDE DEF n
<1>6. PartOf(free', free, Usable) /\ free[i] \in Nat
  BY <1>1, <1>2, <1>5, RunFrames
<1>17. Moved(free, free', Section(free[i], n))
  BY <1>1, <1>2, <1>5, RunFrames
<1>11. free[i] % Span(2) = 0
       /\ \A j \in 0 .. n - 1 : free[i] + j \in Usable /\ free[i] + j \notin Holds(free')
  <2>1. RunAt(free, i, n, Span(2))
    BY <1>2, <1>3, RunIs DEF TypeOK
  <2>2. \A j \in 0 .. n - 1 : free[i] + j \in Usable /\ free[i] + j \notin Holds(free')
    BY <1>1, <1>2, <1>5, RunFrames
  <2> QED BY <2>1, <2>2 DEF RunAt
<1> HIDE DEF i
<1>7. list \in Seq(Requests)
  <2>1. ASSUME NEW k \in 1 .. StackBlocks
        PROVE  Request(base + (k - 1) * Span(2), free[i] + (k - 1) * Span(2), 2) \in Requests
    <3>1. base + (k - 1) * Span(2) \in Pages /\ (k - 1) * Span(2) \in Nat
      BY <1>4, StackPages
    <3>2. free[i] + (k - 1) * Span(2) \in Nat
      BY <1>6, <3>1
    <3>3. 2 \in 1 .. Levels
      BY Shape
    <3> HIDE DEF base
    <3> QED BY <3>1, <3>2, <3>3 DEF Request, Requests
  <2> HIDE DEF base
  <2> QED BY <1>5, <2>1
<1> HIDE DEF base
<1>8. work' = [work EXCEPT !.op = "stack", !.stack = base, !.todo = list]
  BY <1>1 DEF base
<1>12. DOMAIN list = 1 .. StackBlocks
       /\ \A k \in 1 .. StackBlocks : /\ list[k].page = base + (k - 1) * Span(2)
                                       /\ list[k].frame = free[i] + (k - 1) * Span(2)
                                       /\ list[k].target = 2
  <2>1. ASSUME NEW k \in 1 .. StackBlocks
        PROVE  /\ list[k].page = base + (k - 1) * Span(2)
               /\ list[k].frame = free[i] + (k - 1) * Span(2)
               /\ list[k].target = 2
    <3>1. list[k] = Request(base + (k - 1) * Span(2), free[i] + (k - 1) * Span(2), 2)
      BY DEF base
    <3> QED BY <3>1 DEF Request
  <2> QED BY <2>1
<1> HIDE DEF list
<1>9. IsCall(work', "stack", work.root, list, << >>) /\ work'.stack = base
  <2> DEFINE none == << >>
             rec(o, t, k) == [op |-> o, root |-> work.root, todo |-> t, segments |-> none,
                              stack |-> k]
  <2>1. work.root \in Nat /\ work.stack \in Nat /\ work = rec(work.op, work.todo, work.stack)
    BY <1>2, <1>3, WorkIs DEF WorkInv
  <2>2. none \in Seq(Segments)
    OBVIOUS
  <2> HIDE DEF none
  <2>3. work' = rec("stack", list, base)
    <3>1. [rec(work.op, work.todo, work.stack) EXCEPT !.op = "stack"]
             = rec("stack", work.todo, work.stack)
      OBVIOUS
    <3>2. [rec("stack", work.todo, work.stack) EXCEPT !.stack = base]
             = rec("stack", work.todo, base)
      OBVIOUS
    <3>3. [rec("stack", work.todo, base) EXCEPT !.todo = list] = rec("stack", list, base)
      OBVIOUS
    <3> HIDE DEF rec
    <3> QED BY <1>8, <2>1, <3>1, <3>2, <3>3
  <2>4. work' = [op |-> "stack", root |-> work.root, todo |-> list, segments |-> none,
                 stack |-> base]
    BY <2>3
  <2>5. "stack" \in {"idle", "init", "alloc", "free", "load", "stack"}
    OBVIOUS
  <2>6. IsCall(work', "stack", work.root, list, none)
    BY <1>5, <1>7, <2>1, <2>2, <2>4, <2>5, RecordIs
  <2>7. work'.stack = base
    BY <2>4
  <2> QED BY <2>6, <2>7 DEF none
<1>10. /\ work' \in Works /\ work'.op = "stack" /\ work'.root = work.root /\ work'.todo = list
       /\ work'.segments = << >> /\ work'.stack = base
  BY <1>9 DEF IsCall
<1> DEFINE g == free[i]
<1>13. g \in Nat /\ g % Span(2) = 0 /\ Moved(free, free', Section(g, n))
       /\ \A j \in 0 .. n - 1 : g + j \in Usable /\ g + j \notin Holds(free')
  BY <1>6, <1>11, <1>17
<1>14. \A k \in 1 .. StackBlocks : /\ work'.todo[k].page = base + (k - 1) * Span(2)
                                   /\ work'.todo[k].frame = g + (k - 1) * Span(2)
                                   /\ work'.todo[k].target = 2
  BY <1>10, <1>12
<1>15. DOMAIN work'.todo = 1 .. StackBlocks
  BY <1>10, <1>12
<1> HIDE DEF g
<1>16. \E h \in Nat :
          /\ \A k \in 1 .. StackBlocks : /\ work'.todo[k].page = base + (k - 1) * Span(2)
                                          /\ work'.todo[k].frame = h + (k - 1) * Span(2)
                                          /\ work'.todo[k].target = 2
          /\ h % Span(2) = 0
          /\ \A j \in 0 .. n - 1 : h + j \in Usable /\ h + j \notin Holds(free')
          /\ Moved(free, free', Section(h, n))
  BY <1>13, <1>14, Zenon
<1> QED BY <1>6, <1>10, <1>15, <1>16, Zenon DEF StackMade, base, n

LEMMA LoadStackStep == Inv /\ LoadStack => Inv'
<1> SUFFICES ASSUME Inv, LoadStack PROVE Inv'
  OBVIOUS
<1>1. work.op = "load" /\ UNCHANGED <<mem, kernel, satp, tasks, harts, sections, tlb, panicked>>
  BY DEF LoadStack, Ended
<1>2. TypeOK /\ WorkInv /\ SectionInv /\ GrantInv /\ FrameInv /\ TlbInv
  BY DEF Inv
<1>3. /\ PartOf(free', free, Usable) /\ work' \in Works /\ work'.op = "stack"
      /\ work'.root = work.root /\ work'.segments = << >>
  BY LoadStackIs DEF StackMade
<1>4. Roots' = Roots /\ Booted /\ Booted'
  BY <1>1, <1>2, <1>3 DEF Roots, Loading, Booted, WorkInv
<1>5. TreeInv' /\ BootInv' /\ FreeInv' /\ FrameInv' /\ \A p : Mapped(p)' = Mapped(p)
  BY <1>1, <1>3, <1>4, Still
<1>6. TypeOK'
  BY <1>1, <1>2, <1>3, <1>4 DEF TypeOK, LowerHalf, Half, Usable, PartOf
<1>7. WorkInv'
  BY <1>1, <1>2, <1>3, <1>4 DEF WorkInv, VmmWork, Loading, LowerHalf, Half
<1>8. SectionInv' /\ ClaimInv' /\ TlbInv'
  BY <1>1, <1>2, <1>3 DEF SectionInv, VmmWork, ClaimInv, TlbInv
<1>9. Expected' = Expected
  BY <1>1, <1>3 DEF Expected, Granted
<1>10. GrantInv'
  BY <1>1, <1>2, <1>4, <1>5, <1>9 DEF GrantInv, LowerHalf, Half
<1> QED BY <1>5, <1>6, <1>7, <1>8, <1>10 DEF Inv

LEMMA TreesTyped ==
    ASSUME NEW m, NEW pl, NEW R, Trees(m, pl, R), \A t \in Boots : m[t] = BootMem[t],
           m = [t \in DOMAIN m |-> m[t]]
    PROVE  /\ m \in [DOMAIN m -> [Slots -> Entry]]
           /\ \A t \in DOMAIN m, i \in Slots :
                 m[t][i].kind = "branch" => m[t][i].frame \in DOMAIN m
           /\ R \subseteq DOMAIN m
<1>1. /\ Closed(m, DOMAIN pl) /\ DOMAIN m = DOMAIN pl \cup Boots
      /\ \A r \in R : r \in DOMAIN pl
  BY DEF Trees, Placed, RootAt
<1>2. Closed(BootMem, Boots)
  BY BootFacts
<1>3. \A t \in DOMAIN m : m[t] \in [Slots -> Entry]
  BY <1>1, <1>2 DEF Closed
<1>4. \A t \in DOMAIN m, i \in Slots : m[t][i].kind = "branch" => m[t][i].frame \in DOMAIN m
  BY <1>1, <1>2 DEF Closed
<1>5. m \in [DOMAIN m -> [Slots -> Entry]]
  BY <1>3
<1> QED BY <1>1, <1>4, <1>5

\* The table in use can be cloned: it is the bootloader's or one of the roots.
LEMMA InUse ==
    ASSUME Inv, NEW pl, Trees(mem, pl, Roots)
    PROVE  \E S : Closed(mem, S) /\ satp \in S /\ Bottomed(mem, satp)
<1>1. BootInv /\ WorkInv
  BY DEF Inv
<1>2. CASE satp = BootRoot
  <2>1. Boots \subseteq DOMAIN mem /\ \A t \in Boots : mem[t] = BootMem[t]
    BY <1>1 DEF Trees, BootInv
  <2>2. Closed(BootMem, Boots) /\ BootRoot \in Boots /\ Bottomed(BootMem, BootRoot)
    BY BootFacts
  <2>3. \A p \in Nat : Unchanged(BootMem, mem, Boots, BootRoot, p, TRUE)
    BY <2>1, <2>2, Kept
  <2>4. Closed(mem, Boots)
    <3>1. 0 \in Nat
      OBVIOUS
    <3> QED BY <2>3, <3>1 DEF Unchanged
  <2>5. Bottomed(mem, BootRoot)
    <3> SUFFICES ASSUME NEW p \in Pages, Path(mem, BootRoot, p)[1] # NoFrame
                 PROVE  mem[Path(mem, BootRoot, p)[1]][Index(p, 1)].kind # "branch"
      BY DEF Bottomed
    <3>1. p \in Nat /\ 1 \in 1 .. Levels
      BY PrefixEnds, Shape
    <3>2. Path(mem, BootRoot, p) = Path(BootMem, BootRoot, p)
      BY <2>3, <3>1 DEF Unchanged
    <3>3. Path(BootMem, BootRoot, p)[1] \in Boots
      BY <2>2, <3>1, <3>2, PathIn
    <3> QED BY <2>1, <2>2, <3>2, <3>3 DEF Bottomed
  <2> QED BY <1>2, <2>2, <2>4, <2>5
<1>3. CASE satp \in Roots
  <2>1. Placed(mem, pl) /\ RootAt(pl, satp)
    BY <1>3 DEF Trees
  <2>2. Closed(mem, DOMAIN pl) /\ satp \in DOMAIN pl
    BY <2>1 DEF Placed, RootAt
  <2>3. Bottomed(mem, satp)
    <3> SUFFICES ASSUME NEW p \in Pages, Path(mem, satp, p)[1] # NoFrame
                 PROVE  mem[Path(mem, satp, p)[1]][Index(p, 1)].kind # "branch"
      BY DEF Bottomed
    <3>1. p \in Nat /\ 1 \in 1 .. Levels
      BY PrefixEnds, Shape
    <3> DEFINE t == Path(mem, satp, p)[1]
    <3>2. t \in DOMAIN pl /\ pl[t] = Place(satp, 1, Prefix(p, 1))
      BY <2>1, <3>1, PathPlace
    <3> HIDE DEF t
    <3>3. ~(pl[t].level > 1)
      BY <3>2 DEF Place
    <3>4. Index(p, 1) \in Slots
      BY <3>1, PrefixStep
    <3>5. mem[t][Index(p, 1)].kind # "branch"
      BY <2>1, <3>2, <3>3, <3>4 DEF Placed
    <3> QED BY <3>5 DEF t
  <2> QED BY <2>2, <2>3
<1> QED BY <1>1, <1>2, <1>3 DEF WorkInv

LEMMA CostIs == Cost \in Nat \ {0} /\ Cost = 1 + CloneSize(mem, satp, UpperSlots)
<1>1. IsFiniteSet(Below(mem, satp, UpperSlots))
  BY BelowFinite
<1>2. Cardinality(Below(mem, satp, UpperSlots)) \in Nat
  BY <1>1, FS_CardinalityType
<1> QED BY <1>2 DEF Cost, CloneSize

\* What the new root takes from the list, and what it leaves.
Cut(c) ==
    /\ free[1] \in Usable /\ free[1] \notin DOMAIN mem
    /\ PartOf(After(c), free, Usable)
    /\ Moved(free, After(c), Holds(First(c)))
    /\ Holds(First(c)) \subseteq Holds(free)
    /\ Holds(First(c)) \cap Holds(After(c)) = {}
    /\ Holds(First(c)) = {free[1]} \cup Holds(Tail(First(c)))
    /\ \A entries : Claimed(AddTable(mem, free[1], entries), Tail(First(c)), c - 1)

LEMMA FirstCut ==
    ASSUME Inv, NEW c \in Nat \ {0}, Len(free) > c
    PROVE  Cut(c)
<1> DEFINE new == Tail(First(c))
<1>1. /\ free \in Seq(Usable) /\ Distinct(free) /\ Len(free) \in Nat
      /\ \A i \in DOMAIN free : free[i] \notin DOMAIN mem
  BY DEF Inv, TypeOK, FreeInv
<1>2. Usable \subseteq Nat \ {NoFrame}
  BY MemoryFacts
<1>3. PartOf(First(c), free, Usable) /\ Len(First(c)) = c
      /\ Holds(First(c)) = {free[k] : k \in 1 .. c}
      /\ \A k \in 1 .. c : First(c)[k] = free[k]
  <2>1. /\ 1 \in Nat \ {0} /\ c \in Nat /\ c <= Len(free) /\ 1 <= c + 1
    BY <1>1
  <2>2. /\ PartOf(SubSeq(free, 1, c), free, Usable)
        /\ Len(SubSeq(free, 1, c)) = c - 1 + 1
        /\ Holds(SubSeq(free, 1, c)) = {free[k] : k \in 1 .. c}
    BY <1>1, <2>1, SubSeqPart
  <2>3. \A k \in 1 .. c - 1 + 1 : SubSeq(free, 1, c)[k] = free[1 + k - 1]
    BY <1>1, <2>1, SubSeqIs
  <2>4. c - 1 + 1 = c /\ \A k \in 1 .. c : 1 + k - 1 = k
    OBVIOUS
  <2> QED BY <2>2, <2>3, <2>4 DEF First
<1>4. PartOf(After(c), free, Usable)
      /\ Holds(After(c)) = {free[k] : k \in c + 1 .. Len(free)}
  <2>1. c + 1 \in Nat \ {0} /\ Len(free) \in Nat /\ c + 1 <= Len(free) + 1
        /\ Len(free) <= Len(free)
    BY <1>1
  <2> QED BY <1>1, <2>1, SubSeqPart DEF After
<1>5. DOMAIN free = 1 .. Len(free)
  BY <1>1
<1>6. \A j, k \in 1 .. Len(free) : free[j] = free[k] => j = k
  BY <1>1, <1>5 DEF Distinct
<1>7. \A k \in 1 .. c : k \in 1 .. Len(free) /\ free[k] \in Usable /\ free[k] \notin DOMAIN mem
                        /\ free[k] \in Nat \ {NoFrame}
  <2>1. \A k \in 1 .. c : k \in 1 .. Len(free)
    BY <1>1
  <2>2. \A k \in 1 .. Len(free) : free[k] \in Usable /\ free[k] \notin DOMAIN mem
    BY <1>1, <1>5
  <2> QED BY <1>2, <2>1, <2>2
<1>8. Holds(First(c)) \cap Holds(After(c)) = {}
  <2>1. \A k \in c + 1 .. Len(free) : k \in 1 .. Len(free) /\ k \notin 1 .. c
    OBVIOUS
  <2> QED BY <1>3, <1>4, <1>6, <1>7, <2>1
<1>9. /\ new \in Seq(Usable) /\ Len(new) = c - 1 /\ DOMAIN new = 1 .. c - 1
      /\ \A k \in 1 .. c - 1 : new[k] = free[k + 1] /\ k + 1 \in 1 .. c
  <2> DEFINE l == First(c)
  <2>1. l \in Seq(Usable) /\ Len(l) = c /\ \A k \in 1 .. c : l[k] = free[k]
    BY <1>3 DEF PartOf
  <2> HIDE DEF l
  <2>2. Tail(l) \in Seq(Usable) /\ Len(Tail(l)) = c - 1
        /\ \A k \in 1 .. c - 1 : Tail(l)[k] = l[k + 1]
    BY <2>1
  <2> QED BY <2>1, <2>2 DEF l
<1> HIDE DEF new
<1>10. Holds(First(c)) = {free[1]} \cup Holds(new)
  <2>1. \A k \in 2 .. c : k - 1 \in 1 .. c - 1 /\ (k - 1) + 1 = k
    OBVIOUS
  <2>2. \A k \in 2 .. c : free[k] \in Holds(new)
    BY <1>9, <2>1 DEF Holds
  <2>3. \A k \in 1 .. c : k = 1 \/ k \in 2 .. c
    OBVIOUS
  <2>4. 1 \in 1 .. c
    OBVIOUS
  <2>5. \A f \in Holds(new) : f \in {free[k] : k \in 1 .. c}
    BY <1>9 DEF Holds
  <2> QED BY <1>3, <2>2, <2>3, <2>4, <2>5
<1>11. ASSUME NEW entries
       PROVE  Claimed(AddTable(mem, free[1], entries), new, c - 1)
  <2>1. DOMAIN AddTable(mem, free[1], entries) = DOMAIN mem \cup {free[1]}
    BY DEF AddTable
  <2>2. new \in Seq(Nat \ {NoFrame})
    <3>1. \A k \in 1 .. Len(new) : new[k] \in Nat \ {NoFrame}
      BY <1>7, <1>9
    <3> QED BY <1>9, <3>1
  <2>3. \A k \in DOMAIN new : new[k] \notin DOMAIN mem \cup {free[1]}
    <3> SUFFICES ASSUME NEW k \in 1 .. c - 1 PROVE new[k] \notin DOMAIN mem \cup {free[1]}
      BY <1>9
    <3>1. k + 1 # 1 /\ 1 \in 1 .. Len(free) /\ k + 1 \in 1 .. Len(free)
      BY <1>7, <1>9
    <3> QED BY <1>6, <1>7, <1>9, <3>1
  <2>4. \A j, k \in DOMAIN new : new[j] = new[k] => j = k
    <3> SUFFICES ASSUME NEW j \in 1 .. c - 1, NEW k \in 1 .. c - 1, new[j] = new[k] PROVE j = k
      BY <1>9
    <3>1. j + 1 = k + 1
      BY <1>6, <1>7, <1>9
    <3> QED BY <3>1
  <2> QED BY <1>9, <2>1, <2>2, <2>3, <2>4 DEF Claimed
<1>12. free[1] \in Usable /\ free[1] \notin DOMAIN mem
  BY <1>7
<1>13. Holds(First(c)) \subseteq Holds(free)
  BY <1>3 DEF PartOf
<1>14. Moved(free, After(c), Holds(First(c)))
  <2>1. \A k \in 1 .. Len(free) : k \in 1 .. c \/ k \in c + 1 .. Len(free)
    BY <1>1
  <2>2. \A f \in Holds(free) : f \in Holds(First(c)) \/ f \in Holds(After(c))
    BY <1>3, <1>4, <1>5, <2>1 DEF Holds
  <2>3. Holds(After(c)) \subseteq Holds(free)
    BY <1>4 DEF PartOf
  <2> QED BY <1>8, <1>13, <2>2, <2>3 DEF Moved
<1> QED BY <1>4, <1>8, <1>10, <1>11, <1>12, <1>13, <1>14 DEF Cut, new

LEMMA RootMakes ==
    ASSUME Inv, Enough, NEW entries \in {Cleared, Linked}, NEW pl, Trees(mem, pl, Roots)
    PROVE  /\ Cut(Cost)
           /\ \E q : /\ NewSpace(mem, WithRoot(entries), pl, q, satp, free[1], Holds(First(Cost)))
                    /\ Imaged(mem, WithRoot(entries), q, satp, free[1], entries, Holds(First(Cost)))
           /\ WithRoot(entries) = [t \in DOMAIN WithRoot(entries) |-> WithRoot(entries)[t]]
<1> DEFINE root == free[1]
           k == AddTable(mem, root, entries)
           new == Tail(First(Cost))
           c == Cost
<1>1. c \in Nat \ {0} /\ c - 1 = CloneSize(mem, satp, UpperSlots) /\ Len(free) > c
  <2>1. Len(free) > Cost
    BY DEF Enough
  <2>2. Cost \in Nat \ {0} /\ Cost = 1 + CloneSize(mem, satp, UpperSlots)
    BY CostIs
  <2> DEFINE y == CloneSize(mem, satp, UpperSlots)
             x == Cost
  <2>3. x \in Nat \ {0} /\ x = 1 + y /\ Len(free) > x /\ y \in Nat
    <3>1. IsFiniteSet(Below(mem, satp, UpperSlots))
      BY BelowFinite
    <3>2. y \in Nat
      BY <3>1, FS_CardinalityType DEF CloneSize
    <3> HIDE DEF y, x
    <3> QED BY <2>1, <2>2, <3>2 DEF x, y
  <2> HIDE DEF y, x
  <2>4. x - 1 = y
    BY <2>3
  <2> QED BY <2>3, <2>4 DEF x, y
<1> HIDE DEF c
<1>2. Cut(c)
  BY <1>1, FirstCut
<1>3. WithRoot(entries) = clone_table_range(k, new, satp, root, UpperSlots)
  BY DEF WithRoot, AddTable
<1>4. /\ root \in Usable /\ root \notin DOMAIN mem
      /\ Holds(First(c)) = {root} \cup Holds(Tail(First(c)))
      /\ Claimed(k, Tail(First(c)), c - 1)
  BY <1>2 DEF Cut
<1>5. Claimed(k, new, CloneSize(mem, satp, UpperSlots))
  BY <1>1, <1>4 DEF c
<1>6. PICK S : Closed(mem, S) /\ satp \in S /\ Bottomed(mem, satp)
  BY InUse
<1>7. Placed(mem, pl)
  BY DEF Trees
<1>8. root \in Nat \ {NoFrame}
  BY <1>4, MemoryFacts
<1>9. \E q : /\ NewSpace(mem, WithRoot(entries), pl, q, satp, root, {root} \cup Holds(new))
             /\ Imaged(mem, WithRoot(entries), q, satp, root, entries, {root} \cup Holds(new))
  <2> HIDE DEF new, root
  <2>1. Claimed(AddTable(mem, root, entries), new, CloneSize(mem, satp, UpperSlots))
    BY <1>5
  <2> DEFINE n == clone_table_range(AddTable(mem, root, entries), new, satp, root, UpperSlots)
  <2>2. \E q : /\ NewSpace(mem, n, pl, q, satp, root, {root} \cup Holds(new))
               /\ Imaged(mem, n, q, satp, root, entries, {root} \cup Holds(new))
    BY <1>4, <1>6, <1>7, <1>8, <2>1, AddRoot
  <2> HIDE DEF n
  <2>3. WithRoot(entries) = n
    BY <1>3 DEF n
  <2> QED BY <2>2, <2>3
<1>10. WithRoot(entries) = [t \in DOMAIN WithRoot(entries) |-> WithRoot(entries)[t]]
  <2> HIDE DEF k, new, root
  <2> DEFINE n == clone_table_range(k, new, satp, root, UpperSlots)
  <2>1. n = [t \in DOMAIN n |-> n[t]]
    BY DEF clone_table_range
  <2> HIDE DEF n
  <2> QED BY <1>3, <2>1 DEF n
<1> QED BY <1>2, <1>4, <1>9, <1>10 DEF c

\* The trees there are with the new root: its tables come off the list.
LEMMA RootTrees ==
    ASSUME Inv, Enough, NEW entries \in {Cleared, Linked}, mem' = WithRoot(entries),
           Roots' \subseteq Roots \cup {free[1]}, NEW pl, Trees(mem, pl, Roots)
    PROVE  \E q : /\ NewSpace(mem, mem', pl, q, satp, free[1], Holds(First(Cost)))
                  /\ Imaged(mem, mem', q, satp, free[1], entries, Holds(First(Cost)))
                  /\ Trees(mem', q, Roots')
<1> DEFINE root == free[1]
           taken == Holds(First(Cost))
<1>1. Cut(Cost)
  BY RootMakes
<1>2. PICK q : /\ NewSpace(mem, mem', pl, q, satp, root, taken)
               /\ Imaged(mem, mem', q, satp, root, entries, taken)
  BY RootMakes
<1>3. root \in Usable /\ taken \subseteq Holds(free)
  BY <1>1 DEF Cut
<1> HIDE DEF root, taken
<1>4. /\ Placed(mem', q)
      /\ DOMAIN mem' = DOMAIN mem \cup taken /\ DOMAIN q = DOMAIN pl \cup taken
      /\ \A t \in DOMAIN pl : q[t] = pl[t]
      /\ RootAt(q, root)
  BY <1>2 DEF NewSpace
<1>5. /\ DOMAIN mem = DOMAIN pl \cup Boots /\ DOMAIN pl \cap Boots = {}
      /\ \A r \in Roots : RootAt(pl, r)
  BY DEF Trees
<1>6. Holds(free) \subseteq Usable
  <2>1. free \in Seq(Usable)
    BY DEF Inv, TypeOK
  <2> QED BY <2>1 DEF Holds
<1>7. DOMAIN mem' = DOMAIN q \cup Boots
  BY <1>4, <1>5
<1>8. DOMAIN q \cap Boots = {}
  BY <1>3, <1>4, <1>5, <1>6, MemoryFacts
<1>9. \A r \in Roots' : RootAt(q, r)
  <2>1. \A r \in Roots : RootAt(q, r)
    BY <1>4, <1>5 DEF RootAt
  <2>2. Roots' \subseteq Roots \cup {root}
    BY DEF root
  <2> QED BY <1>4, <2>1, <2>2
<1>10. Trees(mem', q, Roots')
  BY <1>4, <1>7, <1>8, <1>9 DEF Trees
<1> QED BY <1>2, <1>10 DEF root, taken

\* What holds once a root has been made, whoever made it.
Founded ==
    /\ TreeInv' /\ BootInv' /\ FreeInv'
    /\ mem' \in [DOMAIN mem' -> [Slots -> Entry]]
    /\ \A t \in DOMAIN mem', i \in Slots :
          mem'[t][i].kind = "branch" => mem'[t][i].frame \in DOMAIN mem'
    /\ Roots' \subseteq DOMAIN mem' \cap Usable
    /\ free' \in Seq(Usable) /\ satp \in DOMAIN mem'
    /\ free[1] \in Usable \ DOMAIN mem
    /\ \A f : Off(f) => Off(f)'
    /\ \A r \in Roots \cup {satp}, p \in Pages, hard \in BOOLEAN :
          Frame(mem', r, p, hard) = Frame(mem, r, p, hard)
    /\ \A p \in Pages, hard \in BOOLEAN :
          Frame(mem', free[1], p, hard) = IF p \in LowerHalf THEN NoFrame
                                          ELSE Frame(mem, satp, p, hard)

LEMMA Founding ==
    ASSUME Inv, Enough, NEW entries \in {Cleared, Linked}, mem' = WithRoot(entries),
           PartOf(free', After(Cost), Usable), Roots' \subseteq Roots \cup {free[1]}
    PROVE  Founded
<1> DEFINE c == Cost
           root == free[1]
           taken == Holds(First(c))
<1>1. /\ TypeOK /\ BootInv /\ FreeInv /\ TreeInv
  BY DEF Inv
<1>2. PICK pl : Trees(mem, pl, Roots)
  BY <1>1 DEF TreeInv
<1>3. /\ Cut(c)
      /\ mem' = [t \in DOMAIN mem' |-> mem'[t]]
  BY <1>2, RootMakes
<1>4. PICK q : NewSpace(mem, mem', pl, q, satp, root, taken) /\ Trees(mem', q, Roots')
  BY <1>2, RootTrees
<1> HIDE DEF c
<1>5. /\ root \in Usable /\ root \notin DOMAIN mem
      /\ PartOf(After(c), free, Usable) /\ taken \subseteq Holds(free)
      /\ taken \cap Holds(After(c)) = {}
      /\ PartOf(free', After(c), Usable)
  BY <1>3 DEF Cut, c
<1> HIDE DEF root, taken
<1>6. /\ Placed(mem', q)
      /\ DOMAIN mem' = DOMAIN mem \cup taken /\ DOMAIN q = DOMAIN pl \cup taken
      /\ \A t \in DOMAIN mem : mem'[t] = mem[t]
      /\ \A t \in DOMAIN pl : q[t] = pl[t]
      /\ RootAt(q, root)
      /\ \A p \in Pages, hard \in BOOLEAN :
            Frame(mem', root, p, hard) = IF Index(p, Levels) \in UpperSlots
                                         THEN Frame(mem, satp, p, hard) ELSE NoFrame
  BY <1>4 DEF NewSpace
<1>7. /\ Placed(mem, pl) /\ DOMAIN mem = DOMAIN pl \cup Boots /\ DOMAIN pl \cap Boots = {}
      /\ \A r \in Roots : RootAt(pl, r)
  BY <1>2 DEF Trees
<1>8. /\ free' \in Seq(Usable) /\ Distinct(free') /\ Holds(free') \subseteq Holds(After(c))
      /\ Holds(After(c)) \subseteq Holds(free)
  BY <1>5 DEF PartOf
<1>9. \A f \in Holds(free) : f \in Usable /\ f \notin DOMAIN mem
  <2>1. free \in Seq(Usable) /\ \A i \in DOMAIN free : free[i] \notin DOMAIN mem
    BY <1>1 DEF TypeOK, FreeInv
  <2> QED BY <2>1 DEF Holds
<1>10. Trees(mem', q, Roots')
  BY <1>4
<1>11. \A t \in Boots : mem'[t] = BootMem[t]
  BY <1>1, <1>6, <1>7 DEF BootInv
<1>12. BootInv' /\ TreeInv'
  BY <1>10, <1>11 DEF BootInv, TreeInv, Boots
<1>13. FreeInv'
  <2>1. \A f \in Holds(free') : f \notin DOMAIN mem'
    BY <1>5, <1>6, <1>8, <1>9
  <2> QED BY <1>8, <2>1 DEF FreeInv, Distinct, Holds
<1>14. /\ mem' \in [DOMAIN mem' -> [Slots -> Entry]]
       /\ \A t \in DOMAIN mem', i \in Slots :
             mem'[t][i].kind = "branch" => mem'[t][i].frame \in DOMAIN mem'
       /\ Roots' \subseteq DOMAIN mem'
  BY <1>3, <1>10, <1>11, TreesTyped
<1>15. Roots' \subseteq Usable /\ satp \in DOMAIN mem'
  <2>1. Roots \subseteq Usable /\ satp \in DOMAIN mem
    BY <1>1 DEF TypeOK
  <2> QED BY <1>5, <1>6, <2>1 DEF root
<1>16. \A f : Off(f) => Off(f)'
  <2> SUFFICES ASSUME NEW f, f \in Usable, f \notin Holds(free), f \notin DOMAIN mem
               PROVE  f \in Usable /\ f \notin Holds(free') /\ f \notin DOMAIN mem'
    BY DEF Off, Usable, Holds
  <2> QED BY <1>5, <1>6, <1>8
<1>17. ASSUME NEW r \in Roots \cup {satp}, NEW p \in Pages, NEW hard \in BOOLEAN
       PROVE  Frame(mem', r, p, hard) = Frame(mem, r, p, hard)
  <2>1. PICK S : Closed(mem, S) /\ r \in S
    <3>1. CASE r \in Roots
      BY <1>7, <3>1 DEF Placed, RootAt
    <3>2. CASE r = satp
      <4>1. \E S : Closed(mem, S) /\ satp \in S
        BY <1>2, InUse
      <4> QED BY <3>2, <4>1
    <3> QED BY <3>1, <3>2
  <2>2. S \subseteq DOMAIN mem' /\ \A t \in S : mem'[t] = mem[t]
    BY <1>6, <2>1 DEF Closed
  <2>3. p \in Nat
    BY PrefixEnds
  <2>4. Unchanged(mem, mem', S, r, p, hard)
    <3> DEFINE n == mem'
    <3>1. S \subseteq DOMAIN n /\ \A t \in S : n[t] = mem[t]
      BY <2>2
    <3> HIDE DEF n
    <3>2. Unchanged(mem, n, S, r, p, hard)
      BY <2>1, <2>3, <3>1, Kept
    <3> QED BY <3>2 DEF n
  <2> QED BY <2>4 DEF Unchanged
<1>18. \A p \in Pages, hard \in BOOLEAN :
          Frame(mem', free[1], p, hard) = IF p \in LowerHalf THEN NoFrame
                                          ELSE Frame(mem, satp, p, hard)
  BY <1>6, HalfIs DEF root
<1> QED BY <1>5, <1>8, <1>12, <1>13, <1>14, <1>15, <1>16, <1>17, <1>18 DEF Founded, root

\* A new root changes no translation that matters.
LEMMA FoundedKeeps ==
    ASSUME Inv, Founded, Booted, kernel' = kernel, satp' = satp, tlb' = tlb
    PROVE  FrameInv' /\ TlbInv' /\ \A p \in LowerHalf : Mapped(p)' = Mapped(p)
<1>1. FrameInv /\ TlbInv /\ kernel \in Roots
  BY DEF Inv, Roots
<1>2. /\ \A f : Off(f) => Off(f)'
      /\ \A r \in Roots \cup {satp}, p \in Pages, hard \in BOOLEAN :
            Frame(mem', r, p, hard) = Frame(mem, r, p, hard)
  BY DEF Founded
<1>3. FALSE \in BOOLEAN /\ TRUE \in BOOLEAN
  OBVIOUS
<1>4. \A p \in LowerHalf : Mapped(p)' = Mapped(p)
  <2>1. \A p \in LowerHalf : Frame(mem', kernel, p, FALSE) = Frame(mem, kernel, p, FALSE)
    BY <1>1, <1>2, <1>3, LowerPages
  <2> QED BY <2>1 DEF Mapped, virt_to_phys
<1>5. FrameInv'
  <2>1. \A p \in LowerHalf : Mapped(p)' # NoFrame =>
           /\ Off(Mapped(p)) /\ \A q \in LowerHalf : Mapped(q)' = Mapped(p)' => q = p
    BY <1>1, <1>4 DEF FrameInv
  <2>2. \A p \in LowerHalf : Off(Mapped(p)) => Off(Mapped(p))'
    <3> SUFFICES ASSUME NEW p \in LowerHalf, Off(Mapped(p)) PROVE Off(Mapped(p))'
      OBVIOUS
    <3> DEFINE f == Mapped(p)
    <3>1. f \in Usable /\ f \notin Holds(free') /\ f \notin DOMAIN mem'
      BY <1>2 DEF Off, Usable, Holds
    <3>2. Mapped(p)' \in Usable /\ Mapped(p)' \notin Holds(free') /\ Mapped(p)' \notin DOMAIN mem'
      BY <1>4, <3>1
    <3> QED BY <3>2 DEF Off, Usable, Holds
  <2> QED BY <2>1, <2>2 DEF FrameInv, LowerHalf, Half
<1>6. TlbInv'
  <2>1. \A c \in tlb : Translate(mem', satp, c[1]) = c[2] /\ c[1] \in Pages
    BY <1>1, <1>2, <1>3 DEF TlbInv, Translate
  <2> QED BY <2>1 DEF TlbInv
<1> QED BY <1>4, <1>5, <1>6

\* A root that spoils nothing is of a frame that held its links and nothing else.
LEMMA LinkedRoot ==
    ASSUME new_with_upperhalf, Clean'
    PROVE  mem' = WithRoot(Linked)
<1>1. free[1] \notin written
  BY DEF new_with_upperhalf, Clean
<1>2. Found(free[1]) = {Cleared}
  BY <1>1 DEF Found
<1> QED BY <1>2 DEF new_with_upperhalf, Linked

LEMMA CleanBefore ==
    ASSUME [Next]_vars, Clean'
    PROVE  Clean
BY DEF Clean, Next, vars, vmm_init, InitDone, MapNext, UnmapNext, Alloc, Free, CallDone, StartHart,
       new_with_upperhalf, Load, LoadSegment, LoadStack, LoadDone, Switch, Touch

LEMMA LoadStep == Inv /\ Load /\ Clean' => Inv'
<1> SUFFICES ASSUME Inv, Load, Clean' PROVE Inv'
  OBVIOUS
<1> DEFINE segments == Programs[Len(tasks) + 1]
<1>1. /\ Booted /\ satp = kernel /\ work = Idle /\ ~panicked
      /\ Len(tasks) < Len(Programs) /\ Enough
      /\ mem' = WithRoot(Linked) /\ free' = After(Cost)
      /\ work' = [Idle EXCEPT !.op = "load", !.root = free[1], !.segments = segments]
      /\ UNCHANGED <<kernel, satp, tasks, harts, sections, tlb, panicked>>
  BY LinkedRoot DEF Load, AtBoot, Ready
<1>2. TypeOK /\ WorkInv /\ SectionInv /\ GrantInv /\ TreeInv
  BY DEF Inv
<1>3. PICK pl : Trees(mem, pl, Roots)
  BY <1>2 DEF TreeInv
<1>4. Cut(Cost) /\ Linked \in {Cleared, Linked}
  BY <1>1, <1>3, RootMakes
<1>5. PartOf(free', After(Cost), Usable)
  BY <1>1, <1>4 DEF Cut, PartOf
<1>6. free[1] \in Nat /\ free[1] \in Usable /\ free[1] \notin DOMAIN mem
  BY <1>4, MemoryFacts DEF Cut
<1>7. segments \in Seq(Segments)
      /\ \A i \in DOMAIN segments : Section(segments[i].page, segments[i].pages) \subseteq LowerHalf
  <2>1. Programs \in Seq(Seq(Segments))
    BY RequestAssumption DEF RequestAssumption, Segments
  <2>2. Len(tasks) + 1 \in DOMAIN Programs
    BY <1>1, <1>2, <2>1 DEF WorkInv
  <2> QED BY <2>1, <2>2, RequestAssumption DEF RequestAssumption
<1>8. IsCall(work', "load", free[1], << >>, segments)
  <2> DEFINE none == << >>
             rec(o, r, g) == [op |-> o, root |-> r, todo |-> none, segments |-> g, stack |-> 0]
             root == free[1]
  <2>1. none \in Seq(Requests) /\ 0 \in Nat /\ root \in Nat
    BY <1>6
  <2>2. Idle = rec("idle", NoFrame, << >>)
    BY DEF Idle
  <2> HIDE DEF segments, none, root
  <2>3. work' = [Idle EXCEPT !.op = "load", !.root = root, !.segments = segments]
    BY <1>1 DEF segments, root
  <2>4. work' = rec("load", root, segments)
    <3>1. [rec("idle", NoFrame, << >>) EXCEPT !.op = "load"] = rec("load", NoFrame, << >>)
      OBVIOUS
    <3>2. [rec("load", NoFrame, << >>) EXCEPT !.root = root] = rec("load", root, << >>)
      OBVIOUS
    <3>3. [rec("load", root, << >>) EXCEPT !.segments = segments] = rec("load", root, segments)
      OBVIOUS
    <3> HIDE DEF rec
    <3> QED BY <2>2, <2>3, <3>1, <3>2, <3>3
  <2>5. work' = [op |-> "load", root |-> root, todo |-> none, segments |-> segments, stack |-> 0]
    BY <2>4
  <2>6. "load" \in {"idle", "init", "alloc", "free", "load", "stack"}
    OBVIOUS
  <2>7. IsCall(work', "load", root, none, segments)
    BY <1>7, <2>1, <2>5, <2>6, RecordIs DEF segments
  <2> QED BY <2>7 DEF root, none, segments
<1> HIDE DEF segments
<1>9. /\ work' \in Works /\ work'.op = "load" /\ work'.root = free[1] /\ work'.todo = << >>
      /\ work'.segments = segments
  BY <1>8 DEF IsCall
<1>10. Roots' \subseteq Roots \cup {free[1]} /\ Booted' /\ kernel \in Roots
  BY <1>1, <1>9, IdleIs DEF Roots, Loading, Booted
<1>11. Founded
  BY <1>1, <1>4, <1>5, <1>10, Founding
<1>12. FrameInv' /\ TlbInv' /\ \A p \in LowerHalf : Mapped(p)' = Mapped(p)
  BY <1>1, <1>11, FoundedKeeps
<1>13. TypeOK'
  BY <1>1, <1>2, <1>11 DEF TypeOK, Founded, LowerHalf, Half, Usable
<1>14. kernel \in DOMAIN mem
  BY <1>2, <1>10 DEF TypeOK
<1>15. WorkInv'
  <2>1. satp' = BootRoot \/ satp' \in Roots'
    BY <1>1, <1>10 DEF Roots
  <2>2. work'.root # kernel'
    BY <1>1, <1>6, <1>9, <1>14
  <2>3. \A i \in DOMAIN work'.segments :
           Section(work'.segments[i].page, work'.segments[i].pages) \subseteq LowerHalf
    BY <1>7, <1>9 DEF segments
  <2> QED BY <1>1, <1>2, <1>9, <1>10, <2>1, <2>2, <2>3
          DEF WorkInv, VmmWork, Loading, LowerHalf, Half
<1>16. SectionInv' /\ ClaimInv'
  BY <1>1, <1>2, <1>9 DEF SectionInv, VmmWork, ClaimInv
<1>17. Expected' = Expected
  BY <1>1, <1>9, IdleIs DEF Expected, Granted
<1>18. GrantInv'
  BY <1>1, <1>2, <1>12, <1>17 DEF GrantInv, LowerHalf, Half, Booted
<1> QED BY <1>11, <1>12, <1>13, <1>15, <1>16, <1>18 DEF Inv, Founded

LEMMA StartHartStep == Inv /\ StartHart /\ Clean' => Inv'
<1> SUFFICES ASSUME Inv, StartHart, Clean' PROVE Inv'
  OBVIOUS
<1> DEFINE left == After(Cost)
           i == Run(left, HartStack, 1)
           hart == [root |-> free[1], stack |-> left[i]]
<1>1. /\ Booted /\ satp = kernel /\ work = Idle /\ ~panicked /\ Enough
      /\ mem' = WithRoot(Linked)
      /\ HasRun(left, HartStack, 1) /\ free' = Without(left, i, HartStack)
      /\ harts' = harts \cup {hart}
      /\ UNCHANGED <<kernel, satp, tasks, sections, work, tlb, panicked>>
  BY LinkedRoot DEF StartHart, AtBoot, Ready
<1>2. TypeOK /\ WorkInv /\ SectionInv /\ GrantInv /\ TreeInv
  BY DEF Inv
<1>3. PICK pl : Trees(mem, pl, Roots)
  BY <1>2 DEF TreeInv
<1>4. Cut(Cost) /\ Linked \in {Cleared, Linked}
  BY <1>1, <1>3, RootMakes
<1>5. PartOf(free', After(Cost), Usable)
  <2>1. left \in Seq(Usable) /\ Distinct(left)
    BY <1>4 DEF Cut, PartOf
  <2>2. Usable \subseteq Nat /\ HartStack \in Nat
    BY MemoryFacts, RequestAssumption DEF RequestAssumption
  <2> HIDE DEF left
  <2>3. i \in DOMAIN left /\ RunAt(left, i, HartStack, 1)
    BY <1>1, <2>1, RunIs
  <2> HIDE DEF i
  <2>4. RunOff(left, i, HartStack, Usable)
    BY <2>1, <2>2, <2>3, RunTaken
  <2>5. PartOf(Without(left, i, HartStack), left, Usable)
    BY <2>4 DEF RunOff
  <2> QED BY <1>1, <2>5 DEF left
<1>6. Roots' \subseteq Roots \cup {free[1]} /\ Booted' /\ kernel \in Roots
      /\ Roots \subseteq Roots'
  <2>1. hart.root = free[1]
    OBVIOUS
  <2> HIDE DEF hart
  <2> QED BY <1>1, <2>1, IdleIs DEF Roots, Loading, Booted
<1>7. Founded
  BY <1>1, <1>4, <1>5, <1>6, Founding
<1>8. FrameInv' /\ TlbInv' /\ \A p \in LowerHalf : Mapped(p)' = Mapped(p)
  BY <1>1, <1>7, FoundedKeeps
<1>9. TypeOK'
  BY <1>1, <1>2, <1>7 DEF TypeOK, Founded, LowerHalf, Half, Usable
<1>10. WorkInv'
  BY <1>1, <1>2, <1>6, IdleIs DEF WorkInv, VmmWork, Loading, LowerHalf, Half
<1>11. SectionInv' /\ ClaimInv'
  BY <1>1, <1>2, IdleIs DEF SectionInv, VmmWork, ClaimInv
<1>12. Expected' = Expected
  BY <1>1, IdleIs DEF Expected, Granted, TodoPages
<1>13. GrantInv'
  BY <1>1, <1>2, <1>8, <1>12 DEF GrantInv, LowerHalf, Half, Booted
<1> QED BY <1>7, <1>8, <1>9, <1>10, <1>11, <1>13 DEF Inv, Founded

LEMMA VmmInitStep == Inv /\ vmm_init => Inv'
<1> SUFFICES ASSUME Inv, vmm_init PROVE Inv'
  OBVIOUS
<1>1. /\ ~Booted /\ work = Idle /\ ~panicked /\ Enough
      /\ mem' = WithRoot(Cleared) /\ free' = After(Cost) /\ kernel' = free[1]
      /\ work' = [Idle EXCEPT !.op = "init", !.root = free[1], !.todo = IoRequests]
      /\ UNCHANGED <<satp, tasks, harts, sections, tlb, panicked>>
  BY DEF vmm_init, Ready
<1>2. TypeOK /\ WorkInv /\ SectionInv /\ TreeInv
  BY DEF Inv
<1>3. PICK pl : Trees(mem, pl, Roots)
  BY <1>2 DEF TreeInv
<1>4. Cut(Cost) /\ Cleared \in {Cleared, Linked}
  BY <1>1, <1>3, RootMakes
<1>5. PartOf(free', After(Cost), Usable)
  BY <1>1, <1>4 DEF Cut, PartOf
<1>6. free[1] \in Nat \ {NoFrame}
  BY <1>4, MemoryFacts DEF Cut
<1>7. IoRequests \in Seq(Requests) /\ \A i \in DOMAIN IoRequests : IoRequests[i].page \notin LowerHalf
  <2> DEFINE io == [page : Pages \ LowerHalf, frame : Nat, target : 1 .. Levels]
  <2>1. IoRequests \in Seq(io)
    BY RequestAssumption DEF RequestAssumption
  <2>2. \A r \in io : r \in Requests /\ r.page \notin LowerHalf
    BY DEF Requests
  <2> HIDE DEF io
  <2>3. \A i \in 1 .. Len(IoRequests) : IoRequests[i] \in io
    BY <2>1
  <2>4. IoRequests = [i \in 1 .. Len(IoRequests) |-> IoRequests[i]] /\ Len(IoRequests) \in Nat
        /\ DOMAIN IoRequests = 1 .. Len(IoRequests)
    BY <2>1
  <2> QED BY <2>1, <2>2, <2>3, <2>4
<1>8. IsCall(work', "init", free[1], IoRequests, << >>)
  <2> DEFINE root == free[1]
  <2>1. root \in Nat /\ work' = [Idle EXCEPT !.op = "init", !.root = root, !.todo = IoRequests]
        /\ "init" \in {"alloc", "free", "load", "stack", "init"}
    BY <1>1, <1>6
  <2> HIDE DEF root
  <2>2. IsCall(work', "init", root, IoRequests, << >>)
    BY <1>7, <2>1, CallIs
  <2> QED BY <2>2 DEF root
<1>9. /\ work' \in Works /\ work'.op = "init" /\ work'.root = free[1] /\ work'.todo = IoRequests
      /\ work'.segments = << >>
  BY <1>8 DEF IsCall
<1>10. Roots' \subseteq Roots \cup {free[1]} /\ Booted' /\ satp = BootRoot
       /\ sections = {} /\ tlb = {} /\ tasks = << >>
  BY <1>1, <1>2, <1>6, <1>9, IdleIs DEF Roots, Loading, Booted, WorkInv
<1>11. Founded
  BY <1>1, <1>4, <1>5, <1>10, Founding
<1>12. \A p \in LowerHalf : Mapped(p)' = NoFrame
  <2>1. FALSE \in BOOLEAN
    OBVIOUS
  <2>2. \A p \in LowerHalf : Frame(mem', free[1], p, FALSE) = NoFrame
    BY <1>11, <2>1, LowerPages DEF Founded
  <2> QED BY <1>1, <2>2 DEF Mapped, virt_to_phys
<1>13. FrameInv' /\ GrantInv'
  <2>1. Expected' = {}
    BY <1>1, <1>9, <1>10 DEF Expected, Granted
  <2> QED BY <1>12, <2>1 DEF FrameInv, GrantInv, LowerHalf, Half
<1>14. TypeOK'
  BY <1>1, <1>2, <1>11 DEF TypeOK, Founded, LowerHalf, Half, Usable
<1>15. WorkInv'
  BY <1>1, <1>2, <1>6, <1>7, <1>9, <1>10 DEF WorkInv, VmmWork, Loading, LowerHalf, Half
<1>16. SectionInv' /\ ClaimInv' /\ TlbInv'
  BY <1>1, <1>2, <1>9, <1>10 DEF SectionInv, VmmWork, ClaimInv, TlbInv
<1> QED BY <1>11, <1>13, <1>14, <1>15, <1>16 DEF Inv, Founded

-----------------------------------------------------------------------------
(* One page of a call                                                       *)

\* The request at the head of the list is gone, the call is the same.
Popped ==
    /\ Head(work.todo) = work.todo[1] /\ 1 \in DOMAIN work.todo
    /\ Head(work.todo) \in Requests
    /\ work' \in Works /\ work'.op = work.op /\ work'.root = work.root
    /\ work'.segments = work.segments
    /\ \A j \in DOMAIN work'.todo : /\ j + 1 \in DOMAIN work.todo /\ j + 1 # 1
                                    /\ work'.todo[j] = work.todo[j + 1]
    /\ \A j \in DOMAIN work.todo : j # 1 => /\ j - 1 \in DOMAIN work'.todo
                                            /\ work'.todo[j - 1] = work.todo[j]

LEMMA PopIs ==
    ASSUME work \in Works, work.todo # << >>, work' = [work EXCEPT !.todo = Tail(@)]
    PROVE  Popped
<1> DEFINE todo == work.todo
           rest == Tail(todo)
           rec(t) == [op |-> work.op, root |-> work.root, todo |-> t,
                      segments |-> work.segments, stack |-> work.stack]
<1>1. /\ work = rec(todo) /\ todo \in Seq(Requests) /\ todo # << >>
      /\ work.op \in {"idle", "init", "alloc", "free", "load", "stack"}
      /\ work.root \in Nat /\ work.segments \in Seq(Segments) /\ work.stack \in Nat
  BY WorkIs
<1> HIDE DEF todo
<1>2. /\ Head(todo) = todo[1] /\ 1 \in DOMAIN todo /\ Head(todo) \in Requests
      /\ rest \in Seq(Requests) /\ DOMAIN rest = 1 .. Len(todo) - 1
      /\ DOMAIN todo = 1 .. Len(todo) /\ Len(todo) \in Nat
      /\ \A j \in 1 .. Len(todo) - 1 : rest[j] = todo[j + 1]
  BY <1>1
<1>3. \A j \in DOMAIN rest : j + 1 \in DOMAIN todo /\ j + 1 # 1 /\ rest[j] = todo[j + 1]
  BY <1>2
<1>4. \A j \in DOMAIN todo : j # 1 => j - 1 \in DOMAIN rest /\ rest[j - 1] = todo[j]
  <2> SUFFICES ASSUME NEW j \in DOMAIN todo, j # 1
               PROVE  j - 1 \in DOMAIN rest /\ rest[j - 1] = todo[j]
    OBVIOUS
  <2> DEFINE k == j - 1
  <2>1. k \in 1 .. Len(todo) - 1 /\ k + 1 = j
    BY <1>2
  <2> HIDE DEF k
  <2>2. k \in DOMAIN rest /\ rest[k] = todo[j]
    BY <1>2, <2>1
  <2> QED BY <2>2 DEF k
<1> HIDE DEF rest
<1>5. IsCall(work', work.op, work.root, rest, work.segments)
  <2>1. work' = [work EXCEPT !.todo = rest]
    BY DEF rest, todo
  <2>2. [rec(todo) EXCEPT !.todo = rest] = rec(rest)
    OBVIOUS
  <2>3. work' = rec(rest)
    <3> HIDE DEF rec
    <3> QED BY <1>1, <2>1, <2>2
  <2>4. work' = [op |-> work.op, root |-> work.root, todo |-> rest,
                 segments |-> work.segments, stack |-> work.stack]
    BY <2>3
  <2> QED BY <1>1, <1>2, <2>4, RecordIs
<1> QED BY <1>2, <1>3, <1>4, <1>5 DEF Popped, IsCall, todo

\* What every request leaves as it was.
Continued ==
    /\ Popped
    /\ Roots' = Roots /\ kernel \in Roots /\ Booted /\ Booted'
    /\ WorkInv' /\ SectionInv'
    /\ Expected' = IF work.op = "alloc" THEN Expected \cup {Head(work.todo).page}
                   ELSE IF work.op = "free" THEN Expected \ {Head(work.todo).page}
                   ELSE Expected

LEMMA ContinuedIs ==
    ASSUME Inv, work.todo # << >>, work' = [work EXCEPT !.todo = Tail(@)],
           UNCHANGED <<kernel, satp, tasks, harts, sections>>
    PROVE  Continued
<1> DEFINE page == Head(work.todo).page
<1>1. WorkInv /\ SectionInv
  BY DEF Inv
<1>2. Popped
  BY <1>1, PopIs DEF WorkInv
<1>3. Booted /\ Booted' /\ work.op # "idle"
  BY <1>1 DEF WorkInv, Booted
<1>4. Roots' = Roots /\ kernel \in Roots
  BY <1>2, <1>3 DEF Roots, Loading, Booted, Popped
<1>5. \A j \in DOMAIN work'.todo : \E k \in DOMAIN work.todo : k # 1 /\ work'.todo[j] = work.todo[k]
  BY <1>2 DEF Popped
<1>6. WorkInv'
  BY <1>1, <1>2, <1>3, <1>4, <1>5 DEF WorkInv, VmmWork, Loading, LowerHalf, Half, Popped
<1>7. Granted' = Granted
  BY DEF Granted
<1>8. VmmWork => \A i, j \in DOMAIN work.todo : work.todo[i].page = work.todo[j].page => i = j
  BY <1>1 DEF SectionInv
<1>9. SectionInv'
  <2>1. ASSUME VmmWork, NEW i \in DOMAIN work'.todo, NEW j \in DOMAIN work'.todo,
               work'.todo[i].page = work'.todo[j].page
        PROVE  i = j
    <3>1. /\ i + 1 \in DOMAIN work.todo /\ work'.todo[i] = work.todo[i + 1]
          /\ j + 1 \in DOMAIN work.todo /\ work'.todo[j] = work.todo[j + 1]
      BY <1>2 DEF Popped
    <3>2. i + 1 = j + 1
      BY <1>8, <2>1, <3>1
    <3>3. i \in Int /\ j \in Int
      <4>1. work'.todo \in Seq(Requests)
        BY <1>6 DEF WorkInv, Works
      <4> QED BY <4>1
    <3> QED BY <3>2, <3>3
  <2>2. work'.op = work.op
    BY <1>2 DEF Popped
  <2>3. /\ work.op = "alloc" => \A i \in DOMAIN work'.todo : work'.todo[i].page \in Granted
        /\ work.op = "free" => \A i \in DOMAIN work'.todo : work'.todo[i].page \notin Granted
    BY <1>1, <1>5 DEF SectionInv
  <2>4. /\ \A s \in sections' : s.base \in Nat /\ s.pages \in Nat
        /\ \A s, t \in sections' : s # t =>
              Section(s.base, s.pages) \cap Section(t.base, t.pages) = {}
    BY <1>1 DEF SectionInv
  <2> QED BY <1>7, <2>1, <2>2, <2>3, <2>4 DEF SectionInv, VmmWork
<1>10. TodoPages = TodoPages' \cup {page}
  <2>1. \A j \in DOMAIN work.todo : j # 1 => \E k \in DOMAIN work'.todo : work'.todo[k] = work.todo[j]
    BY <1>2 DEF Popped
  <2>2. page = work.todo[1].page /\ 1 \in DOMAIN work.todo
    BY <1>2 DEF Popped
  <2>3. TodoPages' = {work'.todo[j].page : j \in DOMAIN work'.todo}
    BY DEF TodoPages
  <2>4. \A x \in TodoPages : x \in TodoPages' \cup {page}
    BY <2>1, <2>2, <2>3 DEF TodoPages
  <2>5. \A x \in TodoPages' \cup {page} : x \in TodoPages
    BY <1>5, <2>2, <2>3 DEF TodoPages
  <2> QED BY <2>4, <2>5
<1>11. VmmWork => page \notin TodoPages'
  <2> SUFFICES ASSUME VmmWork, NEW j \in DOMAIN work'.todo PROVE work'.todo[j].page # page
    BY DEF TodoPages
  <2>1. j + 1 \in DOMAIN work.todo /\ j + 1 # 1 /\ work'.todo[j] = work.todo[j + 1]
        /\ page = work.todo[1].page /\ 1 \in DOMAIN work.todo
    BY <1>2 DEF Popped
  <2> QED BY <1>8, <2>1
<1>12. /\ work.op = "alloc" => page \in Granted
       /\ work.op = "free" => page \notin Granted
  BY <1>1, <1>2 DEF SectionInv, Popped
<1>13. Expected' = IF work.op = "alloc" THEN Expected \cup {page}
                   ELSE IF work.op = "free" THEN Expected \ {page} ELSE Expected
  <2>1. Expected' = IF work.op = "alloc" THEN Granted \ TodoPages'
                    ELSE IF work.op = "free" THEN Granted \cup TodoPages' ELSE Granted
    BY <1>2, <1>7 DEF Expected, Popped
  <2> HIDE DEF page
  <2> QED BY <1>10, <1>11, <1>12, <2>1 DEF Expected, VmmWork
<1> QED BY <1>2, <1>3, <1>4, <1>6, <1>9, <1>13 DEF Continued

\* A request that panics changes nothing but the list of what is left to do.
LEMMA PanicStep ==
    ASSUME Inv, Continued, panicked' = TRUE,
           UNCHANGED <<mem, free, tlb, kernel, satp, tasks, harts, sections>>
    PROVE  Inv'
<1>1. TypeOK /\ ClaimInv /\ TlbInv
  BY DEF Inv
<1>2. /\ Roots' = Roots /\ WorkInv' /\ SectionInv' /\ Popped
  BY DEF Continued
<1>3. TreeInv' /\ BootInv' /\ FreeInv' /\ FrameInv' /\ \A p : Mapped(p)' = Mapped(p)
  BY <1>2, Untouched, Still
<1>4. TypeOK'
  BY <1>1, <1>2 DEF TypeOK, LowerHalf, Half, Usable
<1>5. GrantInv' /\ TlbInv'
  BY <1>1 DEF GrantInv, TlbInv
<1>6. ClaimInv'
  <2> SUFFICES ASSUME work'.op = "alloc", NEW i \in DOMAIN work'.todo, work'.todo[i].frame # NoFrame
               PROVE  /\ work'.todo[i].frame \in Usable
                      /\ work'.todo[i].frame \notin Holds(free')
                      /\ work'.todo[i].frame \notin DOMAIN mem'
                      /\ \A p \in LowerHalf : Mapped(p)' # work'.todo[i].frame
                      /\ \A j \in DOMAIN work'.todo :
                            work'.todo[j].frame = work'.todo[i].frame => j = i
    BY DEF ClaimInv, LowerHalf, Half, Off, Usable, Holds
  <2>1. /\ i + 1 \in DOMAIN work.todo /\ work'.todo[i] = work.todo[i + 1] /\ work.op = "alloc"
    BY <1>2 DEF Popped
  <2>2. /\ Off(work.todo[i + 1].frame)
        /\ \A p \in LowerHalf : Mapped(p) # work.todo[i + 1].frame
        /\ \A j \in DOMAIN work.todo : work.todo[j].frame = work.todo[i + 1].frame => j = i + 1
    BY <1>1, <2>1 DEF ClaimInv
  <2>3. /\ work'.todo[i].frame \in Usable
        /\ work'.todo[i].frame \notin Holds(free')
        /\ work'.todo[i].frame \notin DOMAIN mem'
    BY <2>1, <2>2 DEF Off
  <2>4. ASSUME NEW j \in DOMAIN work'.todo, work'.todo[j].frame = work'.todo[i].frame PROVE j = i
    <3>1. j + 1 \in DOMAIN work.todo /\ work'.todo[j] = work.todo[j + 1]
      BY <1>2 DEF Popped
    <3>2. j + 1 = i + 1
      BY <2>1, <2>2, <2>4, <3>1
    <3>3. i \in Int /\ j \in Int
      <4>1. work'.todo \in Seq(Requests)
        BY <1>2 DEF WorkInv, Works
      <4> QED BY <4>1
    <3> QED BY <3>2, <3>3
  <2> QED BY <1>3, <2>1, <2>2, <2>3, <2>4
<1> QED BY <1>2, <1>3, <1>4, <1>5, <1>6 DEF Inv

\* What a call of map takes from the list and what it leaves there.
Fed(pl, new, f) ==
    LET r == Head(work.todo) IN
    /\ MapCall(mem, pl, new, work.root, r.page, f, r.target)
    /\ mem' = MapIn(mem, new, work.root, r.page, f, r.target)
    /\ PartOf(free', free, Usable)
    /\ Holds(new) \subseteq Holds(free) /\ Holds(new) \cap Holds(free') = {}
    /\ IF r.frame # NoFrame THEN f = r.frame
       ELSE f \in Holds(free) /\ f \notin Holds(new) /\ f \notin Holds(free')
    /\ Moved(free, free', Holds(new) \cup IF r.frame # NoFrame THEN {} ELSE {f})

LEMMA FedIs ==
    ASSUME Inv, MapNext, ~panicked', Continued, NEW pl, Trees(mem, pl, Roots)
    PROVE  \E new, f : Fed(pl, new, f)
<1> DEFINE r == Head(work.todo)
           page == r.page
           target == r.target
           root == work.root
           claims == IF r.frame = NoFrame THEN 1 ELSE 0
           f == IF r.frame = NoFrame THEN free[1] ELSE r.frame
           n == NewTables(mem, root, page, target)
           new == SubSeq(free, claims + 1, claims + n)
<1>1. TypeOK /\ FreeInv /\ WorkInv
  BY DEF Inv
<1>2. free \in Seq(Usable) /\ Distinct(free) /\ \A i \in DOMAIN free : free[i] \notin DOMAIN mem
  BY <1>1 DEF TypeOK, FreeInv
<1>3. /\ work.todo # << >> /\ work.op # "free" /\ ~panicked
      /\ Len(free) > claims + n /\ ~MapPanics(mem, root, page, target)
      /\ mem' = MapIn(mem, new, root, page, f, target)
      /\ free' = After(claims + n)
  BY DEF MapNext, Mapping
<1>4. r \in Requests
  BY DEF Continued, Popped
<1>5. page \in Pages /\ target \in 1 .. Levels /\ r.frame \in Nat
  BY <1>4 DEF Requests
<1>6. root \in Roots
  BY <1>1, <1>3 DEF Continued, WorkInv, VmmWork, Loading, Roots, Works
<1>7. Placed(mem, pl) /\ RootAt(pl, root)
  BY <1>6 DEF Trees
<1>8. claims \in Nat /\ claims + 1 \in Nat \ {0}
  OBVIOUS
<1>9. n \in Nat
  <2> DEFINE S == DOMAIN pl
  <2>1. Closed(mem, S) /\ root \in S /\ page \in Nat
    BY <1>5, <1>7, PrefixEnds DEF Placed, RootAt
  <2> HIDE DEF S
  <2>2. EndsAt(mem, S, root, page, target, Deepest(mem, root, page, target))
    BY <1>5, <2>1, DeepestIs
  <2>3. Deepest(mem, root, page, target) \in target .. Levels
    BY <2>2 DEF EndsAt
  <2> QED BY <1>5, <2>3 DEF NewTables
<1> HIDE DEF n, claims, page, target, root, r
<1> DEFINE a == claims + 1
           b == claims + n
<1>10. /\ a \in Nat \ {0} /\ b \in Nat /\ b + 1 \in Nat \ {0} /\ Len(free) \in Nat
       /\ b <= Len(free) /\ a <= b + 1 /\ b + 1 <= Len(free) + 1
       /\ b - a + 1 = n /\ b < Len(free)
  <2> DEFINE z == Len(free)
  <2>1. z \in Nat /\ z > claims + n
    BY <1>2, <1>3
  <2> HIDE DEF z
  <2>2. /\ a \in Nat \ {0} /\ b \in Nat /\ b + 1 \in Nat \ {0}
        /\ b <= z /\ a <= b + 1 /\ b + 1 <= z + 1 /\ b - a + 1 = n /\ b < z
    BY <1>8, <1>9, <2>1
  <2> QED BY <2>1, <2>2 DEF z
<1>11. new = SubSeq(free, a, b) /\ free' = SubSeq(free, b + 1, Len(free))
  BY <1>3 DEF After
<1> HIDE DEF new, a, b
<1>12. /\ PartOf(new, free, Usable) /\ Len(new) = b - a + 1
       /\ Holds(new) = {free[k] : k \in a .. b}
  BY <1>2, <1>10, <1>11, SubSeqPart
<1>13. /\ PartOf(free', free, Usable)
       /\ Holds(free') = {free[k] : k \in b + 1 .. Len(free)}
  <2> DEFINE c == b + 1
             e == Len(free)
  <2>1. c \in Nat \ {0} /\ e \in Nat /\ e <= Len(free) /\ c <= e + 1
    BY <1>10
  <2>2. free' = SubSeq(free, c, e)
    BY <1>11
  <2> HIDE DEF c, e
  <2>3. PartOf(SubSeq(free, c, e), free, Usable)
        /\ Holds(SubSeq(free, c, e)) = {free[k] : k \in c .. e}
    BY <1>2, <2>1, SubSeqPart
  <2> QED BY <2>2, <2>3 DEF c, e
<1>14. DOMAIN free = 1 .. Len(free) /\ a .. b \subseteq DOMAIN free
       /\ b + 1 .. Len(free) \subseteq DOMAIN free
       /\ \A k \in a .. b, l \in b + 1 .. Len(free) : k # l
  BY <1>2, <1>10
<1>15. Holds(new) \cap Holds(free') = {}
  BY <1>2, <1>12, <1>13, <1>14 DEF Distinct
<1>16. /\ new \in Seq(Usable) /\ Distinct(new) /\ Holds(new) \subseteq Holds(free)
  BY <1>12 DEF PartOf
<1>17. r.frame = NoFrame => f \in Holds(free) /\ f \notin Holds(new) /\ f \notin Holds(free')
  <2> SUFFICES ASSUME r.frame = NoFrame
               PROVE  f \in Holds(free) /\ f \notin Holds(new) /\ f \notin Holds(free')
    OBVIOUS
  <2>1. f = free[1] /\ a = 2
    BY DEF claims, a
  <2>2. /\ 1 \in DOMAIN free /\ \A k \in a .. b : k # 1
        /\ \A k \in b + 1 .. Len(free) : k # 1
    BY <1>10, <1>14, <2>1
  <2> HIDE DEF f
  <2>3. f \in Holds(free)
    BY <2>1, <2>2 DEF Holds
  <2>4. f \notin Holds(new) /\ f \notin Holds(free')
    BY <1>2, <1>12, <1>13, <1>14, <2>1, <2>2 DEF Distinct
  <2> QED BY <2>3, <2>4
<1>22. Moved(free, free', Holds(new) \cup IF r.frame # NoFrame THEN {} ELSE {f})
  <2>1. \A k \in 1 .. Len(free) : k \in 1 .. claims \/ k \in a .. b \/ k \in b + 1 .. Len(free)
    BY <1>8, <1>10 DEF a
  <2>2. \A k \in 1 .. claims : r.frame = NoFrame /\ free[k] = f
    BY DEF claims
  <2>3. \A g \in Holds(free) : \/ g \in Holds(new) \/ g \in Holds(free')
                               \/ r.frame = NoFrame /\ g = f
    <3> HIDE DEF f
    <3> QED BY <1>12, <1>13, <1>14, <2>1, <2>2 DEF Holds
  <2>4. Holds(free') \subseteq Holds(free)
    BY <1>13 DEF PartOf
  <2> HIDE DEF f
  <2> QED BY <1>15, <1>16, <1>17, <2>3, <2>4 DEF Moved
<1>18. f \in Nat /\ (r.frame # NoFrame => f = r.frame)
  <2>1. \A g \in Holds(free) : g \in Usable
    BY <1>2 DEF Holds
  <2>2. \A g \in Holds(free) : g \in Nat
    BY <2>1, MemoryFacts
  <2> QED BY <1>5, <1>17, <2>2
<1> HIDE DEF f
<1>19. MapCall(mem, pl, new, root, page, f, target)
  <2>1. new \in Seq(Nat \ {NoFrame})
    <3>1. \A k \in 1 .. Len(new) : new[k] \in Usable
      BY <1>16
    <3>2. \A k \in 1 .. Len(new) : new[k] \in Nat \ {NoFrame}
      BY <3>1, MemoryFacts
    <3> QED BY <1>16, <3>2
  <2>2. Len(new) = NewTables(mem, root, page, target)
    BY <1>10, <1>12 DEF n
  <2>3. \A i \in DOMAIN new : new[i] \notin DOMAIN mem
    <3>1. \A i \in DOMAIN new : new[i] \in Holds(free)
      BY <1>16 DEF Holds
    <3> QED BY <1>2, <3>1 DEF Holds
  <2>4. \A i, j \in DOMAIN new : new[i] = new[j] => i = j
    BY <1>16 DEF Distinct
  <2> QED BY <1>3, <1>5, <1>7, <1>18, <2>1, <2>2, <2>3, <2>4 DEF MapCall
<1>20. mem' = MapIn(mem, new, root, page, f, target)
  BY <1>3 DEF new, f
<1>21. Fed(pl, new, f)
  BY <1>13, <1>15, <1>16, <1>17, <1>18, <1>19, <1>20, <1>22 DEF Fed, root, page, target, r
<1> QED BY <1>21

\* What holds once map has been called for one root, page and target.
Drawn(root, page, f, target) ==
    /\ TreeInv' /\ BootInv' /\ FreeInv'
    /\ mem' \in [DOMAIN mem' -> [Slots -> Entry]]
    /\ \A t \in DOMAIN mem', i \in Slots :
          mem'[t][i].kind = "branch" => mem'[t][i].frame \in DOMAIN mem'
    /\ Roots \subseteq DOMAIN mem' /\ satp \in DOMAIN mem'
    /\ \A g : Off(g) => g \notin Holds(free') /\ g \notin DOMAIN mem'
    /\ \A r \in Roots, p \in Pages, hard \in BOOLEAN :
          r # root \/ Prefix(p, target - 1) # Prefix(page, target - 1) =>
             Frame(mem', r, p, hard) = Frame(mem, r, p, hard)
    /\ \A p \in Pages, hard \in BOOLEAN :
          Frame(mem', BootRoot, p, hard) = Frame(mem, BootRoot, p, hard)
    /\ target = 1 => virt_to_phys(mem', root, page) = f

\* The tables of a call that were not there before are those it took.
LEMMA TakenTables ==
    ASSUME NEW m, NEW pl, NEW new, NEW root, NEW page, NEW f, NEW target,
           MapCall(m, pl, new, root, page, f, target),
           NEW d, d = Deepest(m, root, page, target), NEW tab, tab = Tables(m, new, root, page, target)
    PROVE  \A k \in target .. d - 1 : tab[k] \in Holds(new)
<1>1. Made(m, MapIn(m, new, root, page, f, target), pl, tab, root, page, f, target, d)
  BY MapMakes
<1>2. d \in target .. Levels /\ target \in 1 .. Levels /\ new \in Seq(Nat \ {NoFrame})
      /\ Len(new) = d - target
  BY <1>1 DEF Made, MapCall, NewTables
<1>3. ASSUME NEW k \in target .. d - 1 PROVE tab[k] \in Holds(new)
  <2> DEFINE j == d - k
  <2>1. k \in target .. d /\ k # d /\ j \in 1 .. Len(new)
    BY <1>2, Shape
  <2>2. tab[k] = new[j]
    BY <2>1 DEF Tables
  <2> HIDE DEF j
  <2>3. j \in DOMAIN new
    BY <1>2, <2>1
  <2> QED BY <2>2, <2>3 DEF Holds
<1> QED BY <1>3

\* The trees with the tables of the call among them.
MapTreed(pl, q, tab, new, root, page, f, target, d) ==
    /\ Made(mem, mem', pl, tab, root, page, f, target, d)
    /\ Extends(q, pl, tab, root, page, target, d)
    /\ {tab[k] : k \in target .. d - 1} \subseteq Holds(new)
    /\ Trees(mem', q, Roots)

LEMMA MapTrees ==
    ASSUME Inv, NEW pl, Trees(mem, pl, Roots), NEW new, NEW f, Fed(pl, new, f)
    PROVE  \E q, tab, d : MapTreed(pl, q, tab, new, work.root, Head(work.todo).page, f,
                                    Head(work.todo).target, d)
<1> DEFINE root == work.root
           page == Head(work.todo).page
           target == Head(work.todo).target
           d == Deepest(mem, root, page, target)
           tab == Tables(mem, new, root, page, target)
           n == MapIn(mem, new, root, page, f, target)
           taken == {tab[k] : k \in target .. d - 1}
<1>1. TypeOK /\ FreeInv
  BY DEF Inv
<1>2. /\ MapCall(mem, pl, new, root, page, f, target)
      /\ mem' = n
      /\ Holds(new) \subseteq Holds(free)
  BY DEF Fed
<1>3. /\ Placed(mem, pl) /\ RootAt(pl, root) /\ page \in Pages /\ target \in 1 .. Levels
      /\ f \in Nat
  BY <1>2 DEF MapCall
<1> HIDE DEF root, page, target
<1>5. taken \subseteq Holds(new)
  BY <1>2, TakenTables
<1>6. Made(mem, n, pl, tab, root, page, f, target, d)
  BY <1>2, MapMakes
<1> HIDE DEF d, tab, n
<1>7. PICK q : Placed(n, q) /\ Extends(q, pl, tab, root, page, target, d)
  BY <1>3, <1>6, MapPlaced
<1>8. /\ DOMAIN n = DOMAIN mem \cup taken
      /\ DOMAIN q = DOMAIN pl \cup taken
      /\ \A t \in DOMAIN pl : q[t] = pl[t]
  BY <1>6, <1>7 DEF Made, Extends
<1>9. /\ DOMAIN mem = DOMAIN pl \cup Boots /\ DOMAIN pl \cap Boots = {}
      /\ \A r \in Roots : RootAt(pl, r)
  BY DEF Trees
<1>10. taken \cap Boots = {}
  <2>1. free \in Seq(Usable)
    BY <1>1 DEF TypeOK
  <2>2. \A g \in Holds(free) : g \in Usable
    BY <2>1 DEF Holds
  <2> HIDE DEF taken
  <2> QED BY <1>2, <1>5, <2>2, MemoryFacts
<1>11. Trees(n, q, Roots)
  <2>1. \A r \in Roots : RootAt(q, r)
    BY <1>8, <1>9 DEF RootAt
  <2> HIDE DEF taken
  <2>2. DOMAIN q \cap Boots = {} /\ DOMAIN n = DOMAIN q \cup Boots
    BY <1>8, <1>9, <1>10
  <2> QED BY <1>7, <2>1, <2>2 DEF Trees
<1>12. MapTreed(pl, q, tab, new, root, page, f, target, d)
  BY <1>2, <1>5, <1>6, <1>7, <1>11 DEF MapTreed
<1> QED BY <1>12 DEF root, page, target

LEMMA DrawnIs ==
    ASSUME Inv, Continued, NEW pl, Trees(mem, pl, Roots), NEW new, NEW f, Fed(pl, new, f),
           work.op # "free"
    PROVE  Drawn(work.root, Head(work.todo).page, f, Head(work.todo).target)
<1> DEFINE root == work.root
           page == Head(work.todo).page
           target == Head(work.todo).target
           n == mem'
<1>1. /\ TypeOK /\ BootInv /\ FreeInv /\ WorkInv
  BY DEF Inv
<1>2. /\ MapCall(mem, pl, new, root, page, f, target)
      /\ PartOf(free', free, Usable)
      /\ Holds(new) \subseteq Holds(free) /\ Holds(new) \cap Holds(free') = {}
      /\ mem' = MapIn(mem, new, root, page, f, target)
  BY DEF Fed
<1>3. /\ Placed(mem, pl) /\ RootAt(pl, root) /\ page \in Pages /\ target \in 1 .. Levels
      /\ f \in Nat /\ page \in Nat
  BY <1>2, PrefixEnds DEF MapCall
<1>4. n = [t \in DOMAIN n |-> n[t]]
  BY <1>2 DEF MapIn
<1>5. PICK q, tab, d : MapTreed(pl, q, tab, new, root, page, f, target, d)
  BY MapTrees
<1> HIDE DEF root, page, target
<1> DEFINE taken == {tab[k] : k \in target .. d - 1}
<1>6. /\ Made(mem, n, pl, tab, root, page, f, target, d)
      /\ Extends(q, pl, tab, root, page, target, d)
      /\ taken \subseteq Holds(new)
      /\ Trees(n, q, Roots)
  BY <1>5 DEF MapTreed
<1>8. /\ DOMAIN n = DOMAIN mem \cup taken
      /\ tab[d] \in DOMAIN pl
      /\ \A t \in DOMAIN mem \ {tab[d]} : n[t] = mem[t]
  BY <1>6 DEF Made
<1> HIDE DEF taken
<1>9. /\ DOMAIN mem = DOMAIN pl \cup Boots /\ DOMAIN pl \cap Boots = {}
      /\ \A r \in Roots : RootAt(pl, r)
  BY DEF Trees
<1>10. \A g \in Holds(free) : g \notin DOMAIN mem
  BY <1>1 DEF FreeInv, Holds
<1>12. \A t \in Boots : n[t] = mem[t] /\ n[t] = BootMem[t]
  <2>1. \A t \in Boots : t \in DOMAIN mem /\ t # tab[d]
    BY <1>8, <1>9
  <2> QED BY <1>1, <1>8, <2>1 DEF BootInv
<1>13. /\ n \in [DOMAIN n -> [Slots -> Entry]]
       /\ \A t \in DOMAIN n, i \in Slots : n[t][i].kind = "branch" => n[t][i].frame \in DOMAIN n
       /\ Roots \subseteq DOMAIN n
  BY <1>4, <1>6, <1>12, TreesTyped
<1>14. TreeInv'
  <2>1. Trees(mem', q, Roots')
    BY <1>6 DEF Continued
  <2> QED BY <2>1 DEF TreeInv
<1>15. BootInv'
  BY <1>2, <1>12 DEF BootInv, Boots
<1>16. FreeInv'
  <2>1. Distinct(free') /\ Holds(free') \subseteq Holds(free)
    BY <1>2 DEF PartOf
  <2>2. \A g \in Holds(free') : g \notin DOMAIN n
    BY <1>2, <1>6, <1>8, <1>10, <2>1
  <2>3. \A i \in DOMAIN free' : free'[i] \notin DOMAIN n
    BY <2>2 DEF Holds
  <2> QED BY <1>2, <2>1, <2>3 DEF FreeInv, Distinct
<1>17. \A g : Off(g) => g \notin Holds(free') /\ g \notin DOMAIN n
  <2>1. Holds(free') \subseteq Holds(free)
    BY <1>2 DEF PartOf
  <2> QED BY <1>2, <1>6, <1>8, <2>1 DEF Off
<1>18. ASSUME NEW r \in Roots, NEW p \in Pages, NEW hard \in BOOLEAN,
              r # root \/ Prefix(p, target - 1) # Prefix(page, target - 1)
       PROVE  Frame(n, r, p, hard) = Frame(mem, r, p, hard)
  <2>1. RootAt(pl, r)
    BY <1>9
  <2> QED BY <1>3, <1>6, <1>18, <2>1, MapElsewhere
<1>19. ASSUME NEW p \in Pages, NEW hard \in BOOLEAN
       PROVE  Frame(n, BootRoot, p, hard) = Frame(mem, BootRoot, p, hard)
  <2>1. Boots \subseteq DOMAIN n /\ p \in Nat /\ BootRoot \in Boots
    BY <1>8, <1>9, PrefixEnds, BootFacts
  <2>2. Closed(mem, Boots)
    <3>1. Closed(BootMem, Boots)
      BY BootFacts
    <3>2. Boots \subseteq DOMAIN mem /\ \A t \in Boots : mem[t] = BootMem[t]
      BY <1>1, <1>9 DEF BootInv
    <3> QED BY <3>1, <3>2 DEF Closed
  <2>3. Unchanged(mem, n, Boots, BootRoot, p, hard)
    BY <1>12, <2>1, <2>2, Kept
  <2> QED BY <2>3 DEF Unchanged
<1>20. target = 1 => virt_to_phys(n, root, page) = f
  <2> SUFFICES ASSUME target = 1 PROVE Frame(n, root, page, FALSE) = f
    BY DEF virt_to_phys
  <2>1. \A hard \in BOOLEAN :
           Frame(n, root, page, hard) = IF hard /\ Refused(n, root, page, target) THEN NoFrame
                                        ELSE Behind(Leaf(f), target, page)
    BY <1>3, <1>6, MapThere
  <2>4. Frame(n, root, page, FALSE) = Behind(Leaf(f), target, page)
    BY <2>1, Zenon
  <2>2. Span(1) = 1
    BY PowerFacts DEF Span
  <2>3. Behind(Leaf(f), 1, page) = f
    BY <1>3, <2>2 DEF Behind, Leaf
  <2> QED BY <2>3, <2>4
<1>21. satp \in DOMAIN n
  BY <1>1, <1>8 DEF TypeOK
<1>22. Drawn(root, page, f, target)
  BY <1>2, <1>13, <1>14, <1>15, <1>16, <1>17, <1>18, <1>19, <1>20, <1>21 DEF Drawn
<1> QED BY <1>22 DEF root, page, target

\* A page that a Vmm maps: the kernel finds its frame behind it, and no other.
LEMMA MapDriverPage ==
    ASSUME Inv, Continued, NEW pl, NEW new, NEW f, Fed(pl, new, f), work.op = "alloc",
           NEW page, NEW target, NEW was, Head(work.todo).page = page,
           Head(work.todo).target = target, Head(work.todo).frame = was,
           Drawn(work.root, page, f, target), kernel' = kernel, ~panicked
    PROVE  FrameInv' /\ GrantInv' /\ ClaimInv'
<1>1. /\ WorkInv /\ FrameInv /\ GrantInv /\ ClaimInv /\ FreeInv /\ TypeOK
  BY DEF Inv
<1>2. /\ Popped /\ Booted /\ kernel \in Roots
      /\ Expected' = Expected \cup {page}
  BY DEF Continued
<1>3. /\ work.root = kernel /\ page \in LowerHalf /\ target = 1
      /\ page = work.todo[1].page /\ was = work.todo[1].frame /\ 1 \in DOMAIN work.todo
  BY <1>1, <1>2 DEF WorkInv, VmmWork, Popped
<1>4. /\ PartOf(free', free, Usable)
      /\ Holds(new) \subseteq Holds(free) /\ Holds(new) \cap Holds(free') = {}
      /\ IF was # NoFrame THEN f = was
         ELSE f \in Holds(free) /\ f \notin Holds(new) /\ f \notin Holds(free')
      /\ mem' = MapIn(mem, new, kernel, page, f, target)
      /\ MapCall(mem, pl, new, kernel, page, f, target)
  BY <1>3 DEF Fed
<1>5. /\ \A g : Off(g) => g \notin Holds(free') /\ g \notin DOMAIN mem'
      /\ \A p \in Pages, hard \in BOOLEAN :
            Prefix(p, target - 1) # Prefix(page, target - 1) =>
               Frame(mem', kernel, p, hard) = Frame(mem, kernel, p, hard)
      /\ virt_to_phys(mem', kernel, page) = f
  BY <1>2, <1>3 DEF Drawn
<1>6. /\ Mapped(page)' = f
      /\ \A p \in LowerHalf : p # page => Mapped(p)' = Mapped(p)
  <2>1. ASSUME NEW p \in LowerHalf, p # page
        PROVE  virt_to_phys(mem', kernel, p) = virt_to_phys(mem, kernel, p)
    <3>1. p \in Pages /\ p \in Nat /\ page \in Nat /\ target - 1 = 0
      BY <1>3, LowerPages
    <3>2. Prefix(p, target - 1) # Prefix(page, target - 1)
      BY <2>1, <3>1, PrefixEnds
    <3>3. FALSE \in BOOLEAN
      OBVIOUS
    <3>4. Frame(mem', kernel, p, FALSE) = Frame(mem, kernel, p, FALSE)
      BY <1>5, <3>1, <3>2, <3>3
    <3> QED BY <3>4 DEF virt_to_phys
  <2> QED BY <1>5, <2>1 DEF Mapped
<1>7. \A p \in LowerHalf : Mapped(p) # NoFrame =>
         Off(Mapped(p)) /\ \A q \in LowerHalf : Mapped(q) = Mapped(p) => q = p
  BY <1>1, <1>2 DEF FrameInv
<1>8. \A j \in DOMAIN work.todo : work.todo[j].frame # NoFrame =>
         /\ Off(work.todo[j].frame)
         /\ \A p \in LowerHalf : Mapped(p) # work.todo[j].frame
         /\ \A k \in DOMAIN work.todo : work.todo[k].frame = work.todo[j].frame => k = j
  BY <1>1 DEF ClaimInv
<1>9. \A g \in Holds(free) : g \in Usable /\ g # NoFrame /\ g \notin DOMAIN mem
  <2>1. free \in Seq(Usable) /\ \A i \in DOMAIN free : free[i] \notin DOMAIN mem
    BY <1>1 DEF TypeOK, FreeInv
  <2>2. \A g \in Holds(free) : g \in Usable /\ g \notin DOMAIN mem
    BY <2>1 DEF Holds
  <2> QED BY <2>2, MemoryFacts
<1>10. /\ f # NoFrame /\ f \in Usable /\ f \notin Holds(free') /\ f \notin DOMAIN mem'
       /\ \A p \in LowerHalf : Mapped(p) # f
  <2>1. CASE was # NoFrame
    BY <1>3, <1>4, <1>5, <1>8, <2>1 DEF Off
  <2>2. CASE was = NoFrame
    <3>1. f \in Holds(free) /\ f \notin Holds(new) /\ f \notin Holds(free')
      BY <1>4, <2>2
    <3>2. f \notin DOMAIN mem'
      <4>1. DOMAIN mem' \subseteq DOMAIN mem \cup Holds(new)
        BY <1>4 DEF MapIn, Holds
      <4> QED BY <1>9, <3>1, <4>1
    <3>3. \A p \in LowerHalf : Mapped(p) # f
      BY <1>7, <1>9, <3>1 DEF Off
    <3> QED BY <1>9, <3>1, <3>2, <3>3
  <2> QED BY <2>1, <2>2
<1>11. FrameInv'
  <2>1. ASSUME NEW p \in LowerHalf, Mapped(p)' # NoFrame
        PROVE  /\ Mapped(p)' \in Usable /\ Mapped(p)' \notin Holds(free')
               /\ Mapped(p)' \notin DOMAIN mem'
    <3>1. CASE p = page
      BY <1>6, <1>10, <3>1
    <3>2. CASE p # page
      BY <1>5, <1>6, <1>7, <2>1, <3>2 DEF Off
    <3> QED BY <3>1, <3>2
  <2>2. ASSUME NEW p \in LowerHalf, Mapped(p)' # NoFrame, NEW q \in LowerHalf, Mapped(q)' = Mapped(p)'
        PROVE  q = p
    BY <1>6, <1>7, <1>10, <2>2
  <2> QED BY <2>1, <2>2 DEF FrameInv, LowerHalf, Half, Off, Usable, Holds
<1>12. GrantInv'
  <2>1. \A p \in LowerHalf : Mapped(p) # NoFrame <=> p \in Expected
    BY <1>1, <1>2 DEF GrantInv
  <2>2. \A p \in LowerHalf : Mapped(p)' # NoFrame <=> p \in Expected'
    BY <1>2, <1>6, <1>10, <2>1
  <2> QED BY <2>2 DEF GrantInv, LowerHalf, Half
<1>13. ClaimInv'
  <2> SUFFICES ASSUME NEW i \in DOMAIN work'.todo, work'.todo[i].frame # NoFrame
               PROVE  /\ work'.todo[i].frame \in Usable
                      /\ work'.todo[i].frame \notin Holds(free')
                      /\ work'.todo[i].frame \notin DOMAIN mem'
                      /\ \A p \in LowerHalf : Mapped(p)' # work'.todo[i].frame
                      /\ \A j \in DOMAIN work'.todo :
                            work'.todo[j].frame = work'.todo[i].frame => j = i
    BY DEF ClaimInv, LowerHalf, Half, Off, Usable, Holds
  <2>1. /\ i + 1 \in DOMAIN work.todo /\ i + 1 # 1 /\ work'.todo[i] = work.todo[i + 1]
    BY <1>2 DEF Popped
  <2>2. /\ Off(work'.todo[i].frame)
        /\ \A p \in LowerHalf : Mapped(p) # work'.todo[i].frame
        /\ \A j \in DOMAIN work.todo : work.todo[j].frame = work'.todo[i].frame => j = i + 1
    BY <1>8, <2>1
  <2>3. work'.todo[i].frame # f
    <3>1. was # NoFrame => work'.todo[i].frame # was
      BY <1>3, <2>1, <2>2
    <3>2. was = NoFrame => f \in Holds(free)
      BY <1>4
    <3> QED BY <1>4, <2>2, <3>1, <3>2 DEF Off
  <2>4. ASSUME NEW j \in DOMAIN work'.todo, work'.todo[j].frame = work'.todo[i].frame PROVE j = i
    <3>1. j + 1 \in DOMAIN work.todo /\ work'.todo[j] = work.todo[j + 1]
      BY <1>2 DEF Popped
    <3>2. j + 1 = i + 1
      BY <2>2, <2>4, <3>1
    <3>3. i \in Int /\ j \in Int
      <4>1. work'.todo \in Seq(Requests)
        BY <1>2 DEF Popped, Works
      <4> QED BY <4>1
    <3> QED BY <3>2, <3>3
  <2> QED BY <1>5, <1>6, <2>2, <2>3, <2>4 DEF Off
<1> QED BY <1>11, <1>12, <1>13

\* A page that is mapped at boot or for a program: the kernel's lower half stays.
LEMMA MapOtherPage ==
    ASSUME Inv, Continued, NEW f, work.op \in {"init", "load", "stack"},
           NEW page, NEW target, Head(work.todo).page = page, Head(work.todo).target = target,
           Drawn(work.root, page, f, target), kernel' = kernel, ~panicked
    PROVE  FrameInv' /\ GrantInv' /\ ClaimInv'
<1>1. /\ WorkInv /\ FrameInv /\ GrantInv
  BY DEF Inv
<1>2. /\ Popped /\ Booted /\ kernel \in Roots /\ Expected' = Expected
  BY DEF Continued
<1>3. /\ \A g : Off(g) => g \notin Holds(free') /\ g \notin DOMAIN mem'
      /\ \A p \in Pages, hard \in BOOLEAN :
            kernel # work.root \/ Prefix(p, target - 1) # Prefix(page, target - 1) =>
               Frame(mem', kernel, p, hard) = Frame(mem, kernel, p, hard)
  BY <1>2 DEF Drawn
<1>4. page \in Pages /\ target \in 1 .. Levels /\ 1 \in DOMAIN work.todo /\ page = work.todo[1].page
  BY <1>2 DEF Popped, Requests
<1>5. \A p \in LowerHalf : Mapped(p)' = Mapped(p)
  <2> SUFFICES ASSUME NEW p \in LowerHalf
               PROVE  virt_to_phys(mem', kernel, p) = virt_to_phys(mem, kernel, p)
    BY DEF Mapped
  <2>1. p \in Pages /\ FALSE \in BOOLEAN
    BY LowerPages
  <2>2. CASE work.op = "init"
    <3>1. page \notin LowerHalf
      BY <1>1, <1>4, <2>2 DEF WorkInv
    <3> DEFINE k == target - 1
    <3>2. k \in 0 .. Levels - 1
      BY <1>4, Shape
    <3>3. Prefix(p, k) # Prefix(page, k)
      <4> HIDE DEF k
      <4> QED BY <1>4, <2>1, <3>1, <3>2, SameHalf
    <3> QED BY <1>3, <2>1, <3>3 DEF virt_to_phys
  <2>3. CASE work.op # "init"
    <3>1. kernel # work.root
      BY <1>1, <2>3 DEF WorkInv, Loading
    <3> QED BY <1>3, <2>1, <3>1 DEF virt_to_phys
  <2> QED BY <2>2, <2>3
<1>6. FrameInv'
  <2>1. \A p \in LowerHalf : Mapped(p)' # NoFrame =>
           /\ Mapped(p)' \in Usable /\ Mapped(p)' \notin Holds(free') /\ Mapped(p)' \notin DOMAIN mem'
           /\ \A q \in LowerHalf : Mapped(q)' = Mapped(p)' => q = p
    BY <1>1, <1>2, <1>3, <1>5 DEF FrameInv, Off
  <2> QED BY <2>1 DEF FrameInv, LowerHalf, Half, Off, Usable, Holds
<1>7. GrantInv'
  <2>1. \A p \in LowerHalf : Mapped(p) # NoFrame <=> p \in Expected
    BY <1>1, <1>2 DEF GrantInv
  <2>2. \A p \in LowerHalf : Mapped(p)' # NoFrame <=> p \in Expected'
    BY <1>2, <1>5, <2>1
  <2> QED BY <2>2 DEF GrantInv, LowerHalf, Half
<1>8. ClaimInv'
  BY <1>2 DEF ClaimInv, Popped
<1> QED BY <1>6, <1>7, <1>8

LEMMA MapNextStep == Inv /\ MapNext => Inv'
<1> SUFFICES ASSUME Inv, MapNext PROVE Inv'
  OBVIOUS
<1> DEFINE r == Head(work.todo)
<1>1. /\ work.todo # << >> /\ work.op # "free" /\ ~panicked
      /\ work' = [work EXCEPT !.todo = Tail(@)]
      /\ UNCHANGED <<kernel, satp, tasks, harts, sections>>
      /\ panicked' = MapPanics(mem, work.root, r.page, r.target)
      /\ panicked' => UNCHANGED <<mem, free, tlb>>
      /\ ~panicked' => tlb' = IF work.op = "alloc" THEN Flushed(r.page) ELSE tlb
  BY DEF MapNext, Mapping
<1>2. Continued
  BY <1>1, ContinuedIs
<1>3. CASE panicked'
  <2>1. panicked' = TRUE
    BY <1>1, <1>3 DEF MapPanics
  <2> QED BY <1>1, <1>2, <1>3, <2>1, PanicStep
<1>4. CASE ~panicked'
  <2>1. /\ TypeOK /\ TreeInv /\ WorkInv /\ TlbInv
    BY DEF Inv
  <2>2. PICK pl : Trees(mem, pl, Roots)
    BY <2>1 DEF TreeInv
  <2>3. PICK new, f : Fed(pl, new, f)
    BY <1>2, <1>4, <2>2, FedIs
  <2>4. Drawn(work.root, r.page, f, r.target)
    BY <1>1, <1>2, <2>2, <2>3, DrawnIs
  <2>5. /\ Popped /\ Roots' = Roots /\ WorkInv' /\ SectionInv' /\ Booted
    BY <1>2 DEF Continued
  <2>6. work.op \in {"init", "alloc", "load", "stack"}
    <3>1. work.op \in {"idle", "init", "alloc", "free", "load", "stack"} /\ work.op # "idle"
      BY <1>1, <2>1 DEF WorkInv, Works
    <3> QED BY <1>1, <3>1
  <2>7. FrameInv' /\ GrantInv' /\ ClaimInv'
    <3> DEFINE page == r.page
               target == r.target
               was == r.frame
    <3>1. Head(work.todo).page = page /\ Head(work.todo).target = target
          /\ Head(work.todo).frame = was /\ Drawn(work.root, page, f, target)
      BY <2>4
    <3>2. CASE work.op = "alloc"
      <4> HIDE DEF page, target, was
      <4> QED BY <1>1, <1>2, <2>3, <3>1, <3>2, MapDriverPage
    <3>3. CASE work.op \in {"init", "load", "stack"}
      <4> HIDE DEF page, target, was
      <4> QED BY <1>1, <1>2, <3>1, <3>3, MapOtherPage
    <3> QED BY <2>6, <3>2, <3>3
  <2>8. TlbInv'
    <3> SUFFICES ASSUME NEW c \in tlb' PROVE c[1] \in Pages /\ Translate(mem', satp, c[1]) = c[2]
      BY <1>1 DEF TlbInv
    <3>1. c \in tlb /\ c[1] \in Pages /\ Translate(mem, satp, c[1]) = c[2] /\ TRUE \in BOOLEAN
      BY <1>1, <1>4, <2>1 DEF TlbInv, Flushed
    <3>2. CASE satp = BootRoot
      BY <2>4, <3>1, <3>2 DEF Drawn, Translate
    <3>3. CASE satp # BootRoot
      <4>1. satp \in Roots
        BY <2>1, <3>3 DEF WorkInv
      <4>2. satp # work.root \/ Prefix(c[1], r.target - 1) # Prefix(r.page, r.target - 1)
        <5>1. CASE work.op = "alloc"
          <6>1. c[1] # r.page
            BY <1>1, <1>4, <5>1 DEF Flushed
          <6>2. r.target = 1 /\ r.page \in LowerHalf
            BY <2>1, <2>5, <5>1 DEF WorkInv, VmmWork, Popped
          <6>3. r.page \in Nat /\ c[1] \in Nat
            BY <3>1, <6>2, LowerPages
          <6>4. Prefix(c[1], 0) # Prefix(r.page, 0)
            BY <6>1, <6>3, PrefixEnds
          <6> QED BY <6>2, <6>4
        <5>2. CASE work.op # "alloc"
          BY <2>1, <2>6, <3>3, <5>2 DEF WorkInv, Loading
        <5> QED BY <5>1, <5>2
      <4>3. Frame(mem', satp, c[1], TRUE) = Frame(mem, satp, c[1], TRUE)
        BY <2>4, <3>1, <4>1, <4>2 DEF Drawn
      <4> QED BY <3>1, <4>3 DEF Translate
    <3> QED BY <3>2, <3>3
  <2>9. TypeOK'
    <3>1. free' \in Seq(Usable)
      BY <2>3 DEF Fed, PartOf
    <3>2. panicked' \in BOOLEAN
      BY <1>1 DEF MapPanics
    <3>3. /\ mem' \in [DOMAIN mem' -> [Slots -> Entry]]
          /\ \A t \in DOMAIN mem', i \in Slots :
                mem'[t][i].kind = "branch" => mem'[t][i].frame \in DOMAIN mem'
          /\ satp' \in DOMAIN mem' /\ Roots' \subseteq DOMAIN mem'
      BY <1>1, <2>4, <2>5 DEF Drawn
    <3> QED BY <1>1, <2>1, <2>5, <3>1, <3>2, <3>3 DEF TypeOK, LowerHalf, Half, Usable
  <2>10. TreeInv' /\ BootInv' /\ FreeInv'
    BY <2>4 DEF Drawn
  <2> QED BY <2>5, <2>7, <2>8, <2>9, <2>10 DEF Inv
<1> QED BY <1>3, <1>4

\* What is pushed is on the list, and nothing else is new there.
LEMMA Pushed ==
    ASSUME NEW U, NEW list \in Seq(U), Distinct(list), NEW f \in U, f \notin Holds(list)
    PROVE  /\ <<f>> \o list \in Seq(U) /\ Distinct(<<f>> \o list)
           /\ Holds(<<f>> \o list) = Holds(list) \cup {f}
<1> DEFINE s == <<f>> \o list
<1>1. /\ s \in Seq(U) /\ DOMAIN s = 1 .. Len(list) + 1 /\ s[1] = f
      /\ DOMAIN list = 1 .. Len(list) /\ Len(list) \in Nat
      /\ \A k \in 1 .. Len(list) : s[k + 1] = list[k]
  OBVIOUS
<1> HIDE DEF s
<1>2. \A k \in DOMAIN s : k # 1 => k - 1 \in DOMAIN list /\ s[k] = list[k - 1]
  <2> SUFFICES ASSUME NEW k \in DOMAIN s, k # 1 PROVE k - 1 \in DOMAIN list /\ s[k] = list[k - 1]
    OBVIOUS
  <2> DEFINE j == k - 1
  <2>1. j \in 1 .. Len(list) /\ j + 1 = k
    BY <1>1
  <2> HIDE DEF j
  <2>2. j \in DOMAIN list /\ s[k] = list[j]
    BY <1>1, <2>1
  <2> QED BY <2>2 DEF j
<1>3. Holds(s) = Holds(list) \cup {f}
  <2>1. \A k \in DOMAIN list : k + 1 \in DOMAIN s /\ s[k + 1] = list[k]
    BY <1>1
  <2>2. f \in Holds(s)
    BY <1>1 DEF Holds
  <2>3. \A g \in Holds(list) : g \in Holds(s)
    BY <2>1 DEF Holds
  <2>4. \A g \in Holds(s) : g \in Holds(list) \cup {f}
    BY <1>1, <1>2 DEF Holds
  <2> QED BY <2>2, <2>3, <2>4
<1>4. Distinct(s)
  <2> SUFFICES ASSUME NEW i \in DOMAIN s, NEW j \in DOMAIN s, s[i] = s[j] PROVE i = j
    BY DEF Distinct
  <2>1. \A k \in DOMAIN s : k # 1 => s[k] # f
    BY <1>2 DEF Holds
  <2>2. CASE i = 1 \/ j = 1
    BY <1>1, <2>1, <2>2
  <2>3. CASE i # 1 /\ j # 1
    <3>1. i - 1 = j - 1
      BY <1>2, <2>3 DEF Distinct
    <3> QED BY <1>1, <3>1
  <2> QED BY <2>2, <2>3
<1> QED BY <1>1, <1>3, <1>4 DEF s

LEMMA UnmapNextStep == Inv /\ UnmapNext => Inv'
<1> SUFFICES ASSUME Inv, UnmapNext PROVE Inv'
  OBVIOUS
<1>1. PICK page : page = Head(work.todo).page
  OBVIOUS
<1>2. /\ work.op = "free" /\ work.todo # << >> /\ ~panicked
      /\ work' = [work EXCEPT !.todo = Tail(@)]
      /\ UNCHANGED <<kernel, satp, tasks, harts, sections>>
      /\ panicked' = UnmapPanics(mem, work.root, page)
      /\ panicked' => UNCHANGED <<mem, free, tlb>>
      /\ ~panicked' => /\ free' = <<virt_to_phys(mem, work.root, page)>> \o free
                       /\ mem' = UnmapIn(mem, work.root, page)
                       /\ tlb' = Flushed(page)
  BY <1>1 DEF UnmapNext
<1>3. Continued
  BY <1>2, ContinuedIs
<1>4. CASE panicked'
  <2>1. panicked' = TRUE
    BY <1>2, <1>4 DEF UnmapPanics
  <2> QED BY <1>2, <1>3, <1>4, <2>1, PanicStep
<1>5. CASE ~panicked'
  <2>1. /\ TypeOK /\ TreeInv /\ BootInv /\ FreeInv /\ WorkInv /\ GrantInv /\ FrameInv /\ TlbInv
    BY DEF Inv
  <2>2. PICK pl : Trees(mem, pl, Roots)
    BY <2>1 DEF TreeInv
  <2>3. /\ Popped /\ Roots' = Roots /\ WorkInv' /\ SectionInv' /\ Booted /\ kernel \in Roots
        /\ Expected' = Expected \ {page}
    BY <1>1, <1>2, <1>3 DEF Continued
  <2>4. /\ work.root = kernel /\ satp = kernel /\ page \in LowerHalf /\ page \in Pages
        /\ page \in TodoPages
    BY <1>1, <1>2, <2>1, <2>3, LowerPages DEF WorkInv, VmmWork, Popped, TodoPages
  <2>5. /\ Placed(mem, pl) /\ RootAt(pl, kernel)
        /\ DOMAIN mem = DOMAIN pl \cup Boots /\ DOMAIN pl \cap Boots = {}
        /\ \A r \in Roots : RootAt(pl, r)
    BY <2>2, <2>3 DEF Trees
  <2> DEFINE f == Mapped(page)
             n == UnmapIn(mem, kernel, page)
             t == Path(mem, kernel, page)[1]
  <2>6. Unmade(mem, n, pl, kernel, page, t)
    BY <1>2, <1>5, <2>4, <2>5, UnmapMakes
  <2>7. n = [x \in DOMAIN n |-> n[x]] /\ mem' = n
    <3>1. mem = [x \in DOMAIN mem |-> mem[x]]
      BY <2>1 DEF TypeOK
    <3> QED BY <1>2, <1>5, <2>4, <3>1 DEF UnmapIn
  <2> HIDE DEF n, t
  <2>8. /\ DOMAIN n = DOMAIN mem /\ t \in DOMAIN pl
        /\ \A x \in DOMAIN mem \ {t} : n[x] = mem[x]
    BY <2>6 DEF Unmade
  <2>9. Placed(n, pl)
    BY <2>4, <2>5, <2>6, UnmapPlaced
  <2>10. \A r \in Roots, p \in Pages, hard \in BOOLEAN :
            Frame(n, r, p, hard) = IF r = kernel /\ p = page THEN NoFrame
                                   ELSE Frame(mem, r, p, hard)
    BY <2>4, <2>5, <2>6, UnmapWalks
  <2>11. f # NoFrame /\ Off(f) /\ \A p \in LowerHalf : Mapped(p) = f => p = page
    <3>1. page \in Expected
      BY <1>2, <2>4 DEF Expected
    <3> QED BY <1>2, <2>1, <2>3, <2>4, <3>1 DEF GrantInv, FrameInv
  <2>12. free' = <<f>> \o free
    BY <1>2, <1>5, <2>4 DEF Mapped
  <2> HIDE DEF f
  <2>13. free' \in Seq(Usable) /\ Distinct(free') /\ Holds(free') = Holds(free) \cup {f}
    BY <2>1, <2>11, <2>12, Pushed DEF TypeOK, FreeInv, Off
  <2>14. Trees(n, pl, Roots)
    BY <2>5, <2>8, <2>9 DEF Trees
  <2>15. \A x \in Boots : n[x] = BootMem[x]
    BY <2>1, <2>5, <2>8 DEF BootInv
  <2>16. /\ n \in [DOMAIN n -> [Slots -> Entry]]
         /\ \A x \in DOMAIN n, i \in Slots : n[x][i].kind = "branch" => n[x][i].frame \in DOMAIN n
         /\ Roots \subseteq DOMAIN n
    BY <2>7, <2>14, <2>15, TreesTyped
  <2>17. TypeOK'
    <3>1. panicked' \in BOOLEAN
      BY <1>2 DEF UnmapPanics
    <3>2. satp' \in DOMAIN n
      BY <1>2, <2>1, <2>8 DEF TypeOK
    <3> QED BY <1>2, <2>1, <2>3, <2>7, <2>13, <2>16, <3>1, <3>2
            DEF TypeOK, LowerHalf, Half, Usable
  <2>18. TreeInv'
    <3>1. Trees(mem', pl, Roots')
      BY <2>3, <2>7, <2>14
    <3> QED BY <3>1 DEF TreeInv
  <2>19. BootInv'
    BY <2>7, <2>15 DEF BootInv, Boots
  <2>20. FreeInv'
    <3>1. \A g \in Holds(free) : g \notin DOMAIN mem
      BY <2>1 DEF FreeInv, Holds
    <3>2. \A g \in Holds(free') : g \notin DOMAIN n
      BY <2>8, <2>11, <2>13, <3>1 DEF Off
    <3>3. \A i \in DOMAIN free' : free'[i] \notin DOMAIN n
      BY <3>2 DEF Holds
    <3> QED BY <2>7, <2>13, <3>3 DEF FreeInv, Distinct
  <2>21. \A p \in LowerHalf : Mapped(p)' = IF p = page THEN NoFrame ELSE Mapped(p)
    <3>1. \A p \in LowerHalf : p \in Pages /\ FALSE \in BOOLEAN
      BY LowerPages
    <3>2. \A p \in LowerHalf : Frame(n, kernel, p, FALSE) = IF p = page THEN NoFrame
                                                            ELSE Frame(mem, kernel, p, FALSE)
      BY <2>3, <2>10, <3>1
    <3> QED BY <1>2, <2>7, <3>2 DEF Mapped, virt_to_phys
  <2>22. FrameInv'
    <3>1. ASSUME NEW p \in LowerHalf, Mapped(p)' # NoFrame
          PROVE  /\ Mapped(p)' \in Usable /\ Mapped(p)' \notin Holds(free')
                 /\ Mapped(p)' \notin DOMAIN mem'
                 /\ \A q \in LowerHalf : Mapped(q)' = Mapped(p)' => q = p
      <4>1. p # page /\ Mapped(p)' = Mapped(p)
        BY <2>21, <3>1
      <4>2. Off(Mapped(p)) /\ \A q \in LowerHalf : Mapped(q) = Mapped(p) => q = p
        BY <2>1, <2>3, <3>1, <4>1 DEF FrameInv
      <4>3. Mapped(p) # f
        BY <2>11, <4>1
      <4>4. \A q \in LowerHalf : Mapped(q)' = Mapped(p)' => q = p
        BY <2>21, <3>1, <4>1, <4>2
      <4> QED BY <2>7, <2>8, <2>13, <4>1, <4>2, <4>3, <4>4 DEF Off
    <3> QED BY <3>1 DEF FrameInv, LowerHalf, Half, Off, Usable, Holds
  <2>23. GrantInv'
    <3>1. \A p \in LowerHalf : Mapped(p) # NoFrame <=> p \in Expected
      BY <1>2, <2>1, <2>3 DEF GrantInv
    <3>2. \A p \in LowerHalf : Mapped(p)' # NoFrame <=> p \in Expected'
      BY <2>3, <2>21, <3>1
    <3> QED BY <3>2 DEF GrantInv, LowerHalf, Half
  <2>24. ClaimInv'
    BY <1>2, <2>3 DEF ClaimInv, Popped
  <2>25. TlbInv'
    <3> SUFFICES ASSUME NEW c \in tlb' PROVE c[1] \in Pages /\ Translate(mem', satp, c[1]) = c[2]
      BY <1>2 DEF TlbInv
    <3>1. c \in tlb /\ c[1] # page /\ c[1] \in Pages /\ Translate(mem, satp, c[1]) = c[2]
          /\ TRUE \in BOOLEAN
      BY <1>2, <1>5, <2>1 DEF TlbInv, Flushed
    <3>2. Frame(n, kernel, c[1], TRUE) = Frame(mem, kernel, c[1], TRUE)
      BY <2>3, <2>10, <3>1
    <3> QED BY <2>4, <2>7, <3>1, <3>2 DEF Translate
  <2> QED BY <2>3, <2>17, <2>18, <2>19, <2>20, <2>22, <2>23, <2>24, <2>25 DEF Inv
<1> QED BY <1>4, <1>5

-----------------------------------------------------------------------------
(* What holds of every behaviour                                            *)

LEMMA NextInv ==
    ASSUME Regular, Inv, [Next]_vars, Clean'
    PROVE  Inv'
<1>1. CASE UNCHANGED vars
  <2>1. /\ mem' = mem /\ free' = free /\ kernel' = kernel /\ satp' = satp /\ tasks' = tasks
        /\ harts' = harts /\ sections' = sections /\ work' = work /\ tlb' = tlb
        /\ panicked' = panicked
    BY <1>1 DEF vars
  <2>2. Roots' = Roots
    BY <2>1 DEF Roots, Booted, Loading
  <2>3. TypeOK' /\ SectionInv' /\ WorkInv'
    BY <2>1, <2>2 DEF Inv, TypeOK, SectionInv, WorkInv, LowerHalf, Half, Usable, VmmWork,
                      Granted, Loading, Booted
  <2>4. TreeInv' /\ BootInv' /\ FreeInv' /\ FrameInv' /\ \A p : Mapped(p)' = Mapped(p)
    BY <2>1, <2>2, Untouched, Still
  <2>5. ClaimInv' /\ TlbInv'
    BY <2>1, <2>4 DEF Inv, ClaimInv, TlbInv, Off, Usable, Holds, LowerHalf, Half
  <2>6. Expected' = Expected
    BY <2>1 DEF Expected, Granted, TodoPages
  <2>7. GrantInv'
    BY <2>1, <2>4, <2>6 DEF Inv, GrantInv, Booted, LowerHalf, Half
  <2> QED BY <2>3, <2>4, <2>5, <2>7 DEF Inv
<1>2. CASE vmm_init
  BY <1>2, VmmInitStep
<1>3. CASE InitDone
  BY <1>3, InitDoneStep
<1>4. CASE MapNext
  BY <1>4, MapNextStep
<1>5. CASE UnmapNext
  BY <1>5, UnmapNextStep
<1>6. CASE \E c \in Calls : Alloc(c)
  BY <1>6, AllocStep
<1>7. CASE \E s \in sections : Free(s)
  BY <1>7, FreeStep
<1>8. CASE CallDone
  BY <1>8, CallDoneStep
<1>9. CASE StartHart
  BY <1>9, StartHartStep
<1>10. CASE Load
  BY <1>10, LoadStep
<1>11. CASE LoadSegment
  BY <1>11, LoadSegmentStep
<1>12. CASE LoadStack
  BY <1>12, LoadStackStep
<1>13. CASE LoadDone
  BY <1>13, LoadDoneStep
<1>14. CASE Switch
  BY <1>14, SwitchStep
<1>15. CASE \E page \in Watched : Touch(page)
  BY <1>15, TouchStep
<1> QED
  BY <1>1, <1>2, <1>3, <1>4, <1>5, <1>6, <1>7, <1>8, <1>9, <1>10, <1>11, <1>12, <1>13, <1>14,
     <1>15 DEF Next

LEMMA SpecInv == Regular => (Spec => [](Clean => Inv))
<1> SUFFICES ASSUME Regular PROVE Spec => [](Clean => Inv)
  OBVIOUS
<1>1. Init => Inv
  BY InitInv
<1>2. Inv /\ [Next]_vars /\ Clean' => Inv'
  BY NextInv
<1>3. [Next]_vars /\ Clean' => Clean
  BY CleanBefore
<1> QED BY <1>1, <1>2, <1>3, PTL DEF Spec

\* The tables stay tables of entries that lead to each other, the free list holds
\* frames of the memory map, and every root is a table.
THEOREM TypeCorrect ==
    ASSUME Regular
    PROVE  Spec => [](Clean => TypeOK)
<1>1. Spec => [](Clean => Inv)
  BY SpecInv
<1>2. Inv => TypeOK
  BY DEF Inv
<1> QED BY <1>1, <1>2, PTL

\* map, unmap and the flushes of alloc and free leave no stale translation.
THEOREM TlbAlwaysFresh ==
    ASSUME Regular
    PROVE  Spec => []TlbFresh
<1>1. Spec => [](Clean => Inv)
  BY SpecInv
<1>2. (Clean => Inv) => TlbFresh
  BY DEF Inv, TlbInv, TlbFresh
<1> QED BY <1>1, <1>2, PTL

\* map puts the frames of a block behind the pages of the block it was asked for,
\* and no other page of any root notices, whatever tables it has to add.
THEOREM MapChangesBlock ==
    ASSUME NEW m, NEW pl, NEW new, NEW root, NEW page, NEW f, NEW target,
           MapCall(m, pl, new, root, page, f, target),
           NEW r, RootAt(pl, r), NEW p \in Pages
    PROVE  virt_to_phys(MapIn(m, new, root, page, f, target), r, p) =
              IF r = root /\ Prefix(p, target - 1) = Prefix(page, target - 1)
                THEN Behind(Leaf(f), target, p) ELSE virt_to_phys(m, r, p)
<1> DEFINE d == Deepest(m, root, page, target)
           tab == Tables(m, new, root, page, target)
           n == MapIn(m, new, root, page, f, target)
<1>1. /\ Placed(m, pl) /\ RootAt(pl, root) /\ page \in Pages /\ target \in 1 .. Levels /\ f \in Nat
  BY DEF MapCall
<1>2. Made(m, n, pl, tab, root, page, f, target, d)
  BY MapMakes
<1> HIDE DEF d, tab, n
<1>3. FALSE \in BOOLEAN
  OBVIOUS
<1>4. CASE r = root /\ Prefix(p, target - 1) = Prefix(page, target - 1)
  <2>1. \A hard \in BOOLEAN :
           Frame(n, root, p, hard) = IF hard /\ Refused(n, root, p, target) THEN NoFrame
                                     ELSE Behind(Leaf(f), target, p)
    BY <1>1, <1>2, <1>4, MapThere
  <2>2. Frame(n, root, p, FALSE) = Behind(Leaf(f), target, p)
    BY <1>3, <2>1
  <2> QED BY <1>4, <2>2 DEF virt_to_phys, n
<1>5. CASE ~(r = root /\ Prefix(p, target - 1) = Prefix(page, target - 1))
  <2>1. \A hard \in BOOLEAN : Frame(n, r, p, hard) = Frame(m, r, p, hard)
    BY <1>1, <1>2, <1>5, MapElsewhere
  <2>2. Frame(n, r, p, FALSE) = Frame(m, r, p, FALSE)
    BY <1>3, <2>1
  <2> QED BY <1>5, <2>2 DEF virt_to_phys, n
<1> QED BY <1>4, <1>5

\* unmap takes the frame from behind one page, and no other page of any root
\* notices.
THEOREM UnmapChangesPage ==
    ASSUME NEW m, NEW pl, Placed(m, pl), NEW root, RootAt(pl, root), NEW page \in Pages,
           ~UnmapPanics(m, root, page), NEW r, RootAt(pl, r), NEW p \in Pages
    PROVE  virt_to_phys(UnmapIn(m, root, page), r, p) =
              IF r = root /\ p = page THEN NoFrame ELSE virt_to_phys(m, r, p)
<1> DEFINE t == Path(m, root, page)[1]
           n == UnmapIn(m, root, page)
<1>1. Unmade(m, n, pl, root, page, t)
  BY UnmapMakes
<1> HIDE DEF t, n
<1>2. \A hard \in BOOLEAN :
         Frame(n, r, p, hard) = IF r = root /\ p = page THEN NoFrame ELSE Frame(m, r, p, hard)
  BY <1>1, UnmapWalks
<1>3. FALSE \in BOOLEAN
  OBVIOUS
<1>4. Frame(n, r, p, FALSE) = IF r = root /\ p = page THEN NoFrame ELSE Frame(m, r, p, FALSE)
  BY <1>2, <1>3
<1> QED BY <1>4 DEF virt_to_phys, n

\* The same of the root that is made of the first frame on the list.
LEMMA RootFrom ==
    ASSUME Inv, Enough, NEW pl, Trees(mem, pl, Roots), NEW e
    PROVE  RootCopied(mem, WithRoot(e), satp, free[1], e, Below(mem, satp, UpperSlots),
                      Copies(Below(mem, satp, UpperSlots), Tail(First(Cost))))
<1> DEFINE root == free[1]
           new == Tail(First(Cost))
           size == CloneSize(mem, satp, UpperSlots)
           n == clone_table_range(AddTable(mem, root, e), new, satp, root, UpperSlots)
<1>1. PICK S : Closed(mem, S) /\ satp \in S /\ Bottomed(mem, satp)
  BY InUse
<1>2. root \in Usable /\ root \notin DOMAIN mem /\ \A k : Claimed(AddTable(mem, root, k), new, Cost - 1)
  <2>1. Linked \in {Cleared, Linked}
    OBVIOUS
  <2>2. Cut(Cost)
    BY <2>1, RootMakes
  <2> QED BY <2>2 DEF Cut
<1>3. Cost - 1 = size
  <2>1. IsFiniteSet(Below(mem, satp, UpperSlots))
    BY BelowFinite
  <2>2. size \in Nat
    BY <2>1, FS_CardinalityType DEF CloneSize
  <2>3. Cost = 1 + size
    BY DEF Cost
  <2> HIDE DEF size
  <2> QED BY <2>2, <2>3
<1>4. root \in Nat \ {NoFrame}
  BY <1>2, MemoryFacts
<1> HIDE DEF root, new
<1>5. Claimed(AddTable(mem, root, e), new, CloneSize(mem, satp, UpperSlots))
  BY <1>2, <1>3
<1>6. RootCopied(mem, n, satp, root, e, Below(mem, satp, UpperSlots),
                 Copies(Below(mem, satp, UpperSlots), new))
  BY <1>1, <1>2, <1>4, <1>5, AddClones
<1>7. WithRoot(e) = n
  BY DEF WithRoot, AddTable, root, new
<1> HIDE DEF n
<1> QED BY <1>6, <1>7 DEF root, new

\* Whatever was found in the frame of a new root, it differs from one of a cleared frame
\* in its own lower half only.
LEMMA UnclearedRoot ==
    ASSUME Inv, Enough, NEW found, NEW pl, Trees(mem, pl, Roots)
    PROVE  LET m == WithRoot(Linked)
               n == WithRoot(Unwiped(found))
           IN /\ DOMAIN n = DOMAIN m
              /\ \A t \in DOMAIN m \ {free[1]} : n[t] = m[t]
              /\ \A t \in DOMAIN mem : n[t] = mem[t]
              /\ \A i \in UpperSlots : n[free[1]][i] = m[free[1]][i]
              /\ \A i \in Slots \ UpperSlots : n[free[1]][i] = Unwiped(found)[i]
<1> DEFINE root == free[1]
           nodes == Below(mem, satp, UpperSlots)
           copy == Copies(nodes, Tail(First(Cost)))
           m == WithRoot(Linked)
           u == Unwiped(found)
           n == WithRoot(u)
           D(o) == [i \in Slots |-> Dup(mem[Path(mem, satp, o[2])[o[1]]][i], copy, o[1], o[2], i)]
           H(i) == Dup(mem[satp][i], copy, Levels, 0, i)
<1>1. /\ DOMAIN m = DOMAIN mem \cup {root} \cup {copy[o] : o \in nodes}
      /\ \A t \in DOMAIN mem : m[t] = mem[t]
      /\ m[root] = [i \in Slots |-> IF i \in UpperSlots THEN H(i) ELSE Linked[i]]
      /\ \A o \in nodes : m[copy[o]] = D(o)
  <2>1. RootCopied(mem, m, satp, root, Linked, nodes, copy)
    BY RootFrom
  <2> HIDE DEF m, root, nodes, copy
  <2> QED BY <2>1 DEF RootCopied
<1>2. /\ DOMAIN n = DOMAIN mem \cup {root} \cup {copy[o] : o \in nodes}
      /\ \A t \in DOMAIN mem : n[t] = mem[t]
      /\ n[root] = [i \in Slots |-> IF i \in UpperSlots THEN H(i) ELSE u[i]]
      /\ \A o \in nodes : n[copy[o]] = D(o)
  <2>1. RootCopied(mem, n, satp, root, u, nodes, copy)
    BY RootFrom
  <2> HIDE DEF n, u, root, nodes, copy
  <2> QED BY <2>1 DEF RootCopied
<1>3. UpperSlots \subseteq Slots
  BY Shape DEF UpperSlots, Slots
<1> HIDE DEF root, nodes, copy, m, n, u, D, H
<1>4. DOMAIN n = DOMAIN m /\ \A t \in DOMAIN mem : n[t] = mem[t]
  BY <1>1, <1>2
<1>5. \A t \in DOMAIN m \ {root} : n[t] = m[t]
  <2> SUFFICES ASSUME NEW t \in DOMAIN m, t # root
               PROVE  n[t] = m[t]
    OBVIOUS
  <2>1. t \in DOMAIN mem \/ \E o \in nodes : t = copy[o]
    BY <1>1
  <2>2. CASE t \in DOMAIN mem
    BY <1>1, <1>2, <2>2
  <2>3. ASSUME NEW o \in nodes, t = copy[o]
        PROVE  n[t] = m[t]
    BY <1>1, <1>2, <2>3
  <2> QED BY <2>1, <2>2, <2>3
<1>6. \A i \in UpperSlots : n[root][i] = m[root][i]
  <2> SUFFICES ASSUME NEW i \in UpperSlots
               PROVE  n[root][i] = m[root][i]
    OBVIOUS
  <2>1. i \in Slots
    BY <1>3
  <2>2. m[root][i] = H(i)
    BY <1>1, <2>1
  <2>3. n[root][i] = H(i)
    BY <1>2, <2>1
  <2> QED BY <2>2, <2>3
<1>7. \A i \in Slots \ UpperSlots : n[root][i] = u[i]
  <2> SUFFICES ASSUME NEW i \in Slots \ UpperSlots
               PROVE  n[root][i] = u[i]
    OBVIOUS
  <2> QED BY <1>2
<1> QED BY <1>4, <1>5, <1>6, <1>7 DEF root, m, n, u

\* new_with_upperhalf, called by smp_init and load: whatever was in the frame it claims,
\* the new root gives the upper half what the table in use gives it, every root there was
\* stays as it was, and of the lower half it is found that nobody clears it: all but the
\* two links of the free list is as it was. Only a frame nobody had written to gives nothing.
THEOREM NewRootSharesHalf ==
    ASSUME Inv, Enough, new_with_upperhalf
    PROVE  /\ \A p \in Pages \ LowerHalf, hard \in BOOLEAN :
                 Frame(mem', free[1], p, hard) = Frame(mem, satp, p, hard)
           /\ \A r \in Roots \cup {satp}, p \in Pages, hard \in BOOLEAN :
                 Frame(mem', r, p, hard) = Frame(mem, r, p, hard)
           /\ \E found \in Found(free[1]) : \A i \in Slots \ (UpperSlots \cup {0, 1}) :
                 mem'[free[1]][i] = found[i]
           /\ Clean' => \A p \in LowerHalf, hard \in BOOLEAN : Frame(mem', free[1], p, hard) = NoFrame
<1> DEFINE root == free[1]
           m == WithRoot(Linked)
           taken == Holds(First(Cost))
<1>1. PICK found \in Found(root) : mem' = WithRoot(Unwiped(found))
  BY DEF new_with_upperhalf
<1>2. PICK pl : Trees(mem, pl, Roots)
  BY DEF Inv, TreeInv
<1>3. PICK q : NewSpace(mem, m, pl, q, satp, root, taken)
  <2>1. Linked \in {Cleared, Linked}
    OBVIOUS
  <2> QED BY <1>2, <2>1, RootMakes
<1>4. /\ DOMAIN mem' = DOMAIN m
      /\ \A t \in DOMAIN m \ {root} : mem'[t] = m[t]
      /\ \A t \in DOMAIN mem : mem'[t] = mem[t]
      /\ \A i \in UpperSlots : mem'[root][i] = m[root][i]
      /\ \A i \in Slots \ UpperSlots : mem'[root][i] = Unwiped(found)[i]
  BY <1>1, <1>2, UnclearedRoot
<1> HIDE DEF m, taken
<1>5. /\ Placed(m, q) /\ RootAt(q, root) /\ DOMAIN m = DOMAIN mem \cup taken
      /\ \A p \in Pages, hard \in BOOLEAN :
            Frame(m, root, p, hard) = IF Index(p, Levels) \in UpperSlots
                                      THEN Frame(mem, satp, p, hard) ELSE NoFrame
  BY <1>3 DEF NewSpace
<1>6. \A p \in Pages \ LowerHalf, hard \in BOOLEAN :
         Frame(mem', root, p, hard) = Frame(mem, satp, p, hard)
  <2> SUFFICES ASSUME NEW p \in Pages \ LowerHalf, NEW hard \in BOOLEAN
               PROVE  Frame(mem', root, p, hard) = Frame(mem, satp, p, hard)
    OBVIOUS
  <2> DEFINE n == mem'
             U == DOMAIN q
  <2>1. Index(p, Levels) \in UpperSlots /\ p \in Nat
    BY HalfIs, PrefixEnds
  <2>2. Closed(m, U) /\ root \in U /\ U \subseteq DOMAIN n
    BY <1>4, <1>5 DEF Placed, RootAt, Closed
  <2>3. \A t \in U \ {root} : n[t] = m[t]
    BY <1>4, <2>2
  <2>4. \A t \in U, i \in Slots : m[t][i].kind = "branch" => m[t][i].frame # root
    <3> SUFFICES ASSUME NEW t \in U, NEW i \in Slots, m[t][i].kind = "branch", m[t][i].frame = root
                 PROVE  FALSE
      OBVIOUS
    <3>1. q[root].level = Levels
      BY <1>5 DEF RootAt, Place
    <3>2. q[m[t][i].frame] = Place(q[t].root, q[t].level - 1, q[t].at * Fan + i)
      BY <1>5 DEF Placed
    <3>3. q[root].level = q[t].level - 1
      BY <3>2 DEF Place
    <3>4. q[t] \in Places
      BY <1>5 DEF Placed
    <3>5. q[t].level \in 1 .. Levels
      BY <3>4 DEF Places
    <3> QED BY <3>1, <3>3, <3>5, Shape
  <2>5. n[root][Index(p, Levels)] = m[root][Index(p, Levels)]
    BY <1>4, <2>1
  <2> HIDE DEF n, U
  <2>6. Frame(n, root, p, hard) = Frame(m, root, p, hard)
    BY <2>1, <2>2, <2>3, <2>4, <2>5, WalkSame
  <2> QED BY <1>5, <2>1, <2>6 DEF n
<1>7. ASSUME NEW r \in Roots \cup {satp}, NEW p \in Pages, NEW hard \in BOOLEAN
      PROVE  Frame(mem', r, p, hard) = Frame(mem, r, p, hard)
  <2> DEFINE n == mem'
  <2>1. PICK S : Closed(mem, S) /\ r \in S
    <3>1. CASE r \in Roots
      BY <1>2, <3>1 DEF Trees, Placed, RootAt
    <3>2. CASE r = satp
      <4>1. \E S : Closed(mem, S) /\ satp \in S
        BY <1>2, InUse
      <4> QED BY <3>2, <4>1
    <3> QED BY <3>1, <3>2
  <2>2. S \subseteq DOMAIN n /\ \A t \in S : n[t] = mem[t]
    BY <1>4, <1>5, <2>1 DEF Closed
  <2>3. p \in Nat
    BY PrefixEnds
  <2> HIDE DEF n
  <2>4. Unchanged(mem, n, S, r, p, hard)
    BY <2>1, <2>2, <2>3, Kept
  <2> QED BY <2>4 DEF Unchanged, n
<1>8. \A i \in Slots \ (UpperSlots \cup {0, 1}) : mem'[root][i] = found[i]
  BY <1>4 DEF Unwiped
<1>9. Clean' => \A p \in LowerHalf, hard \in BOOLEAN : Frame(mem', root, p, hard) = NoFrame
  <2> SUFFICES ASSUME Clean', NEW p \in LowerHalf, NEW hard \in BOOLEAN
               PROVE  Frame(mem', root, p, hard) = NoFrame
    OBVIOUS
  <2>1. mem' = m
    BY LinkedRoot DEF m
  <2>2. p \in Pages /\ Index(p, Levels) \notin UpperSlots
    BY HalfIs, LowerPages
  <2> QED BY <1>5, <2>1, <2>2
<1> QED BY <1>1, <1>6, <1>7, <1>8, <1>9 DEF root

-----------------------------------------------------------------------------
(* What the entries on the way to a page may be                             *)

\* Entry i of table t is on the way to page p.
Covers(pl, t, i, p) == Prefix(p, pl[t].level - 1) = pl[t].at * Fan + i

\* No leaf on the way to a page lies above the level that is the page's limit.
Limited(m, pl, limits) ==
    \A t \in DOMAIN pl, i \in Slots : m[t][i].kind = "leaf" =>
        \A c \in limits : c.root = pl[t].root /\ Covers(pl, t, i, c.page) => pl[t].level <= c.level

\* The processor refuses no entry on the way to a page of clear.
Unstale(m, pl, clear) ==
    \A t \in DOMAIN pl, i \in Slots : m[t][i].stale =>
        \A c \in clear : c.root = pl[t].root => ~Covers(pl, t, i, c.page)

\* The first slot of the upper half is taken in every root.
HalfTaken(m, pl) ==
    \A t \in DOMAIN pl : pl[t].level = Levels => m[t][Fan \div 2].kind # "none"

Limit(r, p, l) == [root |-> r, page |-> p, level |-> l]
Way(r, p) == [root |-> r, page |-> p]

LEMMA PathCovers ==
    ASSUME NEW m, NEW pl, Placed(m, pl), NEW root, RootAt(pl, root), NEW page \in Pages,
           NEW l \in 1 .. Levels, Path(m, root, page)[l] # NoFrame
    PROVE  /\ Path(m, root, page)[l] \in DOMAIN pl
           /\ pl[Path(m, root, page)[l]].root = root /\ pl[Path(m, root, page)[l]].level = l
           /\ Index(page, l) \in Slots
           /\ Covers(pl, Path(m, root, page)[l], Index(page, l), page)
<1> DEFINE t == Path(m, root, page)[l]
<1>1. t \in DOMAIN pl /\ pl[t] = Place(root, l, Prefix(page, l))
  BY PathPlace
<1>2. page \in Nat
  BY PrefixEnds
<1>3. Index(page, l) \in Slots /\ Prefix(page, l - 1) = Prefix(page, l) * Fan + Index(page, l)
  BY <1>2, PrefixStep
<1> HIDE DEF t
<1>4. pl[t].root = root /\ pl[t].level = l /\ pl[t].at = Prefix(page, l)
  BY <1>1 DEF Place
<1>5. Covers(pl, t, Index(page, l), page)
  BY <1>3, <1>4 DEF Covers
<1> QED BY <1>1, <1>3, <1>4, <1>5 DEF t

\* map meets no leaf above its target.
LEMMA LimitedMaps ==
    ASSUME NEW m, NEW pl, Placed(m, pl), NEW root, RootAt(pl, root), NEW page \in Pages,
           NEW target \in 1 .. Levels, NEW limits, Limited(m, pl, limits),
           Limit(root, page, target) \in limits
    PROVE  ~MapPanics(m, root, page, target)
<1> DEFINE l == Deepest(m, root, page, target)
           t == Path(m, root, page)[l]
<1>1. Closed(m, DOMAIN pl) /\ root \in DOMAIN pl /\ page \in Nat
  BY PrefixEnds DEF Placed, RootAt
<1>2. EndsAt(m, DOMAIN pl, root, page, target, l)
  BY <1>1, DeepestIs
<1>3. l \in 1 .. Levels /\ l \in target .. Levels /\ t \in DOMAIN pl /\ t # NoFrame
  BY <1>1, <1>2 DEF EndsAt, Closed
<1> HIDE DEF l
<1>4. /\ pl[t].root = root /\ pl[t].level = l /\ Index(page, l) \in Slots
      /\ Covers(pl, t, Index(page, l), page)
  BY <1>3, PathCovers
<1> HIDE DEF t
<1> DEFINE c == Limit(root, page, target)
<1>5. c.root = root /\ c.page = page /\ c.level = target /\ c \in limits
  BY DEF Limit
<1> HIDE DEF c
<1>6. m[t][Index(page, l)].kind = "leaf" => l <= target
  BY <1>3, <1>4, <1>5 DEF Limited
<1>7. ~(l > target /\ m[t][Index(page, l)].kind = "leaf")
  BY <1>3, <1>6
<1> QED BY <1>7 DEF MapPanics, l, t

\* unmap finds the leaf of a page that is mapped, at the lowest level.
LEMMA LimitedUnmaps ==
    ASSUME NEW m, NEW pl, Placed(m, pl), NEW root, RootAt(pl, root), NEW page \in Pages,
           NEW limits, Limited(m, pl, limits), Limit(root, page, 1) \in limits,
           virt_to_phys(m, root, page) # NoFrame
    PROVE  ~UnmapPanics(m, root, page)
<1> DEFINE l == Deepest(m, root, page, 1)
           t == Path(m, root, page)[l]
           e == m[t][Index(page, l)]
<1>1. Closed(m, DOMAIN pl) /\ root \in DOMAIN pl /\ page \in Nat /\ 1 \in 1 .. Levels
      /\ FALSE \in BOOLEAN
  BY PrefixEnds, Shape DEF Placed, RootAt
<1>2. EndsAt(m, DOMAIN pl, root, page, 1, l)
  BY <1>1, DeepestIs
<1>3. l \in 1 .. Levels /\ t \in DOMAIN pl /\ t # NoFrame
  BY <1>1, <1>2 DEF EndsAt, Closed
<1>4. Frame(m, root, page, FALSE) = IF e.kind = "leaf" /\ ~(FALSE /\ Refused(m, root, page, l))
                                    THEN Behind(e, l, page) ELSE NoFrame
  BY <1>1, FrameIs
<1>5. e.kind = "leaf"
  BY <1>4 DEF virt_to_phys
<1> HIDE DEF l
<1>6. /\ pl[t].root = root /\ pl[t].level = l /\ Index(page, l) \in Slots
      /\ Covers(pl, t, Index(page, l), page)
  BY <1>3, PathCovers
<1> HIDE DEF t
<1> DEFINE c == Limit(root, page, 1)
<1>7. c.root = root /\ c.page = page /\ c.level = 1 /\ c \in limits
  BY DEF Limit
<1> HIDE DEF c
<1>8. l <= 1
  BY <1>3, <1>5, <1>6, <1>7 DEF Limited
<1>9. l = 1
  BY <1>3, <1>8, Shape
<1> QED BY <1>3, <1>5, <1>9 DEF UnmapPanics, t

\* The processor finds what the kernel finds.
LEMMA UnstaleWalks ==
    ASSUME NEW m, NEW pl, Placed(m, pl), NEW root, RootAt(pl, root), NEW page \in Pages,
           NEW clear, Unstale(m, pl, clear), Way(root, page) \in clear
    PROVE  Translate(m, root, page) = virt_to_phys(m, root, page)
<1> DEFINE l == Deepest(m, root, page, 1)
           e == m[Path(m, root, page)[l]][Index(page, l)]
<1>1. Closed(m, DOMAIN pl) /\ root \in DOMAIN pl /\ page \in Nat /\ 1 \in 1 .. Levels
      /\ FALSE \in BOOLEAN /\ TRUE \in BOOLEAN
  BY PrefixEnds, Shape DEF Placed, RootAt
<1>2. EndsAt(m, DOMAIN pl, root, page, 1, l)
  BY <1>1, DeepestIs
<1>3. Frame(m, root, page, FALSE) = IF e.kind = "leaf" /\ ~(FALSE /\ Refused(m, root, page, l))
                                    THEN Behind(e, l, page) ELSE NoFrame
  BY <1>1, FrameIs
<1>4. Frame(m, root, page, TRUE) = IF e.kind = "leaf" /\ ~(TRUE /\ Refused(m, root, page, l))
                                   THEN Behind(e, l, page) ELSE NoFrame
  BY <1>1, FrameIs
<1> HIDE DEF l
<1>5. ASSUME NEW k \in l + 1 .. Levels
      PROVE  ~m[Path(m, root, page)[k]][Index(page, k)].stale
  <2> DEFINE t == Path(m, root, page)[k]
             c == Way(root, page)
  <2>1. l \in 1 .. Levels /\ \A j \in l .. Levels : Path(m, root, page)[j] \in DOMAIN pl
    BY <1>2 DEF EndsAt
  <2>2. k \in 1 .. Levels /\ t \in DOMAIN pl
    BY <2>1, Shape
  <2>3. t # NoFrame
    BY <1>1, <2>2 DEF Closed
  <2>4. pl[t].root = root /\ Index(page, k) \in Slots /\ Covers(pl, t, Index(page, k), page)
    BY <2>2, <2>3, PathCovers
  <2> HIDE DEF t
  <2>5. c.root = root /\ c.page = page /\ c \in clear
    BY DEF Way
  <2> HIDE DEF c
  <2>6. ~m[t][Index(page, k)].stale
    BY <2>2, <2>4, <2>5 DEF Unstale
  <2> QED BY <2>6 DEF t
<1>6. ~Refused(m, root, page, l)
  BY <1>5 DEF Refused
<1> HIDE DEF e
<1>7. Frame(m, root, page, FALSE) = IF e.kind = "leaf" THEN Behind(e, l, page) ELSE NoFrame
  BY <1>3, Zenon
<1>8. Frame(m, root, page, TRUE) = IF e.kind = "leaf" THEN Behind(e, l, page) ELSE NoFrame
  BY <1>4, <1>6, Zenon
<1> DEFINE x == IF e.kind = "leaf" THEN Behind(e, l, page) ELSE NoFrame
<1>9. Frame(m, root, page, TRUE) = x /\ Frame(m, root, page, FALSE) = x
  BY <1>7, <1>8
<1> HIDE DEF x
<1> QED BY <1>9 DEF Translate, virt_to_phys

\* What an entry of a table of the call of map can be.
EntryMade(m, n, tab, page, f, target, d, k, i) ==
    \/ k = d /\ n[tab[k]][i] = m[tab[d]][i]
    \/ k # d /\ n[tab[k]][i] = NoEntry
    \/ k = target /\ i = Index(page, k) /\ n[tab[k]][i] = Leaf(f)
    \/ /\ k # target /\ i = Index(page, k) /\ n[tab[k]][i].kind = "branch"
       /\ n[tab[k]][i].stale => k = d /\ m[tab[d]][i].stale

LEMMA EntriesMade ==
    ASSUME NEW m, NEW n, NEW pl, NEW tab, NEW root, NEW page \in Pages, NEW f \in Nat,
           NEW target \in 1 .. Levels, NEW d, Placed(m, pl),
           Made(m, n, pl, tab, root, page, f, target, d),
           NEW k \in target .. d, NEW i \in Slots
    PROVE  EntryMade(m, n, tab, page, f, target, d, k, i)
<1>1. Filled(m, n, tab, page, f, target, d)
  BY MadeEntries, Zenon
<1>2. CASE i # Index(page, k)
  BY <1>1, <1>2 DEF Filled, EntryMade
<1>3. CASE i = Index(page, k) /\ k = target
  BY <1>1, <1>3 DEF Filled, EntryMade
<1>4. CASE i = Index(page, k) /\ k # target
  <2> DEFINE was == IF k = d THEN m[tab[d]] ELSE NewTable
             e == Branch(was[i], tab[k - 1])
  <2>1. n[tab[k]] = [was EXCEPT ![Index(page, k)] = IF k = target THEN Leaf(f) ELSE Branch(@, tab[k - 1])]
    BY DEF Made
  <2>2. was \in [Slots -> Entry]
    <3>1. m[tab[d]] \in [Slots -> Entry]
      BY DEF Made, Placed, Closed
    <3>2. NewTable \in [Slots -> Entry]
      BY DEF NewTable, Cleared, NoEntry, Entry, NoFrame
    <3> QED BY <3>1, <3>2
  <2>3. n[tab[k]][i] = e
    <3> HIDE DEF was
    <3> QED BY <1>4, <2>1, <2>2
  <2>4. k # d => ~was[i].stale
    BY DEF NewTable, Cleared, NoEntry
  <2>5. k = d => was[i] = m[tab[d]][i]
    OBVIOUS
  <2>6. e.kind = "branch" /\ e.stale = was[i].stale
    BY DEF Branch
  <2> HIDE DEF was, e
  <2>7. n[tab[k]][i].kind = "branch" /\ (n[tab[k]][i].stale => k = d /\ m[tab[d]][i].stale)
    BY <2>3, <2>4, <2>5, <2>6
  <2> QED BY <1>4, <2>7 DEF EntryMade
<1> QED BY <1>2, <1>3, <1>4

\* map puts a leaf where its target is, on the way to the pages of its block only,
\* and no entry that the processor refuses.
LEMMA MapKeepsWays ==
    ASSUME NEW m, NEW n, NEW pl, NEW q, NEW tab, NEW root, NEW page \in Pages, NEW f \in Nat,
           NEW target \in 1 .. Levels, NEW d, Placed(m, pl),
           Made(m, n, pl, tab, root, page, f, target, d),
           Extends(q, pl, tab, root, page, target, d),
           NEW limits, Limited(m, pl, limits),
           \A c \in limits : c.root = root /\ Prefix(c.page, target - 1) = Prefix(page, target - 1)
                               => target <= c.level,
           NEW clear, Unstale(m, pl, clear), HalfTaken(m, pl)
    PROVE  Limited(n, q, limits) /\ Unstale(n, q, clear) /\ HalfTaken(n, q)
<1>1. /\ d \in target .. Levels /\ tab[d] \in DOMAIN pl
      /\ \A t \in DOMAIN m \ {tab[d]} : n[t] = m[t]
      /\ DOMAIN pl \subseteq DOMAIN m
  BY DEF Made, Placed, Closed
<1>2. /\ DOMAIN q = DOMAIN pl \cup {tab[k] : k \in target .. d - 1}
      /\ \A t \in DOMAIN pl : q[t] = pl[t]
      /\ \A k \in target .. d : /\ q[tab[k]].root = root /\ q[tab[k]].level = k
                                /\ q[tab[k]].at = Prefix(page, k)
  <2>1. \A k \in target .. d : q[tab[k]] = Place(root, k, Prefix(page, k))
    BY DEF Extends
  <2>2. \A k \in target .. d : /\ q[tab[k]].root = root /\ q[tab[k]].level = k
                               /\ q[tab[k]].at = Prefix(page, k)
    <3> SUFFICES ASSUME NEW k \in target .. d
                 PROVE  /\ q[tab[k]].root = root /\ q[tab[k]].level = k
                        /\ q[tab[k]].at = Prefix(page, k)
      OBVIOUS
    <3>1. q[tab[k]] = Place(root, k, Prefix(page, k))
      BY <2>1
    <3> QED BY <3>1 DEF Place
  <2> QED BY <2>2 DEF Extends
<1>3. \A t \in DOMAIN q : \/ t \in DOMAIN pl /\ n[t] = m[t] /\ q[t] = pl[t]
                          \/ \E k \in target .. d : t = tab[k]
  BY <1>1, <1>2
<1>4. \A k \in target .. d, i \in Slots : EntryMade(m, n, tab, page, f, target, d, k, i)
  BY EntriesMade, Zenon
<1>5. d \in target .. d /\ q[tab[d]] = pl[tab[d]]
  BY <1>1, <1>2, Shape
<1>6. ASSUME NEW t \in DOMAIN q, NEW i \in Slots
      PROVE  /\ n[t][i].kind = "leaf" => \A c \in limits :
                   c.root = q[t].root /\ Covers(q, t, i, c.page) => q[t].level <= c.level
             /\ n[t][i].stale => \A c \in clear : c.root = q[t].root => ~Covers(q, t, i, c.page)
             /\ q[t].level = Levels /\ i = Fan \div 2 => n[t][i].kind # "none"
  <2>1. CASE t \in DOMAIN pl /\ n[t][i] = m[t][i] /\ q[t] = pl[t]
    BY <2>1 DEF Limited, Unstale, HalfTaken, Covers
  <2>2. CASE \E k \in target .. d : t = tab[k]
    <3>1. PICK k \in target .. d : t = tab[k]
      BY <2>2
    <3>2. q[t].root = root /\ q[t].level = k /\ q[t].at = Prefix(page, k) /\ k \in 1 .. Levels
          /\ page \in Nat
      <4>1. k \in 1 .. Levels /\ page \in Nat
        BY <1>1, PrefixEnds, Shape
      <4> QED BY <1>2, <3>1, <4>1
    <3>3. EntryMade(m, n, tab, page, f, target, d, k, i)
      BY <1>4
    <3>4. CASE k = d /\ n[t][i] = m[t][i]
      BY <1>1, <1>5, <2>1, <3>1, <3>4
    <3>5. CASE k # d /\ n[t][i] = NoEntry
      BY <1>1, <3>2, <3>5 DEF NoEntry
    <3>6. CASE k = target /\ i = Index(page, k) /\ n[t][i] = Leaf(f)
      <4>1. Prefix(page, k - 1) = Prefix(page, k) * Fan + i
        BY <3>2, <3>6, PrefixStep
      <4>2. n[t][i].kind = "leaf" /\ ~n[t][i].stale
        BY <3>6 DEF Leaf
      <4>3. ASSUME NEW c \in limits, c.root = q[t].root, Covers(q, t, i, c.page)
            PROVE  q[t].level <= c.level
        <5>1. Prefix(c.page, target - 1) = Prefix(page, target - 1)
          BY <3>2, <3>6, <4>1, <4>3 DEF Covers
        <5> QED BY <3>2, <3>6, <4>3, <5>1
      <4> QED BY <4>2, <4>3
    <3>7. CASE /\ k # target /\ i = Index(page, k) /\ n[t][i].kind = "branch"
               /\ n[t][i].stale => k = d /\ m[tab[d]][i].stale
      <4>1. n[t][i].stale => \A c \in clear : c.root = q[t].root => ~Covers(q, t, i, c.page)
        <5> SUFFICES ASSUME n[t][i].stale
                     PROVE  \A c \in clear : c.root = q[t].root => ~Covers(q, t, i, c.page)
          OBVIOUS
        <5>1. t \in DOMAIN pl /\ m[t][i].stale /\ q[t] = pl[t]
          BY <1>1, <1>5, <3>1, <3>7
        <5> QED BY <5>1 DEF Unstale, Covers
      <4> QED BY <3>7, <4>1
    <3> QED BY <3>1, <3>3, <3>4, <3>5, <3>6, <3>7 DEF EntryMade
  <2> QED BY <1>3, <2>1, <2>2
<1>7. Fan \div 2 \in Slots
  BY Shape DEF Slots
<1> QED BY <1>6, <1>7 DEF Limited, Unstale, HalfTaken

LEMMA UnmapKeepsWays ==
    ASSUME NEW m, NEW n, NEW pl, Placed(m, pl), NEW root, RootAt(pl, root),
           NEW page \in Pages, NEW t, Unmade(m, n, pl, root, page, t),
           NEW limits, Limited(m, pl, limits), NEW clear, Unstale(m, pl, clear), HalfTaken(m, pl)
    PROVE  Limited(n, pl, limits) /\ Unstale(n, pl, clear) /\ HalfTaken(n, pl)
<1>1. /\ \A s \in DOMAIN m \ {t} : n[s] = m[s]
      /\ t \in DOMAIN pl /\ pl[t] = Place(root, 1, Prefix(page, 1))
      /\ DOMAIN pl \subseteq DOMAIN m
  BY DEF Unmade, Placed, Closed
<1>2. pl[t].level # Levels
  BY <1>1, Shape DEF Place
<1>3. Emptied(m, n, t, Index(page, 1))
  BY UnmapPlaced
<1>4. \A s \in DOMAIN pl, i \in Slots :
         \/ n[s][i] = m[s][i]
         \/ n[s][i] = NoEntry /\ pl[s].level # Levels
  BY <1>1, <1>2, <1>3 DEF Emptied
<1>5. NoEntry.kind = "none" /\ ~NoEntry.stale
  BY DEF NoEntry
<1>6. Fan \div 2 \in Slots
  BY Shape DEF Slots
<1>7. Limited(n, pl, limits)
  BY <1>4, <1>5 DEF Limited
<1>8. Unstale(n, pl, clear)
  BY <1>4, <1>5 DEF Unstale
<1>9. HalfTaken(n, pl)
  BY <1>4, <1>6 DEF HalfTaken
<1> QED BY <1>7, <1>8, <1>9

LEMMA UnderEntry ==
    ASSUME NEW p \in Nat, NEW b \in Nat, NEW l \in 1 .. Levels, NEW i \in Slots,
           Prefix(p, l - 1) = b * Fan + i
    PROVE  Prefix(p, l) = b /\ Index(p, l) = i
<1>1. /\ Prefix(p, l) \in Nat /\ Index(p, l) \in Slots
      /\ Prefix(p, l - 1) = Prefix(p, l) * Fan + Index(p, l)
  BY PrefixStep
<1> DEFINE a == Prefix(p, l)
           j == Index(p, l)
<1>2. Fan * a + j = Fan * b + i /\ a \in Nat /\ j \in 0 .. Fan - 1 /\ i \in 0 .. Fan - 1
      /\ Fan \in Nat /\ Fan > 0
  BY <1>1, Shape DEF Slots
<1> DEFINE x == Fan * a + j
<1>3. x \in Nat /\ x = Fan * a + j /\ x = Fan * b + i
  BY <1>2
<1> HIDE DEF x, a, j
<1>4. x \div Fan = a /\ x % Fan = j
  BY <1>2, <1>3, DivUnique
<1>5. x \div Fan = b /\ x % Fan = i
  BY <1>2, <1>3, DivUnique
<1> QED BY <1>4, <1>5 DEF a, j

\* map panics on a leaf above its target.
LEMMA LeafPanics ==
    ASSUME NEW m, NEW S, Closed(m, S), NEW root \in S, NEW page \in Nat, NEW target \in 1 .. Levels,
           NEW d \in target + 1 .. Levels, Path(m, root, page)[d] # NoFrame,
           m[Path(m, root, page)[d]][Index(page, d)].kind = "leaf"
    PROVE  MapPanics(m, root, page, target)
<1> DEFINE path == Path(m, root, page)
           e == Deepest(m, root, page, target)
<1>1. /\ e \in target .. Levels /\ e \in 1 .. Levels
      /\ \A k \in e .. Levels : path[k] \in S
      /\ \A k \in target .. e - 1 : path[k] = NoFrame
  <2>1. EndsAt(m, S, root, page, target, e)
    BY DeepestIs
  <2> QED BY <2>1 DEF EndsAt
<1>2. \A k \in 1 .. Levels - 1 : path[k] = Under(m, path[k + 1], Index(page, k + 1))
  BY PathUnfold
<1>3. path[d] # NoFrame /\ m[path[d]][Index(page, d)].kind = "leaf" /\ NoFrame \notin S
  BY DEF Closed
<1> HIDE DEF path, e
<1>4. ~(d < e)
  BY <1>1, <1>3, Shape
<1>5. ~(e < d)
  <2> SUFFICES ASSUME e < d PROVE FALSE
    OBVIOUS
  <2>1. d - 1 \in e .. Levels /\ d - 1 \in 1 .. Levels - 1 /\ (d - 1) + 1 = d
    BY <1>1, Shape
  <2>2. path[d - 1] = NoFrame
    BY <1>2, <1>3, <2>1 DEF Under
  <2> QED BY <1>1, <1>3, <2>1, <2>2
<1>6. e = d /\ e > target
  BY <1>1, <1>4, <1>5, Shape
<1> QED
  BY <1>3, <1>6 DEF MapPanics, path, e

\* Which limits and clear ways a new root may have.
NewLimit(m, src, c) ==
    /\ c.page \in Pages
    /\ c.page \in LowerHalf \/ (c.level \in 1 .. Levels /\ ~MapPanics(m, src, c.page, c.level))

NewWay(entries, c) == c.page \in LowerHalf /\ (entries = Cleared \/ Index(c.page, Levels) # 1)

\* An entry of a new root, or of a table below it.
RootEntry(n, root, entries, m, src, p, i) ==
    /\ i \in Slots /\ Index(p, Levels) = i
    /\ p \in LowerHalf => n[root][i] = entries[i]
    /\ p \notin LowerHalf => n[root][i].kind = m[src][i].kind

LEMMA RootEntries ==
    ASSUME NEW m, NEW n, NEW q, NEW src, NEW root, NEW taken, NEW entries,
           Imaged(m, n, q, src, root, entries, taken), RootAt(q, root),
           NEW p \in Pages, NEW i \in Slots, Covers(q, root, i, p)
    PROVE  RootEntry(n, root, entries, m, src, p, i)
<1>1. q[root].level = Levels /\ q[root].at = 0 /\ Levels \in 1 .. Levels /\ p \in Nat
      /\ 0 \in Nat
  BY Shape, PrefixEnds DEF RootAt, Place
<1>2. Prefix(p, Levels - 1) = 0 * Fan + i
  BY <1>1 DEF Covers
<1>3. Index(p, Levels) = i
  <2>1. \A b \in Nat : Prefix(p, Levels - 1) = b * Fan + i => Index(p, Levels) = i
    BY <1>1, UnderEntry
  <2> QED BY <1>1, <1>2, <2>1
<1>4. p \in LowerHalf <=> Index(p, Levels) \notin UpperSlots
  BY HalfIs
<1>5. /\ \A j \in Slots \ UpperSlots : n[root][j] = entries[j]
      /\ \A j \in UpperSlots : n[root][j].kind = m[src][j].kind
  BY DEF Imaged
<1> QED BY <1>3, <1>4, <1>5 DEF RootEntry

CopyEntry(n, t, root, m, src, l, p, i) ==
    /\ l \in 1 .. Levels - 1 /\ Index(p, l) = i
    /\ p \notin LowerHalf
    /\ Path(m, src, p)[l] # NoFrame
    /\ n[t][i].kind = m[Path(m, src, p)[l]][i].kind

LEMMA CopyEntries ==
    ASSUME NEW m, NEW n, NEW q, NEW src, NEW root, NEW taken, NEW entries,
           Imaged(m, n, q, src, root, entries, taken), NEW t \in taken \ {root},
           NEW p \in Pages, NEW i \in Slots, Covers(q, t, i, p)
    PROVE  CopyEntry(n, t, root, m, src, q[t].level, p, i)
<1>1. PICK l \in 1 .. Levels - 1, b \in Pages :
          /\ Index(b, Levels) \in UpperSlots
          /\ Path(m, src, b)[l] # NoFrame
          /\ q[t] = Place(root, l, Prefix(b, l))
          /\ \A j \in Slots : n[t][j].kind = m[Path(m, src, b)[l]][j].kind
  BY DEF Imaged
<1>2. q[t].level = l /\ q[t].at = Prefix(b, l)
  BY <1>1 DEF Place
<1>3. l \in 1 .. Levels /\ l \in 0 .. Levels /\ l \in 0 .. Levels - 1 /\ p \in Nat /\ b \in Nat
      /\ l >= l
  BY Shape, PrefixEnds
<1>4. Prefix(b, l) \in Nat
  BY <1>3, PrefixStep
<1>5. Prefix(p, l) = Prefix(b, l) /\ Index(p, l) = i
  BY <1>2, <1>3, <1>4, UnderEntry DEF Covers
<1>6. Path(m, src, p)[l] = Path(m, src, b)[l]
  BY <1>3, <1>5, PathShared
<1>7. p \notin LowerHalf
  <2>1. b \notin LowerHalf
    BY <1>1, HalfIs
  <2> QED BY <1>3, <1>5, <2>1, SameHalf
<1> QED BY <1>1, <1>2, <1>5, <1>6, <1>7 DEF CopyEntry

\* Every table belongs to a root.
Homed(pl) == \A t \in DOMAIN pl : pl[t].root \in DOMAIN pl

\* No leaf too high, no stale entry on the way, and the upper half in use.
Fine(m, pl, limits, clear) ==
    Homed(pl) /\ Limited(m, pl, limits) /\ Unstale(m, pl, clear) /\ HalfTaken(m, pl)

NewLimits(m, src, root, limits, limits2) ==
    \A c \in limits2 : IF c.root = root THEN NewLimit(m, src, c) ELSE c \in limits
NewWays(entries, root, clear, clear2) ==
    \A c \in clear2 : IF c.root = root THEN NewWay(entries, c) ELSE c \in clear

\* A new root has no leaf in its lower half, and in the upper one where src has them.
LEMMA CloneKeepsWays ==
    ASSUME NEW m, NEW n, NEW pl, NEW q, NEW src, NEW root, NEW taken, NEW entries \in {Cleared, Linked},
           NEW S, Closed(m, S), src \in S, DOMAIN pl \subseteq DOMAIN m, root \notin DOMAIN m,
           NewSpace(m, n, pl, q, src, root, taken), Imaged(m, n, q, src, root, entries, taken),
           NEW limits, NEW clear, Fine(m, pl, limits, clear), m[src][Fan \div 2].kind # "none",
           NEW limits2, NewLimits(m, src, root, limits, limits2),
           NEW clear2, NewWays(entries, root, clear, clear2)
    PROVE  Fine(n, q, limits2, clear2)
<1>0. /\ Homed(pl) /\ Limited(m, pl, limits) /\ Unstale(m, pl, clear) /\ HalfTaken(m, pl)
      /\ \A c \in limits2 : IF c.root = root THEN NewLimit(m, src, c) ELSE c \in limits
      /\ \A c \in clear2 : IF c.root = root THEN NewWay(entries, c) ELSE c \in clear
  BY DEF Fine, NewLimits, NewWays
<1>1. /\ DOMAIN q = DOMAIN pl \cup taken
      /\ \A t \in DOMAIN m : n[t] = m[t]
      /\ \A t \in DOMAIN pl : q[t] = pl[t]
      /\ RootAt(q, root)
  BY DEF NewSpace
<1>2. /\ \A i \in Slots : entries[i].kind = "none"
      /\ \A i \in Slots : entries[i].stale => entries # Cleared /\ i = 1
  <2>1. \A i \in Slots : ~Cleared[i].stale
    BY DEF Cleared, NoEntry
  <2>2. \A i \in Slots : Linked[i].stale => i = 1
    BY DEF Linked, Unwiped, Cleared, NoEntry
  <2> QED BY <2>1, <2>2, BareEntries
<1>3. \A t \in DOMAIN pl : q[t] = pl[t] /\ n[t] = m[t] /\ q[t].root # root
  BY <1>0, <1>1 DEF Homed
<1>4. \A c \in limits2 : c.root = root => c.page \in Pages /\ NewLimit(m, src, c)
  BY <1>0 DEF NewLimit
<1>5. \A c \in clear2 : c.root = root => c.page \in Pages /\ NewWay(entries, c)
  BY <1>0, LowerPages DEF NewWay
<1>6. ASSUME NEW t \in taken \ {root}
      PROVE  q[t].root = root /\ q[t].level \in 1 .. Levels - 1
  <2>1. \E l \in 1 .. Levels - 1, b \in Pages : q[t] = Place(root, l, Prefix(b, l))
    BY DEF Imaged
  <2> QED BY <2>1 DEF Place
<1>7. q[root].root = root /\ q[root].level = Levels /\ Levels \in 1 .. Levels
  BY <1>1, Shape DEF RootAt, Place
<1>8. ASSUME NEW p \in Pages, NEW l \in 1 .. Levels, NEW i \in Slots, Path(m, src, p)[l] # NoFrame,
             Index(p, l) = i, m[Path(m, src, p)[l]][i].kind = "leaf",
             NEW c \in limits2, c.root = root, c.page = p, p \notin LowerHalf
      PROVE  l <= c.level
  <2>1. c.level \in 1 .. Levels /\ ~MapPanics(m, src, p, c.level) /\ p \in Nat
    BY <1>4, <1>8, PrefixEnds DEF NewLimit
  <2>2. l \notin c.level + 1 .. Levels
    BY <1>8, <2>1, LeafPanics
  <2> QED BY <2>1, <2>2, Shape
<1>9. Limited(n, q, limits2)
  <2> SUFFICES ASSUME NEW t \in DOMAIN q, NEW i \in Slots, n[t][i].kind = "leaf",
                      NEW c \in limits2, c.root = q[t].root, Covers(q, t, i, c.page)
               PROVE  q[t].level <= c.level
    BY DEF Limited
  <2>1. CASE t \in DOMAIN pl
    <3>1. c \in limits
      BY <1>0, <1>3, <2>1
    <3> QED BY <1>0, <1>3, <2>1, <3>1 DEF Limited, Covers
  <2> DEFINE p == c.page
  <2>2. CASE t = root
    <3>1. p \in Pages
      BY <1>4, <1>7, <2>2
    <3>2. RootEntry(n, root, entries, m, src, p, i)
      BY <1>1, <2>2, <3>1, RootEntries
    <3>3. p \notin LowerHalf /\ m[src][i].kind = "leaf" /\ Index(p, Levels) = i
      BY <1>2, <2>2, <3>2 DEF RootEntry
    <3>4. Path(m, src, p)[Levels] = src /\ src # NoFrame
      BY PathUnfold DEF Closed
    <3> QED BY <1>7, <1>8, <2>2, <3>1, <3>3, <3>4
  <2>3. CASE t \in taken \ {root}
    <3>1. p \in Pages /\ q[t].root = root /\ q[t].level \in 1 .. Levels
      BY <1>4, <1>6, <2>3, Shape
    <3>2. CopyEntry(n, t, root, m, src, q[t].level, p, i)
      BY <2>3, <3>1, CopyEntries
    <3> QED BY <1>8, <3>1, <3>2 DEF CopyEntry
  <2> QED BY <1>1, <2>1, <2>2, <2>3
<1>10. Unstale(n, q, clear2)
  <2> SUFFICES ASSUME NEW t \in DOMAIN q, NEW i \in Slots, n[t][i].stale,
                      NEW c \in clear2, c.root = q[t].root, Covers(q, t, i, c.page)
               PROVE  FALSE
    BY DEF Unstale
  <2>1. CASE t \in DOMAIN pl
    <3>1. c \in clear
      BY <1>0, <1>3, <2>1
    <3> QED BY <1>0, <1>3, <2>1, <3>1 DEF Unstale, Covers
  <2> DEFINE p == c.page
  <2>2. CASE t = root
    <3>1. p \in Pages /\ NewWay(entries, c)
      BY <1>5, <1>7, <2>2
    <3>2. RootEntry(n, root, entries, m, src, p, i)
      BY <1>1, <2>2, <3>1, RootEntries
    <3> QED BY <1>2, <2>2, <3>1, <3>2 DEF RootEntry, NewWay
  <2>3. CASE t \in taken \ {root}
    <3>1. p \in Pages /\ p \in LowerHalf
      BY <1>5, <1>6, <2>3 DEF NewWay
    <3>2. CopyEntry(n, t, root, m, src, q[t].level, p, i)
      BY <2>3, <3>1, CopyEntries
    <3> QED BY <3>1, <3>2 DEF CopyEntry
  <2> QED BY <1>1, <2>1, <2>2, <2>3
<1>11. HalfTaken(n, q)
  <2>1. Fan \div 2 \in UpperSlots
    BY Shape DEF UpperSlots
  <2>2. n[root][Fan \div 2].kind = m[src][Fan \div 2].kind
    BY <2>1 DEF Imaged
  <2> SUFFICES ASSUME NEW t \in DOMAIN q, q[t].level = Levels
               PROVE  n[t][Fan \div 2].kind # "none"
    BY DEF HalfTaken
  <2>3. t \notin taken \ {root}
    BY <1>6, Shape
  <2> QED BY <1>0, <1>1, <1>3, <2>2, <2>3 DEF HalfTaken
<1>12. Homed(q)
  BY <1>0, <1>1, <1>3, <1>6, <1>7 DEF Homed, RootAt
<1> QED BY <1>9, <1>10, <1>11, <1>12 DEF Fine

-----------------------------------------------------------------------------
(* What a program, and the table it is loaded into, look like                *)

\* Ways the processor finds, and how deep leaves have to lie.
Clear == {c \in [root : Roots, page : LowerHalf] : c.root = kernel \/ Index(c.page, Levels) # 1}

Limits ==
    {c \in [root : Nat, page : Pages, level : 1 .. Levels] :
        \/ Booted /\ c.root = kernel /\ c.page \in LowerHalf /\ c.level = 1
        \/ work.op = "load" /\ c.root = work.root /\ c.page \in LowerHalf /\ c.level = 1
        \/ work.op = "stack" /\ c.root = work.root /\ c.page \in LowerHalf /\ c.level = 2
        \/ work.op = "init" /\ c.root = kernel
             /\ \E i \in DOMAIN work.todo : c.page = work.todo[i].page /\ c.level = work.todo[i].target}

WaysInv == \E pl : Trees(mem, pl, Roots) /\ Fine(mem, pl, Limits, Clear)

\* Every root agrees with the kernel's on the upper half.
HalfInv ==
    /\ ~Booted \/ work.op = "init" => harts = {} /\ tasks = << >>
    /\ Booted /\ work.op # "init" =>
          \A r \in Roots, p \in Pages, hard \in BOOLEAN :
             p \notin LowerHalf => Frame(mem, r, p, hard) = Frame(mem, kernel, p, hard)

\* No program has the kernel's root or that of the program being loaded.
RootsInv ==
    /\ \A t \in DOMAIN tasks : tasks[t].root # kernel
    /\ \A t \in DOMAIN tasks : Loading => tasks[t].root # work.root

Code(segments) == UNION {Section(segments[i].page, segments[i].pages) : i \in DOMAIN segments}
Block(r) == Section(r.page, Span(r.target))
TodoBlocks == UNION {Block(work.todo[i]) : i \in DOMAIN work.todo}
StackOf(base) == Section(base, StackBlocks * Span(2))
Apart(segments) ==
    \A i, j \in DOMAIN segments : i # j =>
        Section(segments[i].page, segments[i].pages)
          \cap Section(segments[j].page, segments[j].pages) = {}

\* The pages of the program that is being loaded that are mapped by now.
LoadedPages ==
    ((Code(Programs[Len(tasks) + 1]) \ Code(work.segments))
       \cup (IF work.op = "stack" THEN StackOf(work.stack) ELSE {})) \ TodoBlocks

\* All the pages it will have.
ProgramPages ==
    Code(Programs[Len(tasks) + 1]) \cup (IF work.op = "stack" THEN StackOf(work.stack) ELSE {})

\* A request of the loader: a block of the lower half, and memory for all of it.
Request2(r) ==
    /\ r.target = (IF work.op = "load" THEN 1 ELSE 2)
    /\ r.page % Span(r.target) = 0 /\ Block(r) \subseteq LowerHalf
    /\ r.frame # NoFrame /\ r.frame % Span(r.target) = 0
    /\ \A g \in Section(r.frame, Span(r.target)) : g \in Usable /\ g \notin Holds(free)

LoadInv ==
    Loading =>
        /\ \A i \in DOMAIN work.todo : Request2(work.todo[i])
        /\ \A i, j \in DOMAIN work.todo : work.todo[i].page = work.todo[j].page => i = j
        /\ \A p \in LowerHalf : virt_to_phys(mem, work.root, p) # NoFrame <=> p \in LoadedPages
        /\ Apart(work.segments) /\ Code(work.segments) \cap TodoBlocks = {}
        /\ Code(work.segments) \cup TodoBlocks \subseteq ProgramPages
        /\ work.op = "stack" => work.segments = << >>

\* A loaded program has its segments and its stack, and nothing else.
ProgInv ==
    \A t \in DOMAIN tasks :
        /\ t \in DOMAIN Programs /\ tasks[t].segments = Programs[t]
        /\ \A p \in LowerHalf : virt_to_phys(mem, tasks[t].root, p) # NoFrame
              <=> p \in Code(tasks[t].segments) \cup StackOf(tasks[t].stack)

\* The blocks of IO that are still to be mapped are not those that are.
IoInv ==
    work.op = "init" => \A i \in DOMAIN work.todo :
        LET r == work.todo[i] IN
        /\ r.frame # NoFrame /\ r.frame % Span(r.target) = 0
        /\ \A g \in Section(r.frame, Span(r.target)) : g \notin Usable
        /\ \A j \in DOMAIN work.todo : i # j =>
              Prefix(work.todo[j].page, r.target - 1) # Prefix(r.page, r.target - 1)

Whole == /\ Inv /\ ~panicked /\ WaysInv /\ HalfInv /\ RootsInv /\ LoadInv /\ ProgInv /\ IoInv

-----------------------------------------------------------------------------
(* Steps that leave the tables alone                                        *)

Allowed == [root : Nat, page : Pages, level : 1 .. Levels]

LEMMA WeakerLimits ==
    ASSUME NEW m, NEW pl, Placed(m, pl), NEW limits, limits \subseteq Allowed,
           NEW limits2, limits2 \subseteq Allowed,
           \A c \in limits2 : \E b \in limits : b.root = c.root /\ b.page = c.page /\ b.level <= c.level,
           Limited(m, pl, limits)
    PROVE  Limited(m, pl, limits2)
<1> SUFFICES ASSUME NEW t \in DOMAIN pl, NEW i \in Slots, m[t][i].kind = "leaf",
                    NEW c \in limits2, c.root = pl[t].root, Covers(pl, t, i, c.page)
             PROVE  pl[t].level <= c.level
  BY DEF Limited
<1>1. PICK b \in limits : b.root = c.root /\ b.page = c.page /\ b.level <= c.level
  OBVIOUS
<1>2. pl[t].level <= b.level
  BY <1>1 DEF Limited
<1>3. pl[t].level \in 1 .. Levels /\ b.level \in 1 .. Levels /\ c.level \in 1 .. Levels
  BY DEF Placed, Places, Allowed
<1> QED BY <1>1, <1>2, <1>3, Shape

LEMMA LimitsAllowed == Limits \subseteq Allowed
BY DEF Limits, Allowed

LEMMA WaysStill ==
    ASSUME WaysInv, mem' = mem, Roots' \subseteq Roots, Limits' \subseteq Allowed, Clear' \subseteq Clear,
           \A c \in Limits' : \E b \in Limits : b.root = c.root /\ b.page = c.page /\ b.level <= c.level
    PROVE  WaysInv'
<1>1. PICK pl : Trees(mem, pl, Roots) /\ Fine(mem, pl, Limits, Clear)
  BY DEF WaysInv
<1>2. Trees(mem, pl, Roots')
  BY <1>1 DEF Trees
<1>3. Limited(mem, pl, Limits')
  <2>1. Placed(mem, pl) /\ Limited(mem, pl, Limits)
    BY <1>1 DEF Trees, Fine
  <2> QED BY <2>1, LimitsAllowed, WeakerLimits
<1>4. Unstale(mem, pl, Clear')
  BY <1>1 DEF Fine, Unstale
<1>5. Fine(mem, pl, Limits', Clear')
  BY <1>1, <1>3, <1>4 DEF Fine
<1> QED BY <1>2, <1>5 DEF WaysInv

\* Beginning or ending a call of a Vmm, or the end of vmm::init.
LEMMA QuietStep ==
    ASSUME Whole, UNCHANGED <<mem, kernel, tasks, harts, panicked>>, ~Loading, ~Loading',
           work'.op # "init"
    PROVE  ~panicked' /\ WaysInv' /\ HalfInv' /\ RootsInv' /\ LoadInv' /\ ProgInv' /\ IoInv'
<1>1. /\ ~panicked /\ WaysInv /\ HalfInv /\ RootsInv /\ ProgInv
      /\ mem' = mem /\ kernel' = kernel /\ tasks' = tasks /\ harts' = harts /\ panicked' = panicked
  BY DEF Whole
<1>2. Roots' = Roots /\ Booted' = Booted
  BY <1>1 DEF Roots, Booted
<1>3. work'.op \notin {"load", "stack", "init"}
  BY DEF Loading
<1>4. Limits' \subseteq Limits
  BY <1>1, <1>2, <1>3 DEF Limits, LowerHalf, Half
<1>5. Clear' = Clear
  BY <1>1, <1>2 DEF Clear, LowerHalf, Half
<1>6. WaysInv'
  <2>1. Limits' \subseteq Allowed
    BY <1>4, LimitsAllowed
  <2>2. \A c \in Limits' : c \in Limits /\ c.level <= c.level
    BY <1>4, LimitsAllowed, Shape DEF Allowed
  <2> QED BY <1>1, <1>2, <1>5, <2>1, <2>2, WaysStill
<1>7. HalfInv'
  <2>1. ~Booted => harts = {} /\ tasks = << >>
    BY <1>1 DEF HalfInv
  <2>2. ASSUME Booted, NEW r \in Roots, NEW p \in Pages, NEW hard \in BOOLEAN, p \notin LowerHalf
        PROVE  Frame(mem, r, p, hard) = Frame(mem, kernel, p, hard)
    <3>1. CASE work.op = "init"
      <4>1. r = kernel
        BY <1>1, <2>2, <3>1 DEF HalfInv, Roots
      <4> QED BY <4>1
    <3>2. CASE work.op # "init"
      BY <1>1, <2>2, <3>2 DEF HalfInv
    <3> QED BY <3>1, <3>2
  <2> QED BY <1>1, <1>2, <1>3, <2>1, <2>2 DEF HalfInv, LowerHalf, Half
<1>8. RootsInv'
  BY <1>1 DEF RootsInv
<1>9. LoadInv' /\ IoInv'
  BY <1>3 DEF LoadInv, IoInv, Loading
<1>10. ProgInv'
  BY <1>1 DEF ProgInv, LowerHalf, Half, Code, StackOf
<1> QED BY <1>1, <1>6, <1>7, <1>8, <1>9, <1>10

\* Steps that only touch satp, the cached translations or counters.
LEMMA SameStep ==
    ASSUME Whole, UNCHANGED <<mem, free, kernel, tasks, harts, work, panicked>>
    PROVE  ~panicked' /\ WaysInv' /\ HalfInv' /\ RootsInv' /\ LoadInv' /\ ProgInv' /\ IoInv'
<1>1. /\ ~panicked /\ WaysInv /\ HalfInv /\ RootsInv /\ LoadInv /\ ProgInv /\ IoInv
      /\ mem' = mem /\ kernel' = kernel /\ tasks' = tasks /\ harts' = harts /\ panicked' = panicked
      /\ free' = free /\ work' = work
  BY DEF Whole
<1>2. Roots' = Roots /\ Booted' = Booted /\ Loading' = Loading
  BY <1>1 DEF Roots, Booted, Loading
<1>3. Limits' = Limits /\ Clear' = Clear
  BY <1>1, <1>2 DEF Limits, Clear, LowerHalf, Half
<1>4. WaysInv'
  BY <1>1, <1>2, <1>3 DEF WaysInv
<1>5. HalfInv' /\ RootsInv' /\ ProgInv'
  BY <1>1, <1>2 DEF HalfInv, RootsInv, ProgInv, LowerHalf, Half, Code, StackOf
<1>6. LoadedPages' = LoadedPages /\ ProgramPages' = ProgramPages
  BY <1>1 DEF LoadedPages, ProgramPages, Code, StackOf, TodoBlocks, Block
<1>7. \A r : Request2(r) <=> Request2(r)'
  BY <1>1 DEF Request2, Block, Holds, Usable, LowerHalf, Half
<1>8. LoadInv'
  <2>1. /\ Code(work.segments)' = Code(work.segments) /\ TodoBlocks' = TodoBlocks
        /\ Apart(work.segments)' = Apart(work.segments)
    BY <1>1 DEF Apart, Code, Section, TodoBlocks, Block
  <2>2. \A i \in DOMAIN work.todo : Request2(work.todo[i])' <=> Request2(work.todo[i])
    BY <1>1 DEF Request2, Block, Holds, Usable, LowerHalf, Half
  <2> QED BY <1>1, <1>2, <1>6, <2>1, <2>2 DEF LoadInv, LowerHalf, Half
<1>9. IoInv'
  BY <1>1 DEF IoInv, Usable
<1> QED BY <1>1, <1>4, <1>5, <1>8, <1>9

LEMMA QuietSteps ==
    ASSUME Whole, InitDone \/ CallDone \/ (\E c \in Calls : Alloc(c)) \/ \E s \in sections : Free(s)
    PROVE  ~panicked' /\ WaysInv' /\ HalfInv' /\ RootsInv' /\ LoadInv' /\ ProgInv' /\ IoInv'
<1>1. UNCHANGED <<mem, kernel, tasks, harts, panicked>>
  BY DEF InitDone, CallDone, Alloc, Free
<1>2. Ready \/ Ended("init") \/ Ended("alloc") \/ Ended("free")
  BY DEF InitDone, CallDone, Alloc, Free, AtBoot
<1>3. ~Loading
  BY <1>2 DEF Ready, Ended, Loading, Idle
<1>4. work'.op \in {"idle", "alloc", "free"}
  <2>1. \A op, root, todo : [Idle EXCEPT !.op = op, !.root = root, !.todo = todo].op = op
    BY DEF Idle
  <2>2. CASE InitDone \/ CallDone
    BY <2>2 DEF InitDone, CallDone, Idle
  <2>3. CASE \E c \in Calls : Alloc(c)
    <3>1. \E todo : work' = [Idle EXCEPT !.op = "alloc", !.root = satp, !.todo = todo]
      BY <2>3, Zenon DEF Alloc
    <3> QED BY <2>1, <3>1
  <2>4. CASE \E s \in sections : Free(s)
    <3>1. \E todo : work' = [Idle EXCEPT !.op = "free", !.root = satp, !.todo = todo]
      BY <2>4, Zenon DEF Free
    <3> QED BY <2>1, <3>1
  <2> QED BY <2>2, <2>3, <2>4
<1>5. ~Loading' /\ work'.op # "init"
  BY <1>4 DEF Loading
<1> QED BY <1>1, <1>3, <1>5, QuietStep

\* What Whole asks for besides Inv.
Rest == ~panicked /\ WaysInv /\ HalfInv /\ RootsInv /\ LoadInv /\ ProgInv /\ IoInv

LEMMA BlockIs ==
    ASSUME NEW page \in Nat, NEW l \in 0 .. Levels, page % Power[l] = 0, NEW p \in Nat
    PROVE  p \in Section(page, Power[l]) <=> Prefix(p, l) = Prefix(page, l)
<1> DEFINE d == Power[l]
           s == page \div d
<1>1. d \in Nat /\ d > 0
  BY PowerFacts
<1> HIDE DEF d
<1>2. s \in Nat /\ page = d * s + (page % d) /\ page % d = 0 /\ d * s \in Nat
  <2>1. s \in Nat /\ page = d * s + (page % d)
    BY <1>1, Division
  <2>2. page % d = 0
    BY DEF d
  <2> HIDE DEF s
  <2> QED BY <1>1, <2>1, <2>2
<1>3. page = d * s
  BY <1>1, <1>2
<1>4. p \div d \in Nat /\ p % d \in 0 .. d - 1 /\ p = d * (p \div d) + (p % d)
  BY <1>1, Division
<1> HIDE DEF s
<1>5. CASE p \in Section(page, d)
  <2> DEFINE u == p - page
  <2>1. u \in 0 .. d - 1 /\ p = page + u
    BY <1>1, <1>5 DEF Section
  <2> HIDE DEF u
  <2>2. p = d * s + u
    BY <1>1, <1>2, <1>3, <2>1
  <2>3. p \div d = s
    BY <1>1, <1>2, <2>1, <2>2, DivUnique
  <2> QED BY <1>5, <2>3 DEF Prefix, d, s
<1>6. CASE p \div d = s
  <2>1. p = page + (p % d)
    BY <1>1, <1>3, <1>4, <1>6
  <2>2. p \in Section(page, d)
    BY <1>1, <1>4, <2>1 DEF Section
  <2> QED BY <1>6, <2>2 DEF Prefix, d, s
<1> QED BY <1>5, <1>6 DEF Prefix, d, s

LEMMA LoadDoneRest ==
    ASSUME Whole, LoadDone
    PROVE  Rest'
<1> DEFINE task == [root |-> work.root, segments |-> Programs[Len(tasks) + 1],
                    stack |-> work.stack]
           n == Len(tasks) + 1
<1>1. /\ work.op = "stack" /\ tasks' = Append(tasks, task) /\ work' = Idle /\ work.todo = << >>
      /\ UNCHANGED <<mem, free, kernel, satp, harts, sections, tlb, panicked>>
  BY DEF LoadDone, Ended
<1>2. Inv /\ ~panicked /\ WaysInv /\ HalfInv /\ RootsInv /\ LoadInv /\ ProgInv /\ WorkInv
  BY DEF Whole, Inv
<1>3. Loading /\ Booted /\ work.root # kernel /\ n \in DOMAIN Programs /\ tasks \in Seq(Tasks)
      /\ n \in Nat
  <2>1. Programs \in Seq(Seq(Segments))
    BY RequestAssumption DEF RequestAssumption, Segments
  <2> QED BY <1>1, <1>2, <2>1 DEF Loading, WorkInv
<1>4. /\ DOMAIN tasks' = DOMAIN tasks \cup {n} /\ n \notin DOMAIN tasks
      /\ tasks'[n] = task
      /\ \A t \in DOMAIN tasks : tasks'[t] = tasks[t]
  <2> HIDE DEF task
  <2> QED BY <1>1, <1>3
<1>5. task.root = work.root /\ task.segments = Programs[n] /\ task.stack = work.stack
  OBVIOUS
<1> HIDE DEF task, n
<1>6. Roots' = Roots /\ Booted' /\ ~Loading' /\ work'.op = "idle"
  <2>1. {tasks'[t].root : t \in DOMAIN tasks'} = {tasks[t].root : t \in DOMAIN tasks} \cup {work.root}
    BY <1>4, <1>5
  <2> QED BY <1>1, <1>3, <2>1, IdleIs DEF Roots, Loading, Booted
<1>7. Limits' \subseteq Limits /\ Clear' = Clear
  BY <1>1, <1>3, <1>6 DEF Limits, Clear, LowerHalf, Half, Booted
<1>8. WaysInv'
  <2>1. Limits' \subseteq Allowed
    BY <1>7, LimitsAllowed
  <2>2. \A c \in Limits' : c \in Limits /\ c.level <= c.level
    BY <1>7, LimitsAllowed, Shape DEF Allowed
  <2> QED BY <1>1, <1>2, <1>6, <1>7, <2>1, <2>2, WaysStill
<1>9. HalfInv'
  BY <1>1, <1>2, <1>3, <1>6 DEF HalfInv, LowerHalf, Half
<1>10. RootsInv'
  <2>1. \A t \in DOMAIN tasks' : tasks'[t].root # kernel'
    BY <1>1, <1>2, <1>3, <1>4, <1>5 DEF RootsInv
  <2> QED BY <1>6, <2>1 DEF RootsInv
<1>11. LoadInv' /\ IoInv'
  BY <1>6 DEF LoadInv, IoInv
<1>12. LoadedPages = Code(Programs[n]) \cup StackOf(work.stack)
  <2>1. work.segments = << >>
    BY <1>1, <1>2, <1>3 DEF LoadInv
  <2>2. Code(work.segments) = {} /\ TodoBlocks = {}
    BY <1>1, <2>1 DEF Code, TodoBlocks
  <2> QED BY <1>1, <2>2 DEF LoadedPages, n
<1>13. ProgInv'
  <2>1. \A t \in DOMAIN tasks' :
          /\ t \in DOMAIN Programs /\ tasks'[t].segments = Programs[t]
          /\ \A p \in LowerHalf : virt_to_phys(mem', tasks'[t].root, p) # NoFrame
                <=> p \in Code(tasks'[t].segments) \cup StackOf(tasks'[t].stack)
    <3> SUFFICES ASSUME NEW t \in DOMAIN tasks'
                 PROVE  /\ t \in DOMAIN Programs /\ tasks'[t].segments = Programs[t]
                        /\ \A p \in LowerHalf : virt_to_phys(mem', tasks'[t].root, p) # NoFrame
                              <=> p \in Code(tasks'[t].segments) \cup StackOf(tasks'[t].stack)
      OBVIOUS
    <3>1. CASE t \in DOMAIN tasks
      BY <1>1, <1>2, <1>4, <3>1 DEF ProgInv
    <3>2. CASE t = n
      <4>1. \A p \in LowerHalf : virt_to_phys(mem, work.root, p) # NoFrame <=> p \in LoadedPages
        BY <1>2, <1>3 DEF LoadInv
      <4> QED BY <1>1, <1>3, <1>4, <1>5, <1>12, <3>2, <4>1
    <3> QED BY <1>4, <3>1, <3>2
  <2> QED BY <2>1 DEF ProgInv, LowerHalf, Half, Code, StackOf
<1> QED BY <1>1, <1>2, <1>8, <1>9, <1>10, <1>11, <1>13 DEF Rest

LEMMA OnePage ==
    /\ Span(1) = 1
    /\ \A x \in Nat : x % Span(1) = 0 /\ Section(x, Span(1)) = {x}
<1>1. Span(1) = 1
  BY PowerFacts DEF Span
<1>2. \A x \in Nat : x % 1 = 0
  OBVIOUS
<1>3. \A x \in Nat : Section(x, 1) = {x}
  BY DEF Section
<1> QED BY <1>1, <1>2, <1>3

\* The next segment or the stack is asked for: no table changes.
LEMMA SameWays ==
    ASSUME Whole, UNCHANGED <<mem, kernel, tasks, harts, panicked>>, Loading, Loading',
           work'.root = work.root, work'.op = work.op \/ work'.op = "stack"
    PROVE  ~panicked' /\ WaysInv' /\ HalfInv' /\ RootsInv' /\ ProgInv' /\ IoInv' /\ Roots' = Roots
<1>1. /\ ~panicked /\ WaysInv /\ HalfInv /\ RootsInv /\ ProgInv /\ Inv
      /\ mem' = mem /\ kernel' = kernel /\ tasks' = tasks /\ harts' = harts /\ panicked' = panicked
  BY DEF Whole
<1>2. Roots' = Roots /\ Booted' = Booted
  BY <1>1 DEF Roots, Booted
<1>3. Clear' = Clear
  BY <1>1, <1>2 DEF Clear, LowerHalf, Half
<1>4. WaysInv'
  <2>1. Limits' \subseteq Allowed
    BY DEF Limits, Allowed, LowerHalf, Half
  <2>2. ASSUME NEW c \in Limits'
        PROVE  \E b \in Limits : b.root = c.root /\ b.page = c.page /\ b.level <= c.level
    <3>0. c.level \in 1 .. Levels /\ 1 \in 1 .. Levels /\ 1 <= c.level
      BY <2>1, Shape DEF Allowed
    <3>1. CASE c \in Limits
      BY <3>0, <3>1, Shape
    <3>2. CASE work.op = "load" /\ c.root = work.root /\ c.page \in LowerHalf /\ c.level = 2
      <4> DEFINE b == Limit(c.root, c.page, 1)
      <4>1. b.root = c.root /\ b.page = c.page /\ b.level = 1
            /\ b \in [root : Nat, page : Pages, level : 1 .. Levels]
        BY <2>1, <3>0 DEF Limit, Allowed
      <4> HIDE DEF b
      <4>2. b \in Limits
        BY <3>2, <4>1 DEF Limits
      <4> QED BY <3>0, <4>1, <4>2
    <3>3. work.op \in {"load", "stack"} /\ work'.op \in {"load", "stack"} /\ work'.op # "init"
          /\ work.op # "init"
      BY DEF Loading
    <3>4. c \in Limits \/ (work.op = "load" /\ c.root = work.root /\ c.page \in LowerHalf /\ c.level = 2)
      BY <1>1, <1>2, <3>3 DEF Limits, LowerHalf, Half
    <3> QED BY <3>1, <3>2, <3>4
  <2> QED BY <1>1, <1>2, <1>3, <2>1, <2>2, WaysStill
<1>5. work.op # "init" /\ work'.op # "init"
  BY DEF Loading
<1>6. HalfInv' /\ RootsInv'
  BY <1>1, <1>2, <1>5 DEF HalfInv, RootsInv, LowerHalf, Half
<1>7. ProgInv' /\ IoInv'
  BY <1>1, <1>5 DEF ProgInv, IoInv, LowerHalf, Half, Code, StackOf
<1> QED BY <1>1, <1>2, <1>4, <1>6, <1>7

LEMMA LoadSegmentRest ==
    ASSUME Whole, LoadSegment
    PROVE  Rest'
<1>1. /\ work.op = "load" /\ work.todo = << >>
      /\ UNCHANGED <<mem, kernel, satp, tasks, harts, sections, tlb, panicked>>
  BY DEF LoadSegment, Ended
<1>2. Inv /\ LoadInv /\ WorkInv
  BY DEF Whole, Inv
<1> DEFINE s == Head(work.segments)
           segs == work.segments
           rest == Tail(work.segments)
           page == s.page
           n == s.pages
<1>3. /\ s = segs[1] /\ 1 \in DOMAIN segs /\ page \in Nat /\ n \in Nat
      /\ \A j \in DOMAIN rest : j + 1 \in DOMAIN segs /\ j + 1 # 1 /\ rest[j] = segs[j + 1]
      /\ \A j \in DOMAIN segs : j # 1 => j - 1 \in DOMAIN rest /\ rest[j - 1] = segs[j]
      /\ work'.op = "load" /\ work'.root = work.root /\ work'.segments = rest
      /\ DOMAIN segs \subseteq Nat /\ DOMAIN rest \subseteq Nat
  <2>1. s \in Segments
    BY <1>2, LoadSegmentIs DEF SegmentMade
  <2>2. s.page \in Nat /\ s.pages \in Nat
    BY <2>1 DEF Segments
  <2>3. /\ s = segs[1] /\ 1 \in DOMAIN segs
        /\ \A j \in DOMAIN rest : j + 1 \in DOMAIN segs /\ j + 1 # 1 /\ rest[j] = segs[j + 1]
        /\ \A j \in DOMAIN segs : j # 1 => j - 1 \in DOMAIN rest /\ rest[j - 1] = segs[j]
        /\ work'.op = "load" /\ work'.root = work.root /\ work'.segments = rest
    BY <1>2, LoadSegmentIs DEF SegmentMade
  <2>4. segs \in Seq(Segments) /\ work' \in Works
    BY <1>2, LoadSegmentIs DEF WorkInv, Works, SegmentMade
  <2>5. rest \in Seq(Segments)
    BY <2>3, <2>4 DEF Works
  <2> HIDE DEF segs, rest
  <2>6. DOMAIN segs \subseteq Nat /\ DOMAIN rest \subseteq Nat
    BY <2>4, <2>5
  <2> QED BY <2>2, <2>3, <2>6
<1>4. PICK frames : /\ PageByPage(work'.todo, page, n, frames)
                    /\ \A k \in 1 .. n : frames[k] \in Usable /\ frames[k] \notin Holds(free')
  BY <1>2, LoadSegmentIs DEF SegmentMade
<1> DEFINE list == work'.todo
<1>5. /\ DOMAIN list = 1 .. n
      /\ \A k \in 1 .. n : /\ list[k].page \in LowerHalf /\ list[k].target = 1
                           /\ list[k].page \in Nat /\ list[k].frame = frames[k]
      /\ \A j, k \in DOMAIN list : list[j].page = list[k].page => j = k
      /\ {list[k].page : k \in DOMAIN list} = Section(page, n)
  BY <1>4, LowerPages DEF PageByPage
<1>6. Loading /\ Loading'
  BY <1>1, <1>3 DEF Loading
<1>7. ~panicked' /\ WaysInv' /\ HalfInv' /\ RootsInv' /\ ProgInv' /\ IoInv'
  BY <1>1, <1>3, <1>6, SameWays
<1> HIDE DEF s, page, n, segs, rest
<1>8. \A k \in 1 .. n : Block(list[k]) = {list[k].page}
  BY <1>5, OnePage DEF Block
<1>9. \A k \in DOMAIN work'.todo : Request2(work.todo[k])'
  <2> SUFFICES ASSUME NEW k \in 1 .. n
               PROVE  Request2(work.todo[k])'
    BY <1>5
  <2> DEFINE f == list[k].frame
  <2>1. f \in Usable /\ f \notin Holds(free') /\ f \in Nat /\ f # NoFrame
    BY <1>4, <1>5, MemoryFacts
  <2>2. f % Span(1) = 0 /\ Section(f, Span(1)) = {f}
    BY <2>1, OnePage
  <2>3. list[k].page % Span(1) = 0 /\ list[k].target = 1 /\ Block(list[k]) \subseteq LowerHalf
    BY <1>5, <1>8, OnePage
  <2> HIDE DEF f
  <2>4. \A g \in Section(f, Span(1)) : g \in Usable /\ g \notin Holds(free')
    BY <2>1, <2>2
  <2>5. f = work'.todo[k].frame
    BY DEF f
  <2>6. Request2(work.todo[k])' <=>
          /\ work'.todo[k].target = (IF work'.op = "load" THEN 1 ELSE 2)
          /\ work'.todo[k].page % Span(work'.todo[k].target) = 0 /\ Block(work'.todo[k]) \subseteq LowerHalf
          /\ work'.todo[k].frame # NoFrame /\ work'.todo[k].frame % Span(work'.todo[k].target) = 0
          /\ \A g \in Section(work'.todo[k].frame, Span(work'.todo[k].target)) :
                g \in Usable /\ g \notin Holds(free')
    BY DEF Request2, Block, Usable, Holds, LowerHalf, Half
  <2> DEFINE r == work'.todo[k]
  <2>7. r.target = 1 /\ r.page % Span(1) = 0 /\ Block(r) \subseteq LowerHalf /\ r.frame = f
    BY <2>3, <2>5
  <2> HIDE DEF r
  <2>8. /\ r.target = (IF work'.op = "load" THEN 1 ELSE 2)
        /\ r.page % Span(r.target) = 0 /\ Block(r) \subseteq LowerHalf
        /\ r.frame # NoFrame /\ r.frame % Span(r.target) = 0
        /\ \A g \in Section(r.frame, Span(r.target)) : g \in Usable /\ g \notin Holds(free')
    BY <1>3, <2>1, <2>2, <2>4, <2>7
  <2> QED BY <2>6, <2>8 DEF r
<1>10. TodoBlocks' = Section(page, n)
  <2>1. TodoBlocks' = UNION {Block(list[k]) : k \in DOMAIN list}
    BY DEF TodoBlocks, Block
  <2>2. UNION {Block(list[k]) : k \in DOMAIN list} = {list[k].page : k \in DOMAIN list}
    <3>1. \A k \in DOMAIN list : Block(list[k]) = {list[k].page}
      BY <1>5, <1>8
    <3> HIDE DEF list
    <3> QED BY <3>1
  <2> QED BY <1>5, <2>1, <2>2
<1>11. Apart(segs) /\ Code(segs) \cap TodoBlocks = {}
       /\ \A p \in LowerHalf : virt_to_phys(mem, work.root, p) # NoFrame <=> p \in LoadedPages
  BY <1>2, <1>6 DEF LoadInv, segs
<1>12. Code(segs) = Section(page, n) \cup Code(rest)
  <2>1. ASSUME NEW x \in Code(segs)
        PROVE  x \in Section(page, n) \cup Code(rest)
    <3>1. PICK j \in DOMAIN segs : x \in Section(segs[j].page, segs[j].pages)
      BY <2>1 DEF Code
    <3>2. CASE j = 1
      BY <1>3, <3>1, <3>2 DEF page, n
    <3>3. CASE j # 1
      <4>1. j - 1 \in DOMAIN rest /\ rest[j - 1] = segs[j]
        BY <1>3, <3>3
      <4> QED BY <3>1, <4>1 DEF Code
    <3> QED BY <3>2, <3>3
  <2>2. ASSUME NEW x \in Code(rest)
        PROVE  x \in Code(segs)
    <3>1. PICK j \in DOMAIN rest : x \in Section(rest[j].page, rest[j].pages)
      BY <2>2 DEF Code
    <3>2. j + 1 \in DOMAIN segs /\ rest[j] = segs[j + 1]
      BY <1>3
    <3> QED BY <3>1, <3>2 DEF Code
  <2>3. Section(page, n) \subseteq Code(segs)
    BY <1>3 DEF Code, page, n
  <2> QED BY <2>1, <2>2, <2>3
<1>13. Code(rest) \cap Section(page, n) = {}
  <2> SUFFICES ASSUME NEW x \in Code(rest), x \in Section(page, n)
               PROVE  FALSE
    OBVIOUS
  <2>1. PICK j \in DOMAIN rest : x \in Section(rest[j].page, rest[j].pages)
    BY DEF Code
  <2>2. j + 1 \in DOMAIN segs /\ rest[j] = segs[j + 1] /\ j + 1 # 1
    BY <1>3
  <2>3. Section(segs[1].page, segs[1].pages) \cap Section(segs[j + 1].page, segs[j + 1].pages) = {}
    BY <1>3, <1>11, <2>2 DEF Apart
  <2> QED BY <1>3, <2>1, <2>2, <2>3 DEF page, n
<1>14. Apart(rest)
  <2> SUFFICES ASSUME NEW i \in DOMAIN rest, NEW j \in DOMAIN rest, i # j
               PROVE  Section(rest[i].page, rest[i].pages) \cap Section(rest[j].page, rest[j].pages) = {}
    BY DEF Apart
  <2>1. /\ i + 1 \in DOMAIN segs /\ rest[i] = segs[i + 1]
        /\ j + 1 \in DOMAIN segs /\ rest[j] = segs[j + 1]
        /\ i + 1 # j + 1
    BY <1>3
  <2> QED BY <1>11, <2>1 DEF Apart
<1>15. LoadedPages' = LoadedPages
  <2>1. LoadedPages = Code(Programs[Len(tasks) + 1]) \ Code(segs)
    <3>1. TodoBlocks = {}
      BY <1>1 DEF TodoBlocks
    <3> QED BY <1>1, <3>1 DEF LoadedPages, segs
  <2>2. Code(work'.segments) = Code(rest)
    BY <1>3
  <2>3. LoadedPages' = (Code(Programs[Len(tasks) + 1]) \ Code(rest)) \ Section(page, n)
    BY <1>1, <1>3, <1>10, <2>2 DEF LoadedPages, Code, Section
  <2> QED BY <1>12, <2>1, <2>3
<1>16. LoadInv'
  <2>1. \A p \in LowerHalf : virt_to_phys(mem', work'.root, p) # NoFrame <=> p \in LoadedPages'
    BY <1>1, <1>3, <1>11, <1>15
  <2>2. \A i, j \in DOMAIN work'.todo : work'.todo[i].page = work'.todo[j].page => i = j
    BY <1>5
  <2>3. Apart(work'.segments) /\ Code(work'.segments) \cap TodoBlocks' = {}
    BY <1>3, <1>10, <1>13, <1>14
  <2>4. work'.op # "stack"
    BY <1>3
  <2>5. \A i \in DOMAIN work'.todo : Request2(work.todo[i])'
    BY <1>9
  <2>6. Code(work'.segments) \cup TodoBlocks' \subseteq ProgramPages'
    <3>1. Code(segs) \subseteq ProgramPages
      BY <1>2, <1>6 DEF LoadInv, segs
    <3>2. ProgramPages' = ProgramPages
      BY <1>1, <1>3 DEF ProgramPages, Code, Section
    <3>3. Code(work'.segments) = Code(rest)
      BY <1>3
    <3> QED BY <1>10, <1>12, <3>1, <3>2, <3>3
  <2> QED BY <2>1, <2>2, <2>3, <2>4, <2>5, <2>6
          DEF LoadInv, Apart, Code, LowerHalf, Half, Section
<1> QED BY <1>7, <1>16 DEF Rest

\* Blocks of d side by side.
Strip(base, d, n, k) ==
    LET b == base + (k - 1) * d IN
    /\ b \in Nat /\ b % d = 0 /\ b \div d = (base \div d) + k - 1
    /\ \A x \in Section(b, d) : x \in Section(base, n * d)

LEMMA StripIs ==
    ASSUME NEW d \in Nat, d > 0, NEW base \in Nat, base % d = 0, NEW n \in Nat, NEW k \in 1 .. n
    PROVE  Strip(base, d, n, k)
<1> DEFINE s == base \div d
           y == (k - 1) * d
           z == n * d
           b == base + y
<1>1. s \in Nat /\ base = d * s
  <2>1. s \in Nat /\ base = d * s + (base % d)
    BY Division
  <2> HIDE DEF s
  <2>2. d * s \in Nat
    BY <2>1
  <2> QED BY <2>1, <2>2
<1> HIDE DEF s
<1>2. y \in Nat /\ z \in Nat /\ y = d * (k - 1) /\ z = d * n
  OBVIOUS
<1>3. y + d <= z
  <2>1. d * (k - 1) + d <= d * n
    BY Between
  <2> QED BY <1>2, <2>1
<1>4. b \in Nat /\ b = d * (s + k - 1) + 0 /\ s + k - 1 \in Nat /\ 0 \in 0 .. d - 1
  BY <1>1, <1>2
<1> HIDE DEF y, z, b
<1>5. b \div d = s + k - 1 /\ b % d = 0
  <2> DEFINE v == s + k - 1
  <2>1. v \in Nat /\ b = d * v + 0
    BY <1>4
  <2> HIDE DEF v
  <2>2. ASSUME NEW u \in 0 .. d - 1, b = d * v + u
        PROVE  b \div d = v /\ b % d = u
    <3>1. b \in Nat
      BY <1>4
    <3> QED BY <2>1, <2>2, <3>1, DivUnique
  <2>3. b \div d = v /\ b % d = 0
    BY <1>4, <2>1, <2>2
  <2> QED BY <2>3 DEF v
<1>6. \A x \in Section(b, d) : x \in Section(base, z)
  BY <1>2, <1>3, <1>4 DEF Section, b
<1> QED BY <1>4, <1>5, <1>6 DEF Strip, b, y, z, s

LEMMA StripAll ==
    ASSUME NEW d \in Nat, d > 0, NEW base \in Nat, NEW n \in Nat, NEW x \in Section(base, n * d)
    PROVE  \E k \in 1 .. n : x \in Section(base + (k - 1) * d, d)
<1> DEFINE u == x - base
           z == n * d
<1>1. z \in Nat /\ z = d * n
  OBVIOUS
<1> HIDE DEF z
<1>2. u \in Nat /\ u < z /\ x = base + u
  BY <1>1 DEF Section, z
<1> HIDE DEF u
<1> DEFINE q == u \div d
           k == q + 1
<1>3. q \in Nat /\ u % d \in 0 .. d - 1 /\ u = d * q + (u % d)
  BY <1>2, Division
<1> HIDE DEF q
<1>4. q < n
  <2> SUFFICES ASSUME ~(q < n) PROVE FALSE
    OBVIOUS
  <2>1. CASE q = n
    BY <1>1, <1>2, <1>3, <2>1
  <2>2. CASE n < q
    <3>1. d * n + d <= d * q
      BY <1>3, <2>2, Between
    <3>2. d * n \in Nat /\ d * q \in Nat
      BY <1>3
    <3> QED BY <1>1, <1>2, <1>3, <3>1, <3>2
  <2> QED BY <1>3, <2>1, <2>2
<1>5. k \in 1 .. n /\ (k - 1) * d = d * q /\ d * q \in Nat
  BY <1>3, <1>4
<1>6. x \in Section(base + (k - 1) * d, d)
  BY <1>2, <1>3, <1>5 DEF Section
<1> QED BY <1>5, <1>6

\* Nothing is behind the pages of a slot of the root that is free.
LEMMA BareSlot ==
    ASSUME NEW m, NEW S, Closed(m, S), NEW root \in S, NEW page \in Nat, NEW hard \in BOOLEAN,
           m[root][Index(page, Levels)].kind = "none"
    PROVE  Frame(m, root, page, hard) = NoFrame
<1>1. Levels \in 1 .. Levels /\ Path(m, root, page)[Levels] = root /\ root # NoFrame
  BY Shape, PathUnfold DEF Closed
<1>2. Deepest(m, root, page, 1) = Levels
  BY <1>1, LowestTable
<1>3. Frame(m, root, page, hard) =
         IF m[root][Index(page, Levels)].kind = "leaf" /\ ~(hard /\ Refused(m, root, page, Levels))
           THEN Behind(m[root][Index(page, Levels)], Levels, page) ELSE NoFrame
  <2>1. Frame(m, root, page, hard) =
          LET d == Deepest(m, root, page, 1)
              e == m[Path(m, root, page)[d]][Index(page, d)]
          IN IF e.kind = "leaf" /\ ~(hard /\ Refused(m, root, page, d))
               THEN Behind(e, d, page) ELSE NoFrame
    BY FrameIs
  <2> QED BY <1>1, <1>2, <2>1, Zenon
<1> QED BY <1>3

\* The stack of a slot lies in that slot of the root.
LEMMA StackHome ==
    ASSUME NEW slot \in Slots, slot \notin UpperSlots, NEW p \in StackOf(slot * Span(Levels))
    PROVE  p \in Pages /\ p \in LowerHalf /\ Index(p, Levels) = slot
<1> DEFINE P == Span(Levels)
           y == slot * P
           z == StackBlocks * Span(2)
           R == Power[Levels]
<1>1. Levels - 1 \in 0 .. Levels /\ Levels \in 1 .. Levels /\ 1 \in 0 .. Levels /\ Levels \in 0 .. Levels
      /\ Fan \in Nat /\ slot \in Nat /\ slot < Fan
  BY Shape DEF Slots
<1>2. P \in Nat /\ P > 0 /\ R = Fan * P /\ R \in Nat /\ P = Power[Levels - 1] /\ Span(2) \in Nat
  BY <1>1, PowerFacts, Shape DEF Span
<1>3. z \in Nat /\ z <= P
  BY <1>2, RequestAssumption DEF RequestAssumption
<1> HIDE DEF z, P, R
<1>4. y \in Nat /\ y = P * slot
  BY <1>1, <1>2
<1>5. P * slot + P <= P * Fan /\ P * Fan = R
  BY <1>1, <1>2, Between
<1> HIDE DEF y
<1> DEFINE u == p - y
<1>6. u \in 0 .. P - 1 /\ p = y + u
  BY <1>2, <1>3, <1>4 DEF StackOf, Section, y, z, P
<1> HIDE DEF u
<1>7. p \in Nat /\ p < R
  BY <1>2, <1>4, <1>5, <1>6
<1>8. p = P * slot + u
  BY <1>4, <1>6
<1>9. p \div P = slot
  <2>1. P \in Nat /\ P > 0 /\ slot \in Nat /\ u \in 0 .. P - 1 /\ p \in Nat
    BY <1>1, <1>2, <1>6, <1>7
  <2>2. p \div P = slot /\ p % P = u
    BY <1>8, <2>1, DivUnique
  <2> QED BY <2>2
<1>10. p \in Pages
  BY <1>2, <1>7 DEF Pages, R
<1>11. Prefix(p, Levels - 1) = 0 * Fan + slot
  BY <1>1, <1>2, <1>9 DEF Prefix
<1>12. Index(p, Levels) = slot
  <2>1. ASSUME NEW b \in Nat, Prefix(p, Levels - 1) = b * Fan + slot
        PROVE  Index(p, Levels) = slot
    <3>1. p \in Nat /\ Levels \in 1 .. Levels
      BY <1>1, <1>7
    <3>2. Prefix(p, Levels) = b /\ Index(p, Levels) = slot
      BY <2>1, <3>1, UnderEntry
    <3> QED BY <3>2
  <2>2. 0 \in Nat
    OBVIOUS
  <2> QED BY <1>11, <2>1, <2>2
<1> QED BY <1>10, <1>12, HalfIs

\* A slot that nothing hangs under is not the first of the upper half.
LEMMA ArenaSlotIs ==
    ASSUME WaysInv, NEW root \in Roots, NEW slot \in ArenaSlots(root)
    PROVE  /\ slot \in Slots /\ slot \notin UpperSlots /\ mem[root][slot].kind = "none"
           /\ \A p \in Pages, hard \in BOOLEAN :
                 Index(p, Levels) = slot => Frame(mem, root, p, hard) = NoFrame
<1>1. PICK pl : Trees(mem, pl, Roots) /\ Fine(mem, pl, Limits, Clear)
  BY DEF WaysInv
<1>2. Closed(mem, DOMAIN pl) /\ root \in DOMAIN pl /\ pl[root].level = Levels
  <2>1. RootAt(pl, root) /\ Placed(mem, pl)
    BY <1>1 DEF Trees
  <2> QED BY <2>1 DEF RootAt, Place, Placed
<1>3. slot \in 1 .. Fan \div 2 /\ mem[root][slot].kind = "none"
  BY DEF ArenaSlots
<1>4. slot # Fan \div 2
  BY <1>1, <1>2, <1>3 DEF Fine, HalfTaken
<1>5. slot \in Slots /\ slot \notin UpperSlots
  BY <1>3, <1>4, Shape DEF Slots, UpperSlots
<1>6. ASSUME NEW p \in Pages, NEW hard \in BOOLEAN, Index(p, Levels) = slot
      PROVE  Frame(mem, root, p, hard) = NoFrame
  <2>1. p \in Nat
    BY LowerPages
  <2> QED BY <1>2, <1>3, <1>6, <2>1, BareSlot
<1> QED BY <1>3, <1>5, <1>6

LEMMA LoadStackRest ==
    ASSUME Whole, LoadStack
    PROVE  Rest'
<1>1. /\ work.op = "load" /\ work.todo = << >> /\ work.segments = << >>
      /\ UNCHANGED <<mem, kernel, satp, tasks, harts, sections, tlb, panicked>>
  BY DEF LoadStack, Ended
<1>2. Inv /\ LoadInv /\ WorkInv /\ WaysInv
  BY DEF Whole, Inv
<1>3. work'.op = "stack" /\ work'.root = work.root /\ work'.segments = << >>
  BY <1>2, LoadStackIs DEF StackMade
<1> DEFINE Q == Span(2)
           list == work'.todo
<1>4. PICK slot \in ArenaSlots(work.root), g \in Nat :
          /\ work'.stack = slot * Span(Levels)
          /\ DOMAIN work'.todo = 1 .. StackBlocks
          /\ \A k \in 1 .. StackBlocks :
                /\ work'.todo[k].page = slot * Span(Levels) + (k - 1) * Span(2)
                /\ work'.todo[k].frame = g + (k - 1) * Span(2)
                /\ work'.todo[k].target = 2
          /\ g % Span(2) = 0
          /\ \A j \in 0 .. StackBlocks * Span(2) - 1 : g + j \in Usable /\ g + j \notin Holds(free')
  BY <1>2, LoadStackIs DEF StackMade
<1> DEFINE base == slot * Span(Levels)
<1>5. Loading /\ Loading' /\ work.root \in Roots
  BY <1>1, <1>3 DEF Loading, Roots
<1>6. ~panicked' /\ WaysInv' /\ HalfInv' /\ RootsInv' /\ ProgInv' /\ IoInv'
  BY <1>1, <1>3, <1>5, SameWays
<1>7. /\ slot \in Slots /\ slot \notin UpperSlots
      /\ \A p \in Pages, hard \in BOOLEAN :
            Index(p, Levels) = slot => Frame(mem, work.root, p, hard) = NoFrame
  BY <1>2, <1>5, ArenaSlotIs
<1>8. \A p \in StackOf(base) : p \in LowerHalf /\ virt_to_phys(mem, work.root, p) = NoFrame
  <2> SUFFICES ASSUME NEW p \in StackOf(base)
               PROVE  p \in LowerHalf /\ virt_to_phys(mem, work.root, p) = NoFrame
    OBVIOUS
  <2>1. p \in Pages /\ p \in LowerHalf /\ Index(p, Levels) = slot
    BY <1>7, StackHome
  <2>2. FALSE \in BOOLEAN
    OBVIOUS
  <2> QED BY <1>7, <2>1, <2>2 DEF virt_to_phys
<1>9. /\ Q \in Nat /\ Q > 0 /\ StackBlocks \in Nat /\ base \in Nat /\ base % Q = 0
  <2>1. 1 \in 0 .. Levels /\ Levels - 2 \in 0 .. Levels /\ Levels - 1 \in 1 .. Levels /\ 1 \in 1 .. Levels
        /\ (Levels - 1) - 1 = Levels - 2 /\ 1 - 1 = 0 /\ slot \in Nat /\ Levels - 1 \in 0 .. Levels
    BY <1>7, Shape DEF Slots
  <2>2. Power[0] = 1 /\ Power[1] = Fan * Power[0] /\ Power[Levels - 1] = Fan * Power[Levels - 2]
        /\ Power[Levels - 2] \in Nat /\ Power[Levels - 1] \in Nat /\ Fan \in Nat /\ Fan > 0
    BY <2>1, PowerFacts, Shape
  <2>3. Q = Fan /\ Span(Levels) = Fan * Power[Levels - 2]
    BY <2>2 DEF Span
  <2> DEFINE v == Power[Levels - 2]
             w == slot * v
  <2>4. v \in Nat
    BY <2>2
  <2>5. Span(Levels) = Fan * v
    BY <2>3
  <2> HIDE DEF v
  <2>6. w \in Nat /\ slot * (Fan * v) = Fan * w
    BY <2>1, <2>2, <2>4
  <2> HIDE DEF w
  <2>7. base = Fan * w + 0 /\ base \in Nat /\ 0 \in 0 .. Fan - 1
    BY <2>2, <2>5, <2>6
  <2> HIDE DEF base
  <2>8. base % Fan = 0
    <3>1. \A u \in 0 .. Fan - 1 : base = Fan * w + u => base % Fan = u
      <4> SUFFICES ASSUME NEW u \in 0 .. Fan - 1, base = Fan * w + u
                   PROVE  base % Fan = u
        OBVIOUS
      <4>1. Fan \in Nat /\ Fan > 0 /\ base \in Nat /\ w \in Nat
        BY <2>2, <2>6, <2>7
      <4>2. base \div Fan = w /\ base % Fan = u
        BY <4>1, DivUnique
      <4> QED BY <4>2
    <3> QED BY <2>7, <3>1
  <2>9. StackBlocks \in Nat
    BY RequestAssumption DEF RequestAssumption
  <2> QED BY <2>2, <2>3, <2>7, <2>8, <2>9
<1>10. base = work'.stack
  BY <1>4
<1> HIDE DEF Q
<1>11. \A k \in 1 .. StackBlocks :
          /\ list[k].page = base + (k - 1) * Q /\ list[k].frame = g + (k - 1) * Q /\ list[k].target = 2
  BY <1>4 DEF Q
<1>12. g % Q = 0 /\ \A x \in Section(g, StackBlocks * Q) : x \in Usable /\ x \notin Holds(free')
  <2>1. g % Q = 0
    BY <1>4 DEF Q
  <2>2. ASSUME NEW x \in Section(g, StackBlocks * Q)
        PROVE  x \in Usable /\ x \notin Holds(free')
    <3> DEFINE z == StackBlocks * Q
               j == x - g
    <3>1. z \in Nat
      BY <1>9
    <3>2. \A i \in 0 .. z - 1 : g + i \in Usable /\ g + i \notin Holds(free')
      BY <1>4 DEF Q
    <3> HIDE DEF z
    <3>3. x \in Section(g, z)
      BY DEF z
    <3>4. j \in 0 .. z - 1 /\ g + j = x
      BY <3>1, <3>3 DEF Section
    <3> HIDE DEF j
    <3> QED BY <3>2, <3>4
  <2> QED BY <2>1, <2>2
<1>13. DOMAIN list = 1 .. StackBlocks /\ StackOf(base) = Section(base, StackBlocks * Q)
  BY <1>4 DEF StackOf, Q
<1> HIDE DEF base
<1>14. \A k \in 1 .. StackBlocks : Strip(base, Q, StackBlocks, k) /\ Strip(g, Q, StackBlocks, k)
  BY <1>9, <1>12, StripIs
<1>15. \A k \in 1 .. StackBlocks : Block(list[k]) = Section(base + (k - 1) * Q, Q)
  <2> SUFFICES ASSUME NEW k \in 1 .. StackBlocks
               PROVE  Block(list[k]) = Section(base + (k - 1) * Q, Q)
    OBVIOUS
  <2>1. list[k].page = base + (k - 1) * Q /\ list[k].target = 2
    BY <1>11
  <2> QED BY <2>1 DEF Block, Q
<1>16. TodoBlocks' = StackOf(base)
  <2>1. TodoBlocks' = UNION {Block(list[k]) : k \in DOMAIN list}
    BY DEF TodoBlocks, Block
  <2>2. ASSUME NEW x \in StackOf(base)
        PROVE  x \in UNION {Block(list[k]) : k \in DOMAIN list}
    <3>1. PICK k \in 1 .. StackBlocks : x \in Section(base + (k - 1) * Q, Q)
      <4>1. x \in Section(base, StackBlocks * Q)
        BY <1>13, <2>2
      <4> HIDE DEF Q, list
      <4> QED BY <1>9, <4>1, StripAll
    <3>2. x \in Block(list[k])
      BY <1>15, <3>1
    <3> QED BY <1>13, <3>2
  <2>3. ASSUME NEW k \in DOMAIN list, NEW x \in Block(list[k])
        PROVE  x \in StackOf(base)
    <3>1. Strip(base, Q, StackBlocks, k) /\ x \in Section(base + (k - 1) * Q, Q)
      BY <1>13, <1>14, <1>15
    <3> QED BY <1>13, <3>1 DEF Strip
  <2> QED BY <2>1, <2>2, <2>3
<1>17. \A k \in DOMAIN work'.todo : Request2(work.todo[k])'
  <2> SUFFICES ASSUME NEW k \in 1 .. StackBlocks
               PROVE  Request2(work.todo[k])'
    BY <1>13
  <2> DEFINE r == work'.todo[k]
  <2>1. Request2(work.todo[k])' <=>
          /\ r.target = (IF work'.op = "load" THEN 1 ELSE 2)
          /\ r.page % Span(r.target) = 0 /\ Block(r) \subseteq LowerHalf
          /\ r.frame # NoFrame /\ r.frame % Span(r.target) = 0
          /\ \A x \in Section(r.frame, Span(r.target)) : x \in Usable /\ x \notin Holds(free')
    BY DEF Request2, Block, Usable, Holds, LowerHalf, Half
  <2>2. r.page = base + (k - 1) * Q /\ r.frame = g + (k - 1) * Q /\ r.target = 2
    BY <1>11
  <2>3. r.page % Q = 0 /\ r.frame % Q = 0 /\ r.frame \in Nat
        /\ \A x \in Section(r.frame, Q) : x \in Section(g, StackBlocks * Q)
    BY <1>14, <2>2 DEF Strip
  <2>4. Block(r) \subseteq LowerHalf
    BY <1>8, <1>13, <1>16 DEF TodoBlocks, Block
  <2>5. \A x \in Section(r.frame, Q) : x \in Usable /\ x \notin Holds(free')
    BY <1>12, <2>3
  <2>6. r.frame \in Section(r.frame, Q)
    BY <1>9, <2>3 DEF Section
  <2>7. r.frame # NoFrame
    BY <2>5, <2>6, MemoryFacts
  <2>8. Q = Span(r.target)
    BY <2>2 DEF Q
  <2> HIDE DEF r
  <2> QED BY <1>3, <2>1, <2>2, <2>3, <2>4, <2>5, <2>7, <2>8
<1>18. \A j, k \in DOMAIN list : list[j].page = list[k].page => j = k
  <2> SUFFICES ASSUME NEW j \in 1 .. StackBlocks, NEW k \in 1 .. StackBlocks,
                      list[j].page = list[k].page
               PROVE  j = k
    BY <1>13
  <2> DEFINE c == base \div Q
  <2>1. list[j].page \div Q = c + j - 1 /\ list[k].page \div Q = c + k - 1
    BY <1>11, <1>14 DEF Strip
  <2>2. c \in Nat
    BY <1>9, Division
  <2> HIDE DEF c
  <2> QED BY <2>1, <2>2
<1>19. Code(<< >>) = {} /\ Apart(<< >>)
  BY DEF Code, Apart
<1>20. \A p \in LowerHalf : virt_to_phys(mem, work.root, p) # NoFrame <=> p \in LoadedPages
  BY <1>2, <1>5 DEF LoadInv
<1>21. LoadedPages = Code(Programs[Len(tasks) + 1])
  <2>1. TodoBlocks = {}
    BY <1>1 DEF TodoBlocks
  <2> QED BY <1>1, <1>19, <2>1 DEF LoadedPages
<1>22. \A p \in LowerHalf : p \in LoadedPages' <=> p \in LoadedPages
  <2>1. LoadedPages' = (Code(Programs[Len(tasks) + 1]) \cup StackOf(base)) \ StackOf(base)
    <3>1. Code(work'.segments) = {}
      BY <1>3, <1>19
    <3>2. LoadedPages' = ((Code(Programs[Len(tasks) + 1]) \ Code(work'.segments))
                            \cup (IF work'.op = "stack" THEN StackOf(work'.stack) ELSE {})) \ TodoBlocks'
      BY <1>1 DEF LoadedPages, Code, Section, StackOf
    <3> QED BY <1>3, <1>10, <1>16, <3>1, <3>2
  <2> QED BY <1>8, <1>20, <1>21, <2>1
<1>23. LoadInv'
  <2>1. \A p \in LowerHalf : virt_to_phys(mem', work'.root, p) # NoFrame <=> p \in LoadedPages'
    BY <1>1, <1>3, <1>20, <1>22
  <2>2. \A i, j \in DOMAIN work'.todo : work'.todo[i].page = work'.todo[j].page => i = j
    BY <1>18
  <2>3. Apart(work'.segments) /\ Code(work'.segments) \cap TodoBlocks' = {}
    BY <1>3, <1>19
  <2>4. Code(work'.segments) \cup TodoBlocks' \subseteq ProgramPages'
    <3>1. ProgramPages' = Code(Programs[Len(tasks) + 1]) \cup StackOf(work'.stack)
      BY <1>1, <1>3 DEF ProgramPages, Code, Section, StackOf
    <3>2. Code(work'.segments) = {}
      BY <1>3, <1>19
    <3> QED BY <1>10, <1>16, <3>1, <3>2
  <2> QED BY <1>3, <1>17, <2>1, <2>2, <2>3, <2>4
          DEF LoadInv, Apart, Code, LowerHalf, Half, Section
<1> QED BY <1>6, <1>23 DEF Rest

-----------------------------------------------------------------------------
(* Steps that make a root                                                   *)

LEMMA SatpTaken == Whole => mem[satp][Fan \div 2].kind # "none"
<1> SUFFICES ASSUME Whole PROVE mem[satp][Fan \div 2].kind # "none"
  OBVIOUS
<1>1. Inv /\ WaysInv /\ BootInv /\ WorkInv
  BY DEF Whole, Inv
<1>2. CASE satp = BootRoot
  <2>1. mem[BootRoot] = BootMem[BootRoot]
    BY <1>1, BootFacts DEF BootInv
  <2> QED BY <1>2, <2>1, IoAssumption DEF IoAssumption
<1>3. CASE satp \in Roots
  <2>1. PICK pl : Trees(mem, pl, Roots) /\ Fine(mem, pl, Limits, Clear)
    BY <1>1 DEF WaysInv
  <2>2. RootAt(pl, satp)
    BY <1>3, <2>1 DEF Trees
  <2>3. satp \in DOMAIN pl /\ pl[satp].level = Levels
    BY <2>2 DEF RootAt, Place
  <2> QED BY <2>1, <2>3 DEF Fine, HalfTaken
<1> QED BY <1>1, <1>2, <1>3 DEF WorkInv

LEMMA RootWays ==
    ASSUME Whole, Enough, NEW entries \in {Cleared, Linked}, mem' = WithRoot(entries),
           Roots' \subseteq Roots \cup {free[1]},
           \A c \in Limits' : IF c.root = free[1] THEN NewLimit(mem, satp, c) ELSE c \in Limits,
           \A c \in Clear' : IF c.root = free[1] THEN NewWay(entries, c) ELSE c \in Clear
    PROVE  WaysInv'
<1>1. Inv /\ WaysInv
  BY DEF Whole
<1>2. PICK pl : Trees(mem, pl, Roots) /\ Fine(mem, pl, Limits, Clear)
  BY <1>1 DEF WaysInv
<1> DEFINE root == free[1]
           taken == Holds(First(Cost))
           limits2 == Limits'
           clear2 == Clear'
           n == mem'
<1>3. PICK q : /\ NewSpace(mem, mem', pl, q, satp, root, taken)
               /\ Imaged(mem, mem', q, satp, root, entries, taken)
               /\ Trees(mem', q, Roots')
  BY <1>1, <1>2, RootTrees
<1>4. PICK S : Closed(mem, S) /\ satp \in S
  BY <1>1, <1>2, InUse
<1>5. root \notin DOMAIN mem
  <2>1. Cut(Cost)
    BY <1>1, <1>2, RootMakes
  <2> QED BY <2>1 DEF Cut
<1>6. NewLimits(mem, satp, root, Limits, limits2) /\ NewWays(entries, root, Clear, clear2)
  BY DEF NewLimits, NewWays
<1>7. /\ DOMAIN pl \subseteq DOMAIN mem /\ Fine(mem, pl, Limits, Clear)
      /\ mem[satp][Fan \div 2].kind # "none"
  BY <1>2, SatpTaken DEF Trees
<1>8. NewSpace(mem, n, pl, q, satp, root, taken) /\ Imaged(mem, n, q, satp, root, entries, taken)
  BY <1>3
<1> HIDE DEF root, taken, limits2, clear2, n
<1>9. Fine(n, q, limits2, clear2)
  BY <1>4, <1>5, <1>6, <1>7, <1>8, CloneKeepsWays
<1> QED BY <1>3, <1>9 DEF WaysInv, limits2, clear2, n

\* What a new root does to what the other invariants say.
LEMMA RootKeeps ==
    ASSUME Whole, Founded, Booted, satp = kernel, kernel' = kernel, tasks' = tasks,
           Roots' \subseteq Roots \cup {free[1]}, work'.op # "init", work.op # "init"
    PROVE  HalfInv' /\ ProgInv' /\ kernel # free[1] /\ \A t \in DOMAIN tasks : tasks[t].root # free[1]
<1>1. Inv /\ HalfInv /\ ProgInv /\ Booted'
  BY DEF Whole, Booted
<1>2. /\ free[1] \notin DOMAIN mem /\ Roots \subseteq DOMAIN mem /\ kernel \in Roots
      /\ \A r \in Roots, p \in Pages, hard \in BOOLEAN : Frame(mem', r, p, hard) = Frame(mem, r, p, hard)
      /\ \A p \in Pages, hard \in BOOLEAN :
            Frame(mem', free[1], p, hard) = IF p \in LowerHalf THEN NoFrame
                                            ELSE Frame(mem, satp, p, hard)
  <2>1. kernel \in Roots /\ Roots \subseteq DOMAIN mem
    BY <1>1 DEF Roots, Inv, TypeOK
  <2> QED BY <2>1 DEF Founded
<1>3. \A r \in Roots, p \in Pages, hard \in BOOLEAN :
         p \notin LowerHalf => Frame(mem, r, p, hard) = Frame(mem, kernel, p, hard)
  BY <1>1 DEF HalfInv
<1>4. \A r \in Roots', p \in Pages, hard \in BOOLEAN :
         p \notin LowerHalf => Frame(mem', r, p, hard) = Frame(mem', kernel', p, hard)
  <2> SUFFICES ASSUME NEW r \in Roots', NEW p \in Pages, NEW hard \in BOOLEAN, p \notin LowerHalf
               PROVE  Frame(mem', r, p, hard) = Frame(mem', kernel', p, hard)
    OBVIOUS
  <2>1. Frame(mem', kernel', p, hard) = Frame(mem, kernel, p, hard)
    BY <1>2
  <2>2. CASE r \in Roots
    BY <1>2, <1>3, <2>1, <2>2
  <2>3. CASE r = free[1]
    BY <1>2, <2>1, <2>3
  <2> QED BY <2>2, <2>3
<1>5. HalfInv'
  BY <1>1, <1>4 DEF HalfInv, LowerHalf, Half
<1>6. \A t \in DOMAIN tasks : tasks[t].root \in Roots
  BY DEF Roots
<1>7. ProgInv'
  <2>1. ASSUME NEW t \in DOMAIN tasks, NEW p \in LowerHalf
        PROVE  virt_to_phys(mem', tasks[t].root, p) = virt_to_phys(mem, tasks[t].root, p)
    <3>1. p \in Pages /\ FALSE \in BOOLEAN
      BY LowerPages
    <3> QED BY <1>2, <1>6, <3>1 DEF virt_to_phys
  <2> QED BY <1>1, <2>1 DEF ProgInv, LowerHalf, Half, Code, StackOf
<1> QED BY <1>2, <1>5, <1>6, <1>7

LEMMA LoadRest ==
    ASSUME Whole, Load, Clean'
    PROVE  Rest'
<1> DEFINE segments == Programs[Len(tasks) + 1]
<1>1. /\ Booted /\ satp = kernel /\ work = Idle /\ ~panicked
      /\ Len(tasks) < Len(Programs) /\ Enough
      /\ mem' = WithRoot(Linked) /\ free' = After(Cost)
      /\ UNCHANGED <<kernel, satp, tasks, harts, sections, tlb, panicked>>
  BY LinkedRoot DEF Load, AtBoot, Ready
<1>2. Inv /\ Inv' /\ WorkInv /\ HalfInv /\ RootsInv /\ ProgInv /\ TreeInv
  <2>1. Inv
    BY DEF Whole
  <2> QED BY <2>1, LoadStep DEF Whole, Inv
<1>3. /\ work'.op = "load" /\ work'.root = free[1] /\ work'.todo = << >>
      /\ work'.segments = segments
  <2> DEFINE rec(o, r, g) == [op |-> o, root |-> r, todo |-> << >>, segments |-> g, stack |-> 0]
             root == free[1]
  <2>1. Idle = rec("idle", NoFrame, << >>)
    BY DEF Idle
  <2>2. work' = [Idle EXCEPT !.op = "load", !.root = root, !.segments = segments]
    BY DEF Load
  <2> HIDE DEF segments, root
  <2>3. work' = rec("load", root, segments)
    <3>1. [rec("idle", NoFrame, << >>) EXCEPT !.op = "load"] = rec("load", NoFrame, << >>)
      OBVIOUS
    <3>2. [rec("load", NoFrame, << >>) EXCEPT !.root = root] = rec("load", root, << >>)
      OBVIOUS
    <3>3. [rec("load", root, << >>) EXCEPT !.segments = segments] = rec("load", root, segments)
      OBVIOUS
    <3> HIDE DEF rec
    <3> QED BY <2>1, <2>2, <3>1, <3>2, <3>3
  <2>4. work'.op = "load" /\ work'.root = root /\ work'.todo = << >> /\ work'.segments = segments
    BY <2>3
  <2> QED BY <2>4 DEF root, segments
<1> HIDE DEF segments
<1>4. /\ Roots' \subseteq Roots \cup {free[1]} /\ Booted' /\ kernel \in Roots
      /\ work.op = "idle" /\ ~Loading /\ Loading'
  BY <1>1, <1>3, IdleIs DEF Roots, Loading, Booted
<1>5. Linked \in {Cleared, Linked} /\ PartOf(free', After(Cost), Usable)
  <2>1. PICK pl : Trees(mem, pl, Roots)
    BY <1>2 DEF TreeInv
  <2>2. Cut(Cost)
    BY <1>1, <1>2, <2>1, RootMakes
  <2> QED BY <1>1, <2>2 DEF Cut, PartOf
<1>6. Founded
  BY <1>1, <1>2, <1>4, <1>5, Founding
<1>7. HalfInv' /\ ProgInv' /\ kernel # free[1] /\ \A t \in DOMAIN tasks : tasks[t].root # free[1]
  BY <1>1, <1>3, <1>4, <1>6, RootKeeps
<1>8. \A c \in Limits' : IF c.root = free[1] THEN NewLimit(mem, satp, c) ELSE c \in Limits
  <2> SUFFICES ASSUME NEW c \in Limits'
               PROVE  IF c.root = free[1] THEN NewLimit(mem, satp, c) ELSE c \in Limits
    OBVIOUS
  <2>1. /\ c \in [root : Nat, page : Pages, level : 1 .. Levels]
        /\ \/ c.root = kernel /\ c.page \in LowerHalf /\ c.level = 1
           \/ c.root = free[1] /\ c.page \in LowerHalf /\ c.level = 1
    BY <1>1, <1>3 DEF Limits, LowerHalf, Half
  <2>2. CASE c.root = kernel /\ c.page \in LowerHalf /\ c.level = 1
    BY <1>1, <1>7, <2>1, <2>2 DEF Limits
  <2>3. CASE c.root = free[1] /\ c.page \in LowerHalf /\ c.level = 1
    BY <2>1, <2>3, LowerPages DEF NewLimit
  <2> QED BY <2>1, <2>2, <2>3
<1>9. \A c \in Clear' : IF c.root = free[1] THEN NewWay(Linked, c) ELSE c \in Clear
  <2> SUFFICES ASSUME NEW c \in Clear'
               PROVE  IF c.root = free[1] THEN NewWay(Linked, c) ELSE c \in Clear
    OBVIOUS
  <2>1. /\ c \in [root : Roots', page : LowerHalf]
        /\ c.root = kernel \/ Index(c.page, Levels) # 1
    BY <1>1 DEF Clear, LowerHalf, Half
  <2> QED BY <1>4, <1>7, <2>1 DEF Clear, NewWay
<1>10. WaysInv'
  BY <1>1, <1>4, <1>5, <1>8, <1>9, RootWays
<1>11. RootsInv'
  <2>1. \A t \in DOMAIN tasks : tasks[t].root # kernel /\ tasks[t].root # free[1]
    BY <1>2, <1>7 DEF RootsInv
  <2> QED BY <1>1, <1>3, <2>1 DEF RootsInv
<1>12. LoadInv'
  <2>1. TodoBlocks' = {} /\ LoadedPages' = {}
    <3>1. TodoBlocks' = {}
      BY <1>3 DEF TodoBlocks
    <3>2. Code(Programs[Len(tasks) + 1]) = Code(work'.segments) /\ work'.op # "stack"
      BY <1>3 DEF segments
    <3>3. LoadedPages' = ((Code(Programs[Len(tasks) + 1]) \ Code(work'.segments)) \cup {}) \ TodoBlocks'
      BY <1>1, <3>2 DEF LoadedPages, Code, Section
    <3> QED BY <3>1, <3>2, <3>3
  <2>2. Apart(segments)
    <3>1. Len(tasks) + 1 \in DOMAIN Programs
      <4>1. Programs \in Seq(Seq(Segments))
        BY RequestAssumption DEF RequestAssumption, Segments
      <4>2. Len(tasks) \in Nat /\ Len(tasks) < Len(Programs)
        <5>1. tasks \in Seq(Tasks)
          BY <1>2 DEF WorkInv
        <5> QED BY <1>1, <5>1
      <4> QED BY <4>1, <4>2
    <3>2. \A i \in DOMAIN segments : \A j \in DOMAIN segments \ {i} :
             Section(segments[i].page, segments[i].pages)
               \cap Section(segments[j].page, segments[j].pages) = {}
      BY <3>1, LoadAssumption DEF LoadAssumption, segments
    <3> QED BY <3>2 DEF Apart
  <2>3. \A p \in LowerHalf : virt_to_phys(mem', work'.root, p) = NoFrame
    <3> SUFFICES ASSUME NEW p \in LowerHalf
                 PROVE  virt_to_phys(mem', work'.root, p) = NoFrame
      OBVIOUS
    <3>1. p \in Pages /\ FALSE \in BOOLEAN
      BY LowerPages
    <3>2. Frame(mem', free[1], p, FALSE) = NoFrame
      BY <1>6, <3>1 DEF Founded
    <3> QED BY <1>3, <3>2 DEF virt_to_phys
  <2>4. Apart(work'.segments) /\ Code(work'.segments) \cap TodoBlocks' = {} /\ DOMAIN work'.todo = {}
    BY <1>3, <2>1, <2>2
  <2>5. Code(work'.segments) \cup TodoBlocks' \subseteq ProgramPages'
    <3>1. ProgramPages' = Code(Programs[Len(tasks) + 1]) \cup {}
      BY <1>1, <1>3 DEF ProgramPages, Code, Section
    <3>2. Code(Programs[Len(tasks) + 1]) = Code(work'.segments)
      BY <1>3 DEF segments
    <3> QED BY <2>1, <3>1, <3>2
  <2> QED BY <1>3, <2>1, <2>3, <2>4, <2>5 DEF LoadInv, Apart, Code, LowerHalf, Half, Section
<1> QED BY <1>1, <1>3, <1>7, <1>10, <1>11, <1>12 DEF Rest, IoInv

\* The stack of a core comes off what the new root has left.
LEMMA StartHartTakes ==
    ASSUME Inv, StartHart, Clean'
    PROVE  /\ Cut(Cost) /\ PartOf(free', After(Cost), Usable)
           /\ \E h : /\ harts' = harts \cup {h} /\ h.root = free[1]
                    /\ Moved(After(Cost), free', Section(h.stack, HartStack))
<1> DEFINE left == After(Cost)
           i == Run(left, HartStack, 1)
<1>1. /\ Enough /\ mem' = WithRoot(Linked)
      /\ HasRun(left, HartStack, 1) /\ free' = Without(left, i, HartStack)
  BY LinkedRoot DEF StartHart
<1>2. TreeInv
  BY DEF Inv
<1>3. PICK pl : Trees(mem, pl, Roots)
  BY <1>2 DEF TreeInv
<1>4. Cut(Cost) /\ Linked \in {Cleared, Linked}
  BY <1>1, <1>2, <1>3, RootMakes
<1>5. /\ PartOf(free', left, Usable)
      /\ Moved(left, free', Section(left[i], HartStack))
  <2>1. left \in Seq(Usable) /\ Distinct(left)
    BY <1>4 DEF Cut, PartOf
  <2>2. Usable \subseteq Nat /\ HartStack \in Nat
    BY MemoryFacts, RequestAssumption DEF RequestAssumption
  <2> HIDE DEF left
  <2>3. i \in DOMAIN left /\ RunAt(left, i, HartStack, 1)
    BY <1>1, <2>1, RunIs
  <2> HIDE DEF i
  <2>4. RunOff(left, i, HartStack, Usable)
    BY <2>1, <2>2, <2>3, RunTaken
  <2>5. /\ PartOf(Without(left, i, HartStack), left, Usable)
        /\ Moved(left, Without(left, i, HartStack), Section(left[i], HartStack))
    BY <2>4 DEF RunOff
  <2> QED BY <1>1, <2>5
<1>6. \E h : /\ harts' = harts \cup {h} /\ h.root = free[1]
             /\ Moved(left, free', Section(h.stack, HartStack))
  <2> DEFINE h == [root |-> free[1], stack |-> left[i]]
  <2>1. harts' = harts \cup {h}
    BY DEF StartHart
  <2>2. h.root = free[1] /\ h.stack = left[i]
    OBVIOUS
  <2> HIDE DEF h, left, i
  <2> QED BY <1>5, <2>1, <2>2
<1> QED BY <1>4, <1>5, <1>6

LEMMA StartHartRest ==
    ASSUME Whole, StartHart, Clean'
    PROVE  Rest'
<1> DEFINE hart == [root |-> free[1], stack |-> After(Cost)[Run(After(Cost), HartStack, 1)]]
<1>1. /\ Booted /\ satp = kernel /\ work = Idle /\ ~panicked /\ Enough
      /\ mem' = WithRoot(Linked)
      /\ harts' = harts \cup {hart}
      /\ UNCHANGED <<kernel, satp, tasks, sections, work, tlb, panicked>>
  BY LinkedRoot DEF StartHart, AtBoot, Ready
<1>2. Inv /\ TreeInv /\ RootsInv
  BY DEF Whole, Inv
<1>4. Cut(Cost) /\ Linked \in {Cleared, Linked}
  BY <1>2, StartHartTakes
<1>5. PartOf(free', After(Cost), Usable)
  BY <1>2, StartHartTakes
<1>6. /\ Roots' \subseteq Roots \cup {free[1]} /\ Booted' /\ work.op = "idle" /\ work' = work
      /\ ~Loading /\ ~Loading'
  <2>1. hart.root = free[1]
    OBVIOUS
  <2> HIDE DEF hart
  <2> QED BY <1>1, <2>1, IdleIs DEF Roots, Loading, Booted
<1>7. Founded
  BY <1>1, <1>2, <1>4, <1>5, <1>6, Founding
<1>8. HalfInv' /\ ProgInv' /\ kernel # free[1]
  BY <1>1, <1>6, <1>7, RootKeeps
<1>9. \A c \in Limits' : c \in Limits /\ c.root = kernel
  BY <1>1, <1>6 DEF Limits, LowerHalf, Half, Booted
<1>10. \A c \in Limits' : IF c.root = free[1] THEN NewLimit(mem, satp, c) ELSE c \in Limits
  BY <1>8, <1>9
<1>11. \A c \in Clear' : IF c.root = free[1] THEN NewWay(Linked, c) ELSE c \in Clear
  <2> SUFFICES ASSUME NEW c \in Clear'
               PROVE  IF c.root = free[1] THEN NewWay(Linked, c) ELSE c \in Clear
    OBVIOUS
  <2>1. /\ c \in [root : Roots', page : LowerHalf]
        /\ c.root = kernel \/ Index(c.page, Levels) # 1
    BY <1>1 DEF Clear, LowerHalf, Half
  <2> QED BY <1>6, <1>8, <2>1 DEF Clear, NewWay
<1>12. WaysInv'
  BY <1>1, <1>4, <1>6, <1>10, <1>11, RootWays
<1>13. RootsInv' /\ LoadInv' /\ IoInv'
  BY <1>1, <1>2, <1>6 DEF RootsInv, LoadInv, IoInv
<1> QED BY <1>1, <1>8, <1>12, <1>13 DEF Rest

\* Under the bootloader's root map meets what it would have met at boot.
LEMMA BootPanics ==
    ASSUME Inv, NEW page \in Pages, NEW target \in 1 .. Levels,
           ~MapPanics(BootMem, BootRoot, page, target)
    PROVE  ~MapPanics(mem, BootRoot, page, target)
<1>1. BootInv /\ TreeInv
  BY DEF Inv
<1>2. \A t \in Boots : mem[t] = BootMem[t]
  BY <1>1 DEF BootInv
<1>3. Boots \subseteq DOMAIN mem /\ page \in Nat
  BY <1>1, LowerPages DEF TreeInv, Trees
<1>4. Unchanged(BootMem, mem, Boots, BootRoot, page, FALSE)
  <2> DEFINE n == mem
  <2>1. Boots \subseteq DOMAIN n /\ \A t \in Boots : n[t] = BootMem[t]
    BY <1>2, <1>3
  <2>2. FALSE \in BOOLEAN
    OBVIOUS
  <2> HIDE DEF n
  <2>3. Unchanged(BootMem, n, Boots, BootRoot, page, FALSE)
    BY <1>3, <2>1, <2>2, BootFacts, Kept
  <2> QED BY <2>3 DEF n
<1>5. Path(mem, BootRoot, page) = Path(BootMem, BootRoot, page)
  BY <1>4 DEF Unchanged
<1> DEFINE d == Deepest(mem, BootRoot, page, target)
<1>6. d = Deepest(BootMem, BootRoot, page, target)
  BY <1>5 DEF Deepest
<1>7. d \in target .. Levels /\ d \in 1 .. Levels /\ Path(BootMem, BootRoot, page)[d] \in Boots
  <2>1. EndsAt(BootMem, Boots, BootRoot, page, target, Deepest(BootMem, BootRoot, page, target))
    BY <1>3, BootFacts, DeepestIs
  <2> HIDE DEF d
  <2>2. EndsAt(BootMem, Boots, BootRoot, page, target, d)
    BY <1>6, <2>1
  <2>3. d \in d .. Levels
    BY <2>2, Shape DEF EndsAt
  <2> QED BY <2>2, <2>3 DEF EndsAt
<1>8. ~(d > target /\ BootMem[Path(BootMem, BootRoot, page)[d]][Index(page, d)].kind = "leaf")
  BY <1>6 DEF MapPanics
<1>9. ~(d > target /\ mem[Path(mem, BootRoot, page)[d]][Index(page, d)].kind = "leaf")
  BY <1>2, <1>5, <1>7, <1>8
<1> QED BY <1>9 DEF MapPanics, d

LEMMA VmmInitRest ==
    ASSUME Whole, vmm_init
    PROVE  Rest'
<1>1. /\ ~Booted /\ work = Idle /\ ~panicked /\ Enough
      /\ mem' = WithRoot(Cleared) /\ free' = After(Cost) /\ kernel' = free[1]
      /\ work' = [Idle EXCEPT !.op = "init", !.root = free[1], !.todo = IoRequests]
      /\ UNCHANGED <<satp, tasks, harts, sections, tlb, panicked>>
  BY DEF vmm_init, Ready
<1>2. Inv /\ HalfInv /\ TreeInv /\ WorkInv
  BY DEF Whole, Inv
<1>3. PICK pl : Trees(mem, pl, Roots)
  BY <1>2 DEF TreeInv
<1>4. Cut(Cost) /\ Cleared \in {Cleared, Linked}
  BY <1>1, <1>2, <1>3, RootMakes
<1>5. free[1] \in Nat \ {NoFrame} /\ free[1] \notin DOMAIN mem
  BY <1>4, MemoryFacts DEF Cut
<1>6. /\ work'.op = "init" /\ work'.root = free[1] /\ work'.todo = IoRequests
  <2> DEFINE root == free[1]
             rec(o, r, t) == [op |-> o, root |-> r, todo |-> t, segments |-> << >>, stack |-> 0]
  <2>1. Idle = rec("idle", NoFrame, << >>)
    BY DEF Idle
  <2>2. work' = [Idle EXCEPT !.op = "init", !.root = root, !.todo = IoRequests]
    BY <1>1
  <2> HIDE DEF root
  <2>3. work' = rec("init", root, IoRequests)
    <3>1. [rec("idle", NoFrame, << >>) EXCEPT !.op = "init"] = rec("init", NoFrame, << >>)
      OBVIOUS
    <3>2. [rec("init", NoFrame, << >>) EXCEPT !.root = root] = rec("init", root, << >>)
      OBVIOUS
    <3>3. [rec("init", root, << >>) EXCEPT !.todo = IoRequests] = rec("init", root, IoRequests)
      OBVIOUS
    <3> HIDE DEF rec
    <3> QED BY <2>1, <2>2, <3>1, <3>2, <3>3
  <2>4. work'.op = "init" /\ work'.root = root /\ work'.todo = IoRequests
    BY <2>3
  <2> QED BY <2>4 DEF root
<1>7. harts = {} /\ tasks = << >> /\ satp = BootRoot /\ ~Loading' /\ Booted'
  BY <1>1, <1>2, <1>5, <1>6 DEF HalfInv, WorkInv, Loading, Booted
<1>8. Roots' = {free[1]}
  BY <1>1, <1>7 DEF Roots
<1>9. \A i \in DOMAIN IoRequests : IoRequests[i] \in Requests /\ IoRequests[i].page \notin LowerHalf
  <2> DEFINE io == [page : Pages \ LowerHalf, frame : Nat, target : 1 .. Levels]
  <2>1. IoRequests \in Seq(io)
    BY RequestAssumption DEF RequestAssumption
  <2>2. \A r \in io : r \in Requests /\ r.page \notin LowerHalf
    BY DEF Requests
  <2> HIDE DEF io
  <2> QED BY <2>1, <2>2
<1>10. ASSUME NEW i \in DOMAIN IoRequests
       PROVE  /\ IoRequests[i].page \in Pages /\ IoRequests[i].target \in 1 .. Levels
              /\ ~MapPanics(mem, BootRoot, IoRequests[i].page, IoRequests[i].target)
  <2>1. IoRequests[i].page \in Pages /\ IoRequests[i].target \in 1 .. Levels
    BY <1>9 DEF Requests
  <2>2. ~MapPanics(BootMem, BootRoot, IoRequests[i].page, IoRequests[i].target)
    BY IoAssumption DEF IoAssumption
  <2> QED BY <1>2, <2>1, <2>2, BootPanics
<1>11. \A c \in Limits' : IF c.root = free[1] THEN NewLimit(mem, satp, c) ELSE c \in Limits
  <2> SUFFICES ASSUME NEW c \in Limits'
               PROVE  c.root = free[1] /\ NewLimit(mem, satp, c)
    OBVIOUS
  <2>1. /\ c \in [root : Nat, page : Pages, level : 1 .. Levels]
        /\ \/ c.root = kernel' /\ c.page \in LowerHalf /\ c.level = 1
           \/ /\ c.root = kernel'
              /\ \E i \in DOMAIN work'.todo : c.page = work'.todo[i].page /\ c.level = work'.todo[i].target
    BY <1>6 DEF Limits, LowerHalf, Half
  <2>2. CASE c.root = kernel' /\ c.page \in LowerHalf /\ c.level = 1
    BY <1>1, <2>1, <2>2 DEF NewLimit
  <2>3. CASE /\ c.root = kernel'
             /\ \E i \in DOMAIN work'.todo : c.page = work'.todo[i].page /\ c.level = work'.todo[i].target
    BY <1>1, <1>6, <1>7, <1>10, <2>1, <2>3 DEF NewLimit
  <2> QED BY <2>1, <2>2, <2>3
<1>12. \A c \in Clear' : IF c.root = free[1] THEN NewWay(Cleared, c) ELSE c \in Clear
  <2> SUFFICES ASSUME NEW c \in Clear'
               PROVE  c.root = free[1] /\ NewWay(Cleared, c)
    OBVIOUS
  <2>1. c \in [root : Roots', page : LowerHalf]
    BY DEF Clear, LowerHalf, Half
  <2> QED BY <1>8, <2>1 DEF NewWay
<1>13. WaysInv'
  BY <1>1, <1>4, <1>8, <1>11, <1>12, RootWays
<1>14. HalfInv' /\ RootsInv' /\ LoadInv' /\ ProgInv'
  BY <1>1, <1>6, <1>7 DEF HalfInv, RootsInv, LoadInv, ProgInv
<1>15. IoInv'
  <2>1. ASSUME NEW i \in DOMAIN IoRequests
        PROVE  LET r == IoRequests[i] IN
               /\ r.frame # NoFrame /\ r.frame % Span(r.target) = 0
               /\ \A g \in Section(r.frame, Span(r.target)) : g \notin Usable
               /\ \A j \in DOMAIN IoRequests : i # j =>
                     Prefix(IoRequests[j].page, r.target - 1) # Prefix(r.page, r.target - 1)
    <3> DEFINE r == IoRequests[i]
    <3>1. /\ r.frame # NoFrame /\ r.frame % Span(r.target) = 0
          /\ \A j \in DOMAIN Memory : Memory[j] \notin Section(r.frame, Span(r.target))
          /\ \A j \in DOMAIN IoRequests \ {i} :
                IoRequests[j].page \div Span(r.target) # r.page \div Span(r.target)
      BY IoAssumption DEF IoAssumption
    <3>2. \A g \in Section(r.frame, Span(r.target)) : g \notin Usable
      BY <3>1 DEF Usable
    <3> QED BY <3>1, <3>2 DEF Prefix, Span
  <2> QED BY <1>6, <2>1 DEF IoInv, Usable
<1> QED BY <1>1, <1>13, <1>14, <1>15 DEF Rest

-----------------------------------------------------------------------------
(* One page of a call                                                       *)

LEMMA UnmapNextRest ==
    ASSUME Whole, UnmapNext
    PROVE  Rest'
<1>1. PICK page : page = Head(work.todo).page
  OBVIOUS
<1>2. /\ work.op = "free" /\ work.todo # << >> /\ ~panicked
      /\ work' = [work EXCEPT !.todo = Tail(@)]
      /\ UNCHANGED <<kernel, satp, tasks, harts, sections>>
      /\ panicked' = UnmapPanics(mem, work.root, page)
      /\ ~panicked' => mem' = UnmapIn(mem, work.root, page)
  BY <1>1 DEF UnmapNext
<1>3. Inv /\ WaysInv /\ HalfInv /\ RootsInv /\ ProgInv /\ WorkInv /\ GrantInv
  BY DEF Whole, Inv
<1>4. Continued
  BY <1>2, <1>3, ContinuedIs
<1>5. PICK pl : Trees(mem, pl, Roots) /\ Fine(mem, pl, Limits, Clear)
  BY <1>3 DEF WaysInv
<1>6. /\ Popped /\ Roots' = Roots /\ Booted /\ Booted' /\ kernel \in Roots
      /\ work'.op = "free" /\ work'.root = work.root
  BY <1>1, <1>2, <1>4 DEF Continued, Popped
<1>7. /\ work.root = kernel /\ satp = kernel /\ page \in LowerHalf /\ page \in Pages
      /\ page \in TodoPages
  BY <1>1, <1>2, <1>3, <1>6, LowerPages DEF WorkInv, VmmWork, Popped, TodoPages
<1>8. Placed(mem, pl) /\ RootAt(pl, kernel) /\ \A r \in Roots : RootAt(pl, r)
      /\ DOMAIN mem = DOMAIN pl \cup Boots /\ DOMAIN pl \cap Boots = {}
  BY <1>5, <1>6 DEF Trees
<1>9. /\ Limited(mem, pl, Limits) /\ Unstale(mem, pl, Clear) /\ HalfTaken(mem, pl) /\ Homed(pl)
  BY <1>5 DEF Fine
<1>10. Limit(kernel, page, 1) \in Limits
  <2> DEFINE c == Limit(kernel, page, 1)
  <2>1. /\ c.root = kernel /\ c.page = page /\ c.level = 1
        /\ c = [root |-> kernel, page |-> page, level |-> 1]
    BY DEF Limit
  <2>2. kernel \in Nat /\ 1 \in 1 .. Levels
    BY <1>3, Shape DEF WorkInv
  <2>3. c \in [root : Nat, page : Pages, level : 1 .. Levels]
    BY <1>7, <2>1, <2>2
  <2> HIDE DEF c
  <2>4. c \in Limits
    BY <1>6, <1>7, <2>1, <2>3 DEF Limits
  <2> QED BY <2>4 DEF c
<1>11. ~panicked'
  <2>1. page \in Expected
    BY <1>2, <1>7 DEF Expected
  <2>2. virt_to_phys(mem, kernel, page) # NoFrame
    BY <1>2, <1>3, <1>6, <1>7, <2>1 DEF GrantInv, Mapped
  <2>3. ~UnmapPanics(mem, kernel, page)
    BY <1>7, <1>8, <1>9, <1>10, <2>2, LimitedUnmaps
  <2> QED BY <1>2, <1>7, <2>3
<1> DEFINE n == UnmapIn(mem, kernel, page)
           t == Path(mem, kernel, page)[1]
<1>12. Unmade(mem, n, pl, kernel, page, t) /\ mem' = n
  BY <1>2, <1>7, <1>8, <1>11, UnmapMakes
<1> HIDE DEF n, t
<1>13. Placed(n, pl)
  BY <1>7, <1>8, <1>12, UnmapPlaced
<1>14. \A r \in Roots, p \in Pages, hard \in BOOLEAN :
          Frame(n, r, p, hard) = IF r = kernel /\ p = page THEN NoFrame
                                 ELSE Frame(mem, r, p, hard)
  BY <1>7, <1>8, <1>12, UnmapWalks
<1>15. Limits' \subseteq Limits /\ Clear' = Clear
  BY <1>2, <1>6 DEF Limits, Clear, LowerHalf, Half
<1>16. WaysInv'
  <2>1. Limited(n, pl, Limits) /\ Unstale(n, pl, Clear) /\ HalfTaken(n, pl)
    BY <1>7, <1>8, <1>9, <1>12, UnmapKeepsWays
  <2>2. Limited(n, pl, Limits')
    BY <1>15, <2>1 DEF Limited
  <2>3. Fine(n, pl, Limits', Clear')
    BY <1>9, <1>15, <2>1, <2>2 DEF Fine
  <2>4. Trees(n, pl, Roots')
    <3>1. DOMAIN n = DOMAIN mem
      BY <1>12 DEF Unmade
    <3> QED BY <1>6, <1>8, <1>13, <3>1 DEF Trees
  <2>5. Trees(mem', pl, Roots') /\ Fine(mem', pl, Limits', Clear')
    BY <1>12, <2>3, <2>4
  <2> QED BY <2>5 DEF WaysInv
<1>17. HalfInv'
  <2>1. ASSUME NEW r \in Roots, NEW p \in Pages, NEW hard \in BOOLEAN, p \notin LowerHalf
        PROVE  Frame(mem', r, p, hard) = Frame(mem', kernel, p, hard)
    <3>1. p # page
      BY <1>7, <2>1
    <3>2. Frame(mem, r, p, hard) = Frame(mem, kernel, p, hard)
      BY <1>2, <1>3, <1>6, <2>1 DEF HalfInv
    <3> QED BY <1>6, <1>12, <1>14, <3>1, <3>2
  <2> QED BY <1>2, <1>6, <2>1 DEF HalfInv, LowerHalf, Half
<1>18. RootsInv'
  BY <1>2, <1>3, <1>6 DEF RootsInv, Loading
<1>19. ProgInv'
  <2>1. ASSUME NEW i \in DOMAIN tasks, NEW p \in LowerHalf
        PROVE  virt_to_phys(mem', tasks[i].root, p) = virt_to_phys(mem, tasks[i].root, p)
    <3>1. p \in Pages /\ FALSE \in BOOLEAN
      BY LowerPages
    <3>2. tasks[i].root \in Roots /\ tasks[i].root # kernel
      BY <1>3 DEF Roots, RootsInv
    <3> QED BY <1>12, <1>14, <3>1, <3>2 DEF virt_to_phys
  <2> QED BY <1>2, <1>3, <2>1 DEF ProgInv, LowerHalf, Half, Code, StackOf
<1>20. LoadInv' /\ IoInv'
  BY <1>6 DEF LoadInv, IoInv, Loading
<1> QED BY <1>11, <1>16, <1>17, <1>18, <1>19, <1>20 DEF Rest

LEMMA LimitIs ==
    ASSUME NEW r \in Nat, NEW p \in Pages, NEW l \in 1 .. Levels
    PROVE  /\ Limit(r, p, l).root = r /\ Limit(r, p, l).page = p /\ Limit(r, p, l).level = l
           /\ Limit(r, p, l) \in [root : Nat, page : Pages, level : 1 .. Levels]
BY DEF Limit

\* The first request of a call that maps.
Asked(root, page, target) ==
    /\ root = work.root /\ page = Head(work.todo).page /\ target = Head(work.todo).target
    /\ root \in Nat /\ page \in Pages /\ page \in Nat /\ target \in 1 .. Levels
    /\ work.op \in {"init", "alloc", "load", "stack"}
    /\ work.op = "init" => page \notin LowerHalf /\ root = kernel
    /\ work.op \in {"alloc", "load"} => target = 1
    /\ work.op = "stack" => target = 2
    /\ work.op # "init" => page \in LowerHalf
    /\ work.op = "alloc" => root = kernel
    /\ Loading => root # kernel /\ Request2(Head(work.todo))

LEMMA SpanHead ==
    /\ \A l \in 1 .. Levels : Span(l) \in Nat \ {0}
    /\ \A x \in Nat, l \in 1 .. Levels : x \in Section(x, Span(l))
<1>1. \A l \in 1 .. Levels : Span(l) \in Nat \ {0}
  BY PowerFacts, Shape DEF Span
<1>2. ASSUME NEW x \in Nat, NEW l \in 1 .. Levels
      PROVE  x \in Section(x, Span(l))
  <2>1. Span(l) \in Nat \ {0}
    BY <1>1
  <2> QED BY <2>1 DEF Section
<1> QED BY <1>1, <1>2

LEMMA AskedIs ==
    ASSUME Whole, MapNext
    PROVE  \E root, page, target : Asked(root, page, target)
<1> DEFINE r == Head(work.todo)
<1>1. /\ work.todo # << >> /\ work.op # "free"
      /\ work' = [work EXCEPT !.todo = Tail(@)]
      /\ UNCHANGED <<kernel, satp, tasks, harts, sections>>
  BY DEF MapNext, Mapping
<1>2. Inv /\ WorkInv /\ LoadInv
  BY DEF Whole, Inv
<1>3. Continued /\ Popped
  BY <1>1, <1>2, ContinuedIs DEF Continued
<1>4. /\ r = work.todo[1] /\ 1 \in DOMAIN work.todo /\ r \in Requests
  BY <1>3 DEF Popped
<1>5. r.page \in Pages /\ r.page \in Nat /\ r.target \in 1 .. Levels /\ work.root \in Nat
  BY <1>2, <1>4, PrefixEnds DEF Requests, WorkInv, Works
<1>6. work.op \in {"init", "alloc", "load", "stack"}
  <2>1. work.op \in {"idle", "init", "alloc", "free", "load", "stack"} /\ work.op # "idle"
    BY <1>1, <1>2 DEF WorkInv, Works
  <2> QED BY <1>1, <2>1
<1>7. work.op = "init" => r.page \notin LowerHalf /\ work.root = kernel
  BY <1>2, <1>4 DEF WorkInv
<1>8. work.op = "alloc" => r.target = 1 /\ r.page \in LowerHalf /\ work.root = kernel
  BY <1>2, <1>4 DEF WorkInv, VmmWork
<1>9. ASSUME Loading
      PROVE  /\ work.root # kernel /\ Request2(r) /\ r.page \in LowerHalf
             /\ r.target = IF work.op = "load" THEN 1 ELSE 2
  <2>1. Request2(r) /\ work.root # kernel
    BY <1>2, <1>4, <1>9 DEF LoadInv, WorkInv
  <2>2. r.page \in Block(r)
    BY <1>5, SpanHead DEF Block
  <2> QED BY <2>1, <2>2 DEF Request2
<1>10. Asked(work.root, r.page, r.target)
  BY <1>5, <1>6, <1>7, <1>8, <1>9 DEF Asked, Loading
<1> QED BY <1>10

\* What of it the limits of its call say: it finds no leaf in its way.
LEMMA AskedFits ==
    ASSUME Whole, MapNext, NEW root, NEW page, NEW target, Asked(root, page, target)
    PROVE  Limit(root, page, target) \in Limits
<1> DEFINE c == Limit(root, page, target)
<1>1. Inv /\ WorkInv
  BY DEF Whole, Inv
<1>2. /\ c.root = root /\ c.page = page /\ c.level = target
      /\ c \in [root : Nat, page : Pages, level : 1 .. Levels]
  BY LimitIs DEF Asked
<1>3. Booted
  <2>1. work.todo # << >> /\ work' = [work EXCEPT !.todo = Tail(@)]
        /\ UNCHANGED <<kernel, satp, tasks, harts, sections>>
    BY DEF MapNext, Mapping
  <2> QED BY <1>1, <2>1, ContinuedIs DEF Continued
<1> HIDE DEF c
<1>4. CASE work.op = "init"
  <2>1. 1 \in DOMAIN work.todo /\ Head(work.todo) = work.todo[1]
    <3>1. work.todo # << >> /\ work' = [work EXCEPT !.todo = Tail(@)]
          /\ UNCHANGED <<kernel, satp, tasks, harts, sections>>
      BY DEF MapNext, Mapping
    <3> QED BY <1>1, <3>1, ContinuedIs DEF Continued, Popped
  <2>2. c.page = work.todo[1].page /\ c.level = work.todo[1].target /\ c.root = kernel
    BY <1>2, <1>4, <2>1 DEF Asked
  <2> QED BY <1>2, <1>4, <2>1, <2>2 DEF Limits, c
<1>5. CASE work.op = "alloc"
  BY <1>2, <1>3, <1>5 DEF Asked, Limits, c
<1>6. CASE work.op = "load"
  BY <1>2, <1>6 DEF Asked, Limits, c
<1>7. CASE work.op = "stack"
  BY <1>2, <1>7 DEF Asked, Limits, c
<1> QED BY <1>4, <1>5, <1>6, <1>7 DEF Asked

\* After it no leaf may lie above the block it has mapped.
LEMMA AskedKeepsLimits ==
    ASSUME Whole, MapNext, NEW root, NEW page, NEW target, Asked(root, page, target),
           NEW c \in Limits', c.root = root, Prefix(c.page, target - 1) = Prefix(page, target - 1)
    PROVE  target <= c.level
<1>1. /\ work.todo # << >> /\ work' = [work EXCEPT !.todo = Tail(@)]
      /\ UNCHANGED <<kernel, satp, tasks, harts, sections>>
  BY DEF MapNext, Mapping
<1>2. Inv /\ WorkInv /\ IoInv
  BY DEF Whole, Inv
<1>3. /\ Head(work.todo) = work.todo[1] /\ 1 \in DOMAIN work.todo
      /\ work'.op = work.op /\ work'.root = work.root
      /\ \A j \in DOMAIN work'.todo : /\ j + 1 \in DOMAIN work.todo
                                      /\ work'.todo[j] = work.todo[j + 1]
      /\ \A j \in DOMAIN work'.todo : j \in Nat \ {0}
  <2>1. Popped
    BY <1>1, <1>2, ContinuedIs DEF Continued
  <2>2. work' \in Works
    BY <2>1 DEF Popped
  <2> QED BY <2>1, <2>2 DEF Popped, Works
<1>4. /\ c.page \in Pages /\ c.level \in 1 .. Levels
      /\ \/ c.root = kernel /\ c.page \in LowerHalf /\ c.level = 1
         \/ work.op = "load" /\ c.level = 1
         \/ work.op = "stack" /\ c.level = 2
         \/ /\ work.op = "init"
            /\ \E i \in DOMAIN work'.todo : c.page = work'.todo[i].page /\ c.level = work'.todo[i].target
  BY <1>1, <1>3 DEF Limits, LowerHalf, Half
<1>5. CASE target = 1
  BY <1>4, <1>5
<1>6. CASE work.op = "stack"
  BY <1>4, <1>6 DEF Asked, Loading
<1>7. CASE work.op = "init"
  <2>1. target - 1 \in 0 .. Levels - 1 /\ page \in Pages /\ page \notin LowerHalf
    BY <1>7, Shape DEF Asked
  <2> DEFINE k == target - 1
  <2>2. c.page \notin LowerHalf
    <3>1. k \in 0 .. Levels - 1 /\ Prefix(c.page, k) = Prefix(page, k)
      BY <2>1
    <3> HIDE DEF k
    <3> QED BY <1>4, <2>1, <3>1, SameHalf
  <2>3. PICK i \in DOMAIN work'.todo : c.page = work'.todo[i].page /\ c.level = work'.todo[i].target
    BY <1>4, <1>7, <2>2
  <2>4. /\ i + 1 \in DOMAIN work.todo /\ 1 < i + 1 /\ c.page = work.todo[i + 1].page
    BY <1>3, <2>3
  <2>5. Prefix(work.todo[i + 1].page, work.todo[1].target - 1)
           # Prefix(work.todo[1].page, work.todo[1].target - 1)
    BY <1>2, <1>3, <1>7, <2>4 DEF IoInv
  <2>6. page = work.todo[1].page /\ target = work.todo[1].target
    BY <1>3 DEF Asked
  <2> QED BY <2>4, <2>5, <2>6
<1> QED BY <1>5, <1>6, <1>7 DEF Asked

\* The tables it took, and where they are.
Grew(root, page, target, f) ==
    \E pl, q, tab, new, d : /\ Trees(mem, pl, Roots) /\ Fed(pl, new, f)
                            /\ MapTreed(pl, q, tab, new, root, page, f, target, d)

\* What the call has done to the walks, when it has not panicked.
Behaved(root, page, target, f) ==
    /\ ~panicked' /\ f \in Nat
    /\ Grew(root, page, target, f)
    /\ Drawn(root, page, f, target)
    /\ Head(work.todo).frame # NoFrame => f = Head(work.todo).frame
    /\ \A p \in Pages : Prefix(p, target - 1) = Prefix(page, target - 1) =>
          virt_to_phys(mem', root, p) = Behind(Leaf(f), target, p)
    /\ Holds(free') \subseteq Holds(free)

LEMMA MapNextWays ==
    ASSUME Whole, MapNext, NEW root, NEW page, NEW target, Asked(root, page, target)
    PROVE  WaysInv' /\ \E f : Behaved(root, page, target, f)
<1>1. /\ work.todo # << >> /\ work.op # "free" /\ ~panicked
      /\ work' = [work EXCEPT !.todo = Tail(@)]
      /\ UNCHANGED <<kernel, satp, tasks, harts, sections>>
      /\ panicked' = MapPanics(mem, root, page, target)
  BY DEF MapNext, Mapping, Asked
<1>2. Inv /\ WaysInv
  BY DEF Whole
<1>3. Continued
  BY <1>1, <1>2, ContinuedIs
<1>4. PICK pl : Trees(mem, pl, Roots) /\ Fine(mem, pl, Limits, Clear)
  BY <1>2 DEF WaysInv
<1>5. Limit(root, page, target) \in Limits
  BY AskedFits
<1>6. /\ Limited(mem, pl, Limits) /\ Unstale(mem, pl, Clear) /\ HalfTaken(mem, pl) /\ Homed(pl)
      /\ Placed(mem, pl)
  BY <1>4 DEF Fine, Trees
<1>7. root = work.root /\ page = Head(work.todo).page /\ target = Head(work.todo).target
      /\ page \in Pages /\ target \in 1 .. Levels
  BY DEF Asked
<1>8. root \in Roots
  <2>1. WorkInv /\ kernel \in Roots
    BY <1>2, <1>3 DEF Inv, Continued
  <2>2. CASE Loading
    BY <1>7, <2>2 DEF Roots
  <2>3. CASE ~Loading
    <3>1. root = kernel
      BY <2>1, <2>3 DEF Asked, Loading
    <3> QED BY <2>1, <3>1
  <2> QED BY <2>2, <2>3
<1>9. RootAt(pl, root)
  BY <1>4, <1>8 DEF Trees
<1>10. ~panicked'
  BY <1>1, <1>5, <1>6, <1>7, <1>9, LimitedMaps
<1>11. PICK new, f : Fed(pl, new, f)
  BY <1>2, <1>3, <1>4, <1>10, FedIs
<1>12. Drawn(root, page, f, target)
  BY <1>1, <1>2, <1>3, <1>4, <1>7, <1>11, DrawnIs
<1>13. PICK q, tab, d : MapTreed(pl, q, tab, new, root, page, f, target, d)
  BY <1>2, <1>4, <1>7, <1>11, MapTrees
<1>14. /\ Made(mem, mem', pl, tab, root, page, f, target, d)
       /\ Extends(q, pl, tab, root, page, target, d)
       /\ Trees(mem', q, Roots)
  BY <1>13 DEF MapTreed
<1>15. /\ f \in Nat /\ PartOf(free', free, Usable)
       /\ Head(work.todo).frame # NoFrame => f = Head(work.todo).frame
  BY <1>11 DEF Fed, MapCall
<1>16. Limits' \subseteq Limits /\ Clear' = Clear
  <2>1. /\ work'.op = work.op /\ work'.root = work.root
        /\ \A j \in DOMAIN work'.todo : /\ j + 1 \in DOMAIN work.todo
                                        /\ work'.todo[j] = work.todo[j + 1]
    BY <1>3 DEF Continued, Popped
  <2>2. Booted' = Booted /\ Roots' = Roots
    BY <1>1, <1>3 DEF Booted, Continued
  <2> QED BY <1>1, <2>1, <2>2 DEF Limits, Clear, LowerHalf, Half
<1>17. WaysInv'
  <2> DEFINE limits == Limits'
  <2>1. Limited(mem, pl, limits)
    BY <1>6, <1>16 DEF Limited
  <2>2. \A c \in limits : c.root = root /\ Prefix(c.page, target - 1) = Prefix(page, target - 1)
                             => target <= c.level
    BY AskedKeepsLimits
  <2> HIDE DEF limits
  <2>3. Limited(mem', q, limits) /\ Unstale(mem', q, Clear) /\ HalfTaken(mem', q)
    BY <1>6, <1>7, <1>14, <1>15, <2>1, <2>2, MapKeepsWays
  <2>4. Homed(q)
    <3>1. root \in DOMAIN pl
      BY <1>9 DEF RootAt
    <3> SUFFICES ASSUME NEW t \in DOMAIN q PROVE q[t].root \in DOMAIN q
      BY DEF Homed
    <3>2. DOMAIN pl \subseteq DOMAIN q
      BY <1>14 DEF Extends
    <3>3. CASE t \in DOMAIN pl
      BY <1>6, <1>14, <3>2, <3>3 DEF Homed, Extends
    <3>4. CASE t \notin DOMAIN pl
      <4>1. PICK k \in target .. d - 1 : t = tab[k]
        BY <1>14, <3>4 DEF Extends
      <4>2. d \in target .. Levels
        BY <1>14 DEF Made
      <4>3. k \in target .. d
        BY <1>7, <4>1, <4>2
      <4>4. q[t] = Place(root, k, Prefix(page, k))
        BY <1>14, <4>1, <4>3 DEF Extends
      <4> QED BY <3>1, <3>2, <4>4 DEF Place
    <3> QED BY <3>3, <3>4
  <2>5. Fine(mem', q, limits, Clear)
    BY <2>3, <2>4 DEF Fine
  <2>6. Trees(mem', q, Roots') /\ Fine(mem', q, Limits', Clear')
    BY <1>3, <1>14, <1>16, <2>5 DEF limits, Continued
  <2> QED BY <2>6 DEF WaysInv
<1>18. Behaved(root, page, target, f)
  <2>1. ASSUME NEW p \in Pages, Prefix(p, target - 1) = Prefix(page, target - 1)
        PROVE  virt_to_phys(mem', root, p) = Behind(Leaf(f), target, p)
    <3>1. \A hard \in BOOLEAN :
             Frame(mem', root, p, hard) = IF hard /\ Refused(mem', root, p, target) THEN NoFrame
                                          ELSE Behind(Leaf(f), target, p)
      BY <1>6, <1>7, <1>9, <1>14, <1>15, <2>1, MapThere
    <3>2. FALSE \in BOOLEAN
      OBVIOUS
    <3>3. Frame(mem', root, p, FALSE) = Behind(Leaf(f), target, p)
      BY <3>1, <3>2, Zenon
    <3> QED BY <3>3 DEF virt_to_phys
  <2>2. Grew(root, page, target, f)
    BY <1>4, <1>11, <1>13, Zenon DEF Grew
  <2> QED BY <1>10, <1>12, <1>15, <2>1, <2>2 DEF Behaved, PartOf
<1> QED BY <1>17, <1>18

\* The rest of the list, and what of the call stays.
Shifted ==
    /\ Head(work.todo) = work.todo[1] /\ 1 \in DOMAIN work.todo
    /\ work'.op = work.op /\ work'.root = work.root /\ work'.segments = work.segments
    /\ work'.stack = work.stack
    /\ \A j \in DOMAIN work'.todo : /\ j \in Nat \ {0} /\ j + 1 \in DOMAIN work.todo /\ j + 1 # 1
                                    /\ work'.todo[j] = work.todo[j + 1]
    /\ \A j \in DOMAIN work.todo : j # 1 => /\ j - 1 \in DOMAIN work'.todo
                                            /\ work'.todo[j - 1] = work.todo[j]
    /\ DOMAIN work.todo \subseteq Nat
    /\ Roots' = Roots /\ Booted /\ Booted' /\ Loading' = Loading /\ kernel \in Roots

LEMMA ShiftedIs ==
    ASSUME Inv, MapNext
    PROVE  Shifted
<1>1. /\ work.todo # << >> /\ work' = [work EXCEPT !.todo = Tail(@)]
      /\ UNCHANGED <<kernel, satp, tasks, harts, sections>>
  BY DEF MapNext, Mapping
<1>2. Continued
  BY <1>1, ContinuedIs
<1>3. work'.stack = work.stack
  <2>1. work \in Works
    BY DEF Inv, WorkInv
  <2> DEFINE w == work
             rest == Tail(work.todo)
  <2>2. w = [op |-> w.op, root |-> w.root, todo |-> w.todo, segments |-> w.segments, stack |-> w.stack]
    BY <2>1, WorkIs
  <2>3. work' = [w EXCEPT !.todo = rest]
    BY <1>1
  <2> HIDE DEF w, rest
  <2>4. [w EXCEPT !.todo = rest].stack = w.stack
    BY <2>2
  <2> QED BY <2>3, <2>4 DEF w
<1>4. work \in Works /\ work' \in Works /\ Popped
  BY <1>2 DEF Inv, WorkInv, Continued, Popped
<1>5. \A j \in DOMAIN work'.todo : j \in Nat \ {0}
  BY <1>4 DEF Works
<1>6. DOMAIN work.todo \subseteq Nat
  BY <1>4 DEF Works
<1> QED BY <1>2, <1>3, <1>4, <1>5, <1>6 DEF Shifted, Continued, Popped, Loading

LEMMA MapNextHalf ==
    ASSUME Whole, MapNext, Shifted, NEW root, NEW page, NEW target, Asked(root, page, target),
           NEW f, Behaved(root, page, target, f)
    PROVE  HalfInv' /\ RootsInv' /\ ProgInv'
<1>1. HalfInv /\ RootsInv /\ ProgInv /\ UNCHANGED <<kernel, tasks, harts>>
  BY DEF Whole, MapNext
<1>2. \A r \in Roots, p \in Pages, hard \in BOOLEAN :
         r # root \/ Prefix(p, target - 1) # Prefix(page, target - 1) =>
            Frame(mem', r, p, hard) = Frame(mem, r, p, hard)
  BY DEF Behaved, Drawn
<1>3. /\ work'.op = work.op /\ work'.root = work.root
      /\ Roots' = Roots /\ Booted /\ Booted' /\ Loading' = Loading /\ kernel \in Roots
  BY DEF Shifted
<1>4. HalfInv'
  <2>1. ASSUME work.op # "init", NEW r \in Roots, NEW p \in Pages, NEW hard \in BOOLEAN, p \notin LowerHalf
        PROVE  Frame(mem', r, p, hard) = Frame(mem', kernel, p, hard)
    <3> DEFINE k == target - 1
    <3>1. k \in 0 .. Levels - 1 /\ page \in Pages /\ page \in LowerHalf
      BY <2>1, Shape DEF Asked
    <3>2. Prefix(p, k) # Prefix(page, k)
      <4> HIDE DEF k
      <4> QED BY <2>1, <3>1, SameHalf
    <3>3. /\ Frame(mem', r, p, hard) = Frame(mem, r, p, hard)
          /\ Frame(mem', kernel, p, hard) = Frame(mem, kernel, p, hard)
      BY <1>2, <1>3, <3>2
    <3>4. Frame(mem, r, p, hard) = Frame(mem, kernel, p, hard)
      BY <1>1, <1>3, <2>1 DEF HalfInv
    <3> QED BY <3>3, <3>4
  <2>2. work.op = "init" => harts = {} /\ tasks = << >>
    BY <1>1 DEF HalfInv
  <2> QED BY <1>1, <1>3, <2>1, <2>2 DEF HalfInv, LowerHalf, Half
<1>5. RootsInv'
  BY <1>1, <1>3 DEF RootsInv
<1>6. ProgInv'
  <2>1. ASSUME NEW t \in DOMAIN tasks, NEW p \in LowerHalf
        PROVE  virt_to_phys(mem', tasks[t].root, p) = virt_to_phys(mem, tasks[t].root, p)
    <3>1. p \in Pages /\ FALSE \in BOOLEAN
      BY LowerPages
    <3>2. tasks[t].root \in Roots
      BY DEF Roots
    <3>3. tasks[t].root # root
      <4>1. CASE work.op = "init"
        <5>1. tasks = << >>
          BY <1>1, <4>1 DEF HalfInv
        <5> QED BY <5>1
      <4>2. CASE work.op = "alloc"
        BY <1>1, <4>2 DEF Asked, RootsInv
      <4>3. CASE Loading
        BY <1>1, <4>3 DEF Asked, RootsInv
      <4> QED BY <4>1, <4>2, <4>3 DEF Asked, Loading
    <3> QED BY <1>2, <3>1, <3>2, <3>3 DEF virt_to_phys
  <2> QED BY <1>1, <2>1 DEF ProgInv, LowerHalf, Half, Code, StackOf
<1> QED BY <1>4, <1>5, <1>6

LEMMA MapNextIo ==
    ASSUME Whole, MapNext, Shifted
    PROVE  IoInv'
<1>1. IoInv
  BY DEF Whole
<1> DEFINE list == work'.todo
<1>2. work'.op = work.op /\ \A j \in DOMAIN list : /\ j \in Nat \ {0} /\ j + 1 \in DOMAIN work.todo
                                                  /\ list[j] = work.todo[j + 1]
  BY DEF Shifted
<1>3. ASSUME work.op = "init", NEW i \in DOMAIN list
      PROVE  /\ list[i].frame # NoFrame /\ list[i].frame % Span(list[i].target) = 0
             /\ \A g \in Section(list[i].frame, Span(list[i].target)) : g \notin Usable
             /\ \A j \in DOMAIN list : i # j =>
                   Prefix(list[j].page, list[i].target - 1) # Prefix(list[i].page, list[i].target - 1)
  <2> DEFINE r == work.todo[i + 1]
  <2>1. i + 1 \in DOMAIN work.todo /\ list[i] = r /\ i \in Nat
    BY <1>2
  <2>2. /\ r.frame # NoFrame /\ r.frame % Span(r.target) = 0
        /\ \A g \in Section(r.frame, Span(r.target)) : g \notin Usable
        /\ \A j \in DOMAIN work.todo : i + 1 # j =>
              Prefix(work.todo[j].page, r.target - 1) # Prefix(r.page, r.target - 1)
    BY <1>1, <1>3, <2>1 DEF IoInv
  <2>3. ASSUME NEW j \in DOMAIN list, i # j
        PROVE  Prefix(list[j].page, r.target - 1) # Prefix(r.page, r.target - 1)
    <3>1. j \in Nat /\ j + 1 \in DOMAIN work.todo /\ list[j] = work.todo[j + 1] /\ i + 1 # j + 1
      BY <1>2, <2>1, <2>3
    <3> QED BY <2>2, <3>1
  <2> HIDE DEF r, list
  <2> QED BY <2>1, <2>2, <2>3
<1> QED BY <1>2, <1>3 DEF IoInv, Usable, Section

\* A block that a request of the loader is for, and the frames behind it.
LEMMA RequestBlock ==
    ASSUME NEW target \in 1 .. Levels, NEW page \in Nat, page % Span(target) = 0,
           NEW f \in Nat, f % Span(target) = 0, NEW p \in Nat
    PROVE  /\ p \in Section(page, Span(target)) <=> Prefix(p, target - 1) = Prefix(page, target - 1)
           /\ Behind(Leaf(f), target, p) \in Section(f, Span(target))
<1> DEFINE l == target - 1
           d == Span(target)
<1>1. l \in 0 .. Levels /\ d = Power[l] /\ d \in Nat \ {0}
  BY Shape, SpanHead DEF Span
<1>2. p \in Section(page, Power[l]) <=> Prefix(p, l) = Prefix(page, l)
  <2>1. page % Power[l] = 0
    BY <1>1
  <2> HIDE DEF l, d
  <2> QED BY <1>1, <2>1, BlockIs
<1>3. Behind(Leaf(f), target, p) = f - 0 + (p % d)
  BY DEF Behind, Leaf
<1>4. p % d \in 0 .. d - 1
  <2> HIDE DEF d
  <2> QED BY <1>1, Division
<1>5. f - 0 + (p % d) \in Section(f, d)
  <2> DEFINE x == p % d
  <2>1. x \in 0 .. d - 1
    BY <1>4
  <2> HIDE DEF x, d
  <2>2. f - 0 + x \in Section(f, d)
    BY <1>1, <2>1 DEF Section
  <2> QED BY <2>2 DEF x
<1> QED BY <1>1, <1>2, <1>3, <1>5

\* Requests of one size for different pages are for different blocks.
LEMMA BlocksApart ==
    ASSUME NEW target \in 1 .. Levels, NEW a \in Nat, a % Span(target) = 0,
           NEW b \in Nat, b % Span(target) = 0, a # b
    PROVE  Section(a, Span(target)) \cap Section(b, Span(target)) = {}
<1> SUFFICES ASSUME NEW x, x \in Section(a, Span(target)), x \in Section(b, Span(target))
             PROVE  FALSE
  OBVIOUS
<1> DEFINE d == Span(target)
           l == target - 1
<1>1. d \in Nat \ {0} /\ 0 \in Nat /\ 0 % d = 0 /\ d = Power[l] /\ l \in 0 .. Levels
  BY SpanHead, Shape DEF Span
<1>2. x \in Nat
  <2>1. x \in Section(a, d)
    OBVIOUS
  <2> HIDE DEF d
  <2> QED BY <1>1, <2>1 DEF Section
<1>3. Prefix(x, l) = Prefix(a, l) /\ Prefix(x, l) = Prefix(b, l)
  <2>1. /\ a % Power[l] = 0 /\ b % Power[l] = 0 /\ x \in Section(a, Power[l])
        /\ x \in Section(b, Power[l])
    BY <1>1
  <2> HIDE DEF d, l
  <2> QED BY <1>1, <1>2, <2>1, BlockIs
<1>4. a \div d = b \div d
  BY <1>1, <1>3 DEF Prefix
<1>5. a % d = 0 /\ b % d = 0
  OBVIOUS
<1> HIDE DEF d, l
<1>6. a = d * (a \div d) + (a % d) /\ b = d * (b \div d) + (b % d)
  <2>1. d \in Nat /\ d > 0
    BY <1>1
  <2>2. a = d * (a \div d) + (a % d)
    BY <2>1, Division
  <2>3. b = d * (b \div d) + (b % d)
    BY <2>1, Division
  <2> QED BY <2>2, <2>3
<1> QED BY <1>4, <1>5, <1>6

LEMMA MapNextLoad ==
    ASSUME Whole, MapNext, Shifted, NEW root, NEW page, NEW target, Asked(root, page, target),
           NEW f, Behaved(root, page, target, f), Loading
    PROVE  LoadInv'
<1> DEFINE r == Head(work.todo)
           list == work'.todo
           A == (Code(Programs[Len(tasks) + 1]) \ Code(work.segments))
                   \cup (IF work.op = "stack" THEN StackOf(work.stack) ELSE {})
<1>1. LoadInv /\ Inv /\ UNCHANGED <<kernel, tasks>>
  BY DEF Whole, MapNext
<1>2. /\ r = work.todo[1] /\ 1 \in DOMAIN work.todo
      /\ work'.op = work.op /\ work'.root = work.root /\ work'.segments = work.segments
      /\ work'.stack = work.stack
      /\ \A j \in DOMAIN list : /\ j + 1 \in DOMAIN work.todo /\ j + 1 # 1 /\ j \in Nat
                                /\ list[j] = work.todo[j + 1]
      /\ \A j \in DOMAIN work.todo : j # 1 => /\ j - 1 \in DOMAIN list
                                              /\ list[j - 1] = work.todo[j]
      /\ Roots' = Roots
  BY DEF Shifted
<1>3. /\ root = work.root /\ page = r.page /\ target = r.target /\ page \in Nat /\ target \in 1 .. Levels
      /\ Request2(r)
  BY DEF Asked
<1>4. /\ \A i \in DOMAIN work.todo : Request2(work.todo[i])
      /\ \A i, j \in DOMAIN work.todo : work.todo[i].page = work.todo[j].page => i = j
      /\ \A p \in LowerHalf : virt_to_phys(mem, work.root, p) # NoFrame <=> p \in LoadedPages
      /\ Apart(work.segments) /\ Code(work.segments) \cap TodoBlocks = {}
      /\ Code(work.segments) \cup TodoBlocks \subseteq ProgramPages
      /\ work.op = "stack" => work.segments = << >>
  BY <1>1 DEF LoadInv
<1>5. \A i \in DOMAIN work.todo : work.todo[i].page \in Nat /\ work.todo[i].frame \in Nat
  <2>1. work.todo \in Seq(Requests)
    BY <1>1 DEF Inv, WorkInv, Works
  <2>2. \A i \in DOMAIN work.todo : work.todo[i] \in Requests
    BY <2>1
  <2> QED BY <2>2, PrefixEnds DEF Requests
<1> HIDE DEF r, list, A
<1>6. root \in Roots
  BY <1>3 DEF Roots
<1>7. /\ \A p \in Pages : Prefix(p, target - 1) # Prefix(page, target - 1) =>
            virt_to_phys(mem', root, p) = virt_to_phys(mem, root, p)
      /\ \A p \in Pages : Prefix(p, target - 1) = Prefix(page, target - 1) =>
            virt_to_phys(mem', root, p) = Behind(Leaf(f), target, p)
      /\ Holds(free') \subseteq Holds(free)
      /\ f = r.frame
  <2>1. FALSE \in BOOLEAN
    OBVIOUS
  <2> QED BY <1>3, <1>6, <2>1 DEF Behaved, Drawn, virt_to_phys, Request2, r
<1>8. \A k \in DOMAIN work'.todo : Request2(work.todo[k])'
  <2> SUFFICES ASSUME NEW k \in DOMAIN work'.todo PROVE Request2(work.todo[k])'
    OBVIOUS
  <2> DEFINE x == work'.todo[k]
  <2>1. Request2(work.todo[k])' <=>
          /\ x.target = (IF work'.op = "load" THEN 1 ELSE 2)
          /\ x.page % Span(x.target) = 0 /\ Block(x) \subseteq LowerHalf
          /\ x.frame # NoFrame /\ x.frame % Span(x.target) = 0
          /\ \A g \in Section(x.frame, Span(x.target)) : g \in Usable /\ g \notin Holds(free')
    BY DEF Request2, Block, Usable, Holds, LowerHalf, Half
  <2>2. Request2(x)
    BY <1>2, <1>4 DEF list
  <2> HIDE DEF x
  <2> QED BY <1>2, <1>7, <2>1, <2>2 DEF Request2
<1>9. \A i, j \in DOMAIN list : list[i].page = list[j].page => i = j
  <2> SUFFICES ASSUME NEW i \in DOMAIN list, NEW j \in DOMAIN list, list[i].page = list[j].page
               PROVE  i = j
    OBVIOUS
  <2>1. /\ i + 1 \in DOMAIN work.todo /\ list[i] = work.todo[i + 1] /\ i \in Nat
        /\ j + 1 \in DOMAIN work.todo /\ list[j] = work.todo[j + 1] /\ j \in Nat
    BY <1>2
  <2>2. i + 1 = j + 1
    BY <1>4, <2>1
  <2> QED BY <2>1, <2>2
<1> DEFINE left == UNION {Block(list[k]) : k \in DOMAIN list}
<1>10. TodoBlocks' = left
  BY DEF TodoBlocks, Block, list
<1>11. TodoBlocks = Block(r) \cup left
  <2>1. Block(r) \subseteq TodoBlocks
    BY <1>2 DEF TodoBlocks
  <2>2. left \subseteq TodoBlocks
    BY <1>2 DEF TodoBlocks
  <2>3. ASSUME NEW x \in TodoBlocks PROVE x \in Block(r) \cup left
    <3>1. PICK j \in DOMAIN work.todo : x \in Block(work.todo[j])
      BY <2>3 DEF TodoBlocks
    <3>2. CASE j = 1
      BY <1>2, <3>1, <3>2
    <3>3. CASE j # 1
      <4>1. j - 1 \in DOMAIN list /\ list[j - 1] = work.todo[j]
        BY <1>2, <3>3
      <4> QED BY <3>1, <4>1
    <3> QED BY <3>2, <3>3
  <2> QED BY <2>1, <2>2, <2>3
<1>12. Block(r) \cap left = {}
  <2> SUFFICES ASSUME NEW j \in DOMAIN list PROVE Block(r) \cap Block(list[j]) = {}
    OBVIOUS
  <2>1. j + 1 \in DOMAIN work.todo /\ j + 1 # 1 /\ list[j] = work.todo[j + 1]
    BY <1>2
  <2>2. /\ list[j].page # page /\ list[j].page \in Nat /\ Request2(list[j])
    BY <1>2, <1>3, <1>4, <1>5, <2>1
  <2>3. list[j].target = target /\ list[j].page % Span(target) = 0 /\ page % Span(target) = 0
    BY <1>3, <2>2 DEF Request2
  <2> DEFINE b == list[j].page
  <2>4. Block(r) = Section(page, Span(target)) /\ Block(list[j]) = Section(b, Span(target))
    BY <1>3, <2>3 DEF Block
  <2>5. b \in Nat /\ b # page /\ b % Span(target) = 0
    BY <2>2, <2>3
  <2> HIDE DEF b
  <2>6. Section(page, Span(target)) \cap Section(b, Span(target)) = {}
    BY <1>3, <2>3, <2>5, BlocksApart
  <2> QED BY <2>4, <2>6
<1> HIDE DEF left
<1>13. LoadedPages = A \ TodoBlocks /\ ProgramPages \ Code(work.segments) \subseteq A
  BY DEF LoadedPages, ProgramPages, A
<1>14. LoadedPages' = A \ TodoBlocks' /\ ProgramPages' = ProgramPages
       /\ Code(work.segments)' = Code(work.segments) /\ Apart(work.segments)'
  <2>1. Code(work.segments)' = Code(work.segments) /\ StackOf(work.stack)' = StackOf(work.stack)
        /\ Code(Programs[Len(tasks) + 1])' = Code(Programs[Len(tasks) + 1])
    BY <1>1, <1>2 DEF Code, StackOf, Section
  <2>2. Apart(work.segments)'
    BY <1>2, <1>4 DEF Apart, Section
  <2> QED BY <1>2, <2>1, <2>2 DEF LoadedPages, ProgramPages, A
<1>15. ASSUME NEW p \in LowerHalf
       PROVE  virt_to_phys(mem', root, p) # NoFrame <=> p \in LoadedPages'
  <2>1. p \in Pages /\ p \in Nat
    BY LowerPages
  <2>2. /\ page % Span(target) = 0 /\ f \in Nat /\ f % Span(target) = 0
        /\ \A g \in Section(f, Span(target)) : g \in Usable
    BY <1>2, <1>3, <1>5, <1>7 DEF Request2
  <2>3. /\ p \in Section(page, Span(target)) <=> Prefix(p, target - 1) = Prefix(page, target - 1)
        /\ Behind(Leaf(f), target, p) \in Section(f, Span(target))
    BY <1>3, <2>1, <2>2, RequestBlock
  <2>4. p \in Block(r) <=> Prefix(p, target - 1) = Prefix(page, target - 1)
    BY <1>3, <2>3 DEF Block
  <2>5. CASE p \in Block(r)
    <3>1. virt_to_phys(mem', root, p) # NoFrame
      BY <1>7, <2>1, <2>2, <2>3, <2>4, <2>5, MemoryFacts
    <3>2. p \in A /\ p \notin left
      BY <1>4, <1>11, <1>12, <1>13, <2>5
    <3> QED BY <1>10, <1>14, <3>1, <3>2
  <2>6. CASE p \notin Block(r)
    <3>1. virt_to_phys(mem', root, p) = virt_to_phys(mem, root, p)
      BY <1>7, <2>1, <2>4, <2>6
    <3>2. p \in TodoBlocks <=> p \in left
      BY <1>11, <2>6
    <3> QED BY <1>3, <1>4, <1>10, <1>13, <1>14, <3>1, <3>2
  <2> QED BY <2>5, <2>6
<1>16. LoadInv'
  <2>1. \A p \in LowerHalf : virt_to_phys(mem', work'.root, p) # NoFrame <=> p \in LoadedPages'
    BY <1>2, <1>3, <1>15
  <2>2. \A i, j \in DOMAIN work'.todo : work'.todo[i].page = work'.todo[j].page => i = j
    BY <1>9 DEF list
  <2>3. Code(work.segments)' \cap TodoBlocks' = {}
        /\ Code(work.segments)' \cup TodoBlocks' \subseteq ProgramPages'
    BY <1>4, <1>10, <1>11, <1>14
  <2>4. work'.op = "stack" => work'.segments = << >>
    BY <1>2, <1>4
  <2> QED BY <1>8, <1>14, <2>1, <2>2, <2>3, <2>4 DEF LoadInv, LowerHalf, Half
<1> QED BY <1>16

LEMMA MapNextRest ==
    ASSUME Whole, MapNext
    PROVE  Rest'
<1>1. Shifted
  BY ShiftedIs DEF Whole
<1>2. PICK root, page, target : Asked(root, page, target)
  BY AskedIs
<1>3. WaysInv' /\ \E f : Behaved(root, page, target, f)
  BY <1>2, MapNextWays
<1>4. PICK f : Behaved(root, page, target, f)
  BY <1>3
<1>5. HalfInv' /\ RootsInv' /\ ProgInv'
  BY <1>1, <1>2, <1>4, MapNextHalf
<1>6. LoadInv'
  <2>1. CASE Loading
    BY <1>1, <1>2, <1>4, <2>1, MapNextLoad
  <2>2. CASE ~Loading
    BY <1>1, <2>2 DEF Shifted, LoadInv
  <2> QED BY <2>1, <2>2
<1>7. IoInv'
  BY <1>1, MapNextIo
<1> QED BY <1>3, <1>4, <1>5, <1>6, <1>7 DEF Rest, Behaved

-----------------------------------------------------------------------------
(* The invariant of every behaviour                                         *)

LEMMA InitWhole == Init => Whole
<1> SUFFICES ASSUME Init PROVE Whole
  OBVIOUS
<1>1. /\ mem = BootMem /\ kernel = NoFrame /\ tasks = << >> /\ harts = {} /\ ~panicked
      /\ work = Idle
  BY DEF Init
<1>2. Inv
  BY InitInv
<1>3. work.op = "idle" /\ ~Loading /\ ~Booted
  BY <1>1, IdleIs DEF Loading, Booted
<1>4. Roots = {}
  BY <1>1, <1>3 DEF Roots
<1>5. Limits = {} /\ Clear = {}
  BY <1>3, <1>4 DEF Limits, Clear, Loading
<1>6. WaysInv
  <2>1. PICK pl : Trees(mem, pl, Roots)
    BY <1>2 DEF Inv, TreeInv
  <2>2. DOMAIN pl = {}
    BY <1>1, <2>1 DEF Trees, Boots
  <2>3. Fine(mem, pl, Limits, Clear)
    BY <1>5, <2>2 DEF Fine, Homed, Limited, Unstale, HalfTaken
  <2> QED BY <2>1, <2>3 DEF WaysInv
<1>7. HalfInv /\ RootsInv /\ LoadInv /\ ProgInv /\ IoInv
  BY <1>1, <1>3 DEF HalfInv, RootsInv, LoadInv, ProgInv, IoInv
<1> QED BY <1>1, <1>2, <1>6, <1>7 DEF Whole

LEMMA NextWhole ==
    ASSUME Regular, Whole, [Next]_vars, Clean'
    PROVE  Whole'
<1>1. Inv /\ Inv'
  BY NextInv DEF Whole
<1>2. CASE vmm_init \/ StartHart \/ Load
  BY <1>1, <1>2, VmmInitRest, StartHartRest, LoadRest DEF Rest, Whole
<1>3. CASE LoadSegment \/ LoadStack \/ LoadDone
  BY <1>1, <1>3, LoadSegmentRest, LoadStackRest, LoadDoneRest DEF Rest, Whole
<1>4. CASE MapNext \/ UnmapNext
  BY <1>1, <1>4, MapNextRest, UnmapNextRest DEF Rest, Whole
<1>5. CASE InitDone \/ CallDone \/ (\E c \in Calls : Alloc(c)) \/ \E s \in sections : Free(s)
  BY <1>1, <1>5, QuietSteps DEF Whole
<1>6. CASE Switch \/ (\E page \in Watched : Touch(page)) \/ UNCHANGED vars
  <2>1. UNCHANGED <<mem, free, kernel, tasks, harts, work, panicked>>
    BY <1>6 DEF Switch, Touch, SetSatp, vars
  <2> QED BY <1>1, <2>1, SameStep DEF Whole
<1> QED BY <1>2, <1>3, <1>4, <1>5, <1>6 DEF Next

LEMMA SpecWhole == Regular => (Spec => [](Clean => Whole))
<1>1. SUFFICES ASSUME Regular PROVE Spec => [](Clean => Whole)
  OBVIOUS
<1>2. Init => Whole
  BY InitWhole
<1>3. Whole /\ [Next]_vars /\ Clean' => Whole'
  BY <1>1, NextWhole
<1>4. [Next]_vars /\ Clean' => Clean
  BY CleanBefore
<1> QED BY <1>2, <1>3, <1>4, PTL DEF Spec

\* The processor finds what the kernel finds, on the ways that are clear.
LEMMA ClearWalks ==
    ASSUME Whole, NEW root \in Roots, NEW p \in LowerHalf, root = kernel \/ Index(p, Levels) # 1
    PROVE  Translate(mem, root, p) = virt_to_phys(mem, root, p)
<1>1. PICK pl : Trees(mem, pl, Roots) /\ Fine(mem, pl, Limits, Clear)
  BY DEF Whole, WaysInv
<1>2. Placed(mem, pl) /\ RootAt(pl, root) /\ Unstale(mem, pl, Clear) /\ p \in Pages
  BY <1>1, LowerPages DEF Trees, Fine
<1>3. Way(root, p) \in Clear
  BY DEF Way, Clear
<1> QED BY <1>2, <1>3, UnstaleWalks

LEMMA WholeShares == Whole => KernelHalfShared
<1> SUFFICES ASSUME Whole, Booted, work.op # "init", NEW r \in Roots, NEW p \in Pages \ LowerHalf
             PROVE  Translate(mem, r, p) = Translate(mem, kernel, p)
  BY DEF KernelHalfShared
<1>1. TRUE \in BOOLEAN
  OBVIOUS
<1> QED BY <1>1 DEF Whole, HalfInv, Translate

\* Whatever table is in use, the upper half is the kernel's: new_with_upperhalf has
\* copied it, and no map or unmap after that touches it.
THEOREM KernelAlwaysShared ==
    ASSUME Regular
    PROVE  Spec => [](Clean => KernelHalfShared)
<1>1. Spec => [](Clean => Whole)
  BY SpecWhole
<1> QED BY <1>1, WholeShares, PTL

\* "Didnt expect leaf", "No leaf found while unmapping": no call of map or unmap
\* meets what it does not expect.
THEOREM PanicsNever ==
    ASSUME Regular
    PROVE  Spec => [](Clean => NeverPanics)
<1>1. Spec => [](Clean => Whole)
  BY SpecWhole
<1>2. Whole => NeverPanics
  BY DEF Whole, NeverPanics
<1> QED BY <1>1, <1>2, PTL

LEMMA WholeMaps == (Clean => Whole) => PagesMapped
<1> SUFFICES ASSUME Whole PROVE ProgramMapped /\ SectionsMapped
  BY DEF PagesMapped
<1>1. Inv /\ ProgInv /\ ~panicked
  BY DEF Whole
<1>2. ProgramMapped
  <2>1. ASSUME NEW t \in DOMAIN tasks, NEW p \in LowerHalf
        PROVE  /\ p \in Code(tasks[t].segments) => Translate(mem, tasks[t].root, p) # NoFrame
               /\ virt_to_phys(mem, tasks[t].root, p) # NoFrame
                    <=> p \in Code(tasks[t].segments) \cup StackOf(tasks[t].stack)
    <3>1. /\ t \in DOMAIN Programs /\ tasks[t].segments = Programs[t]
          /\ virt_to_phys(mem, tasks[t].root, p) # NoFrame
               <=> p \in Code(tasks[t].segments) \cup StackOf(tasks[t].stack)
      BY <1>1 DEF ProgInv
    <3>2. ASSUME p \in Code(tasks[t].segments)
          PROVE  Translate(mem, tasks[t].root, p) # NoFrame
      <4>1. tasks[t].root \in Roots
        BY DEF Roots
      <4>2. Index(p, Levels) # 1
        <5>1. PICK i \in DOMAIN Programs[t] : p \in Section(Programs[t][i].page, Programs[t][i].pages)
          BY <3>1, <3>2 DEF Code
        <5> QED BY <3>1, <5>1, LoadAssumption DEF LoadAssumption
      <4>3. Translate(mem, tasks[t].root, p) = virt_to_phys(mem, tasks[t].root, p)
        BY <4>1, <4>2, ClearWalks
      <4> QED BY <3>1, <3>2, <4>3
    <3> QED BY <3>1, <3>2
  <2> QED BY <2>1 DEF ProgramMapped, Code, StackOf
<1>3. SectionsMapped
  <2> SUFFICES ASSUME Booted, Ready, NEW p \in LowerHalf
               PROVE  Translate(mem, kernel, p) # NoFrame
                         <=> \E s \in sections : p \in Section(s.base, s.pages)
    BY DEF SectionsMapped
  <2>1. kernel \in Roots
    BY DEF Roots
  <2>2. Translate(mem, kernel, p) = virt_to_phys(mem, kernel, p)
    BY <2>1, ClearWalks
  <2>3. Mapped(p) # NoFrame <=> p \in Expected
    BY <1>1 DEF Inv, GrantInv
  <2>4. Expected = Granted
    BY IdleIs DEF Ready, Expected
  <2>5. p \in Granted <=> \E s \in sections : p \in Section(s.base, s.pages)
    BY DEF Granted
  <2> QED BY <2>2, <2>3, <2>4, <2>5 DEF Mapped
<1> QED BY <1>2, <1>3

\* What load has mapped for a program is there for it, and nothing else in its lower
\* half; between the calls of a Vmm what is mapped is what alloc has handed out.
THEOREM PagesAlwaysMapped ==
    ASSUME Regular
    PROVE  Spec => []PagesMapped
<1>1. Spec => [](Clean => Whole)
  BY SpecWhole
<1> QED BY <1>1, WholeMaps, PTL

-----------------------------------------------------------------------------
(* The page tables implement the address spaces                             *)

\* What the calls do, in terms of what virt_to_phys finds.
KeptBut(root) ==
    \A r \in Roots \ {root}, p \in Pages : virt_to_phys(mem', r, p) = virt_to_phys(mem, r, p)

LEMMA StillMapped ==
    ASSUME mem' = mem, Roots' = Roots, Holds(free') \subseteq Holds(free)
    PROVE  Abstract!Step
<1>1. Abstract!Claim
  BY DEF Abstract!Claim, Holds
<1> QED BY <1>1 DEF Abstract!Step

LEMMA NewMapped ==
    ASSUME NEW root, root \in Holds(free), root \notin Holds(free'),
           Holds(free') \subseteq Holds(free), Roots' = Roots \cup {root},
           \A r \in Roots, p \in Pages : virt_to_phys(mem', r, p) = virt_to_phys(mem, r, p),
           \A p \in LowerHalf : virt_to_phys(mem', root, p) = NoFrame,
           \A r \in Roots, p \in Pages \ LowerHalf :
              virt_to_phys(mem', root, p) = virt_to_phys(mem, r, p)
    PROVE  Abstract!Step
<1>1. Abstract!Claim
  BY DEF Abstract!Claim, Holds
<1>2. Abstract!New
  <2>1. root \in {free[i] : i \in DOMAIN free} \ {free'[i] : i \in DOMAIN free'}
    BY DEF Holds
  <2>2. LowerHalf \subseteq Pages
    BY LowerPages
  <2> QED BY <2>1, <2>2 DEF Abstract!New, NoFrame
<1> QED BY <1>1, <1>2 DEF Abstract!Step

LEMMA MapMapped ==
    ASSUME NEW root \in Roots, Roots' = Roots, Holds(free') \subseteq Holds(free), KeptBut(root),
           NEW block \in SUBSET Pages,
           \A p \in Pages \ block : virt_to_phys(mem', root, p) = virt_to_phys(mem, root, p),
           \A p, q \in block : virt_to_phys(mem', root, q) - virt_to_phys(mem', root, p) = q - p,
           \A p \in block : virt_to_phys(mem', root, p) \notin Holds(free') \cup {NoFrame},
           \A p \in block \cap LowerHalf : virt_to_phys(mem, root, p) = NoFrame
    PROVE  Abstract!Step
<1>1. Abstract!Claim
  BY DEF Abstract!Claim, Holds
<1>2. Abstract!Map(root)
  <2>1. Abstract!Changed(root) \subseteq block
    BY DEF Abstract!Changed
  <2> QED BY <2>1 DEF Abstract!Map, Holds, KeptBut, NoFrame
<1> QED BY <1>1, <1>2 DEF Abstract!Step

LEMMA UnmapMapped ==
    ASSUME NEW root \in Roots, NEW page \in LowerHalf, Roots' = Roots, KeptBut(root),
           \A p \in Pages : virt_to_phys(mem', root, p) = IF p = page THEN NoFrame
                                                          ELSE virt_to_phys(mem, root, p),
           virt_to_phys(mem, root, page) \notin Holds(free) \cup {NoFrame},
           Holds(free') = Holds(free) \cup {virt_to_phys(mem, root, page)}
    PROVE  Abstract!Step
<1>1. page \in Pages
  BY LowerPages
<1> DEFINE v(r, p) == virt_to_phys(mem, r, p)
           w(r, p) == virt_to_phys(mem', r, p)
           maps == [r \in Roots |-> [p \in Pages |-> v(r, p)]]
<1>2. \A r \in Roots, p \in Pages : w(r, p) = IF r = root /\ p = page THEN NoFrame ELSE v(r, p)
  BY DEF KeptBut
<1>3. v(root, page) \notin Holds(free) \cup {NoFrame} /\ Holds(free') = Holds(free) \cup {v(root, page)}
  OBVIOUS
<1> HIDE DEF v, w
<1>4. [r \in Roots |-> [p \in Pages |-> w(r, p)]] = [maps EXCEPT ![root][page] = 0]
  BY <1>1, <1>2 DEF NoFrame
<1>5. maps[root][page] = v(root, page)
  BY <1>1
<1>6. Abstract!Unmap(root, page)
  BY <1>3, <1>4, <1>5 DEF Abstract!Unmap, Holds, NoFrame, v, w
<1> QED BY <1>6 DEF Abstract!Step

\* vmm::init, smp_init and load add a root.
LEMMA RootMapped ==
    ASSUME Whole, Founded, Cut(Cost), PartOf(free', After(Cost), Usable),
           Roots' = Roots \cup {free[1]},
           (Booted /\ satp = kernel /\ work.op # "init") \/ Roots = {}
    PROVE  Abstract!Step
<1> DEFINE root == free[1]
<1>1. root \in Holds(free) /\ root \notin Holds(free') /\ Holds(free') \subseteq Holds(free)
  BY DEF Cut, PartOf
<1>2. /\ \A r \in Roots, p \in Pages, hard \in BOOLEAN : Frame(mem', r, p, hard) = Frame(mem, r, p, hard)
      /\ \A p \in Pages, hard \in BOOLEAN :
            Frame(mem', root, p, hard) = IF p \in LowerHalf THEN NoFrame ELSE Frame(mem, satp, p, hard)
  BY DEF Founded
<1> HIDE DEF root
<1>3. FALSE \in BOOLEAN /\ LowerHalf \subseteq Pages
  BY LowerPages
<1>4. /\ \A r \in Roots, p \in Pages : virt_to_phys(mem', r, p) = virt_to_phys(mem, r, p)
      /\ \A p \in LowerHalf : virt_to_phys(mem', root, p) = NoFrame
  BY <1>2, <1>3 DEF virt_to_phys
<1>5. ASSUME NEW r \in Roots, NEW p \in Pages \ LowerHalf
      PROVE  virt_to_phys(mem', root, p) = virt_to_phys(mem, r, p)
  <2>1. Booted /\ satp = kernel /\ work.op # "init"
    OBVIOUS
  <2>2. Frame(mem', root, p, FALSE) = Frame(mem, satp, p, FALSE)
    BY <1>2, <1>3
  <2>3. Frame(mem, r, p, FALSE) = Frame(mem, kernel, p, FALSE)
    BY <1>3, <2>1 DEF Whole, HalfInv
  <2> QED BY <2>1, <2>2, <2>3 DEF virt_to_phys
<1>6. Roots' = Roots \cup {root}
  BY DEF root
<1> QED BY <1>1, <1>4, <1>5, <1>6, NewMapped

\* What they have in common.
LEMMA NewRootMade ==
    ASSUME Whole, Clean', vmm_init \/ StartHart \/ Load
    PROVE  /\ Enough /\ Cut(Cost) /\ Founded /\ PartOf(free', After(Cost), Usable)
           /\ Roots' = Roots \cup {free[1]}
           /\ (Booted /\ satp = kernel /\ work.op # "init") \/ Roots = {}
           /\ \E entries \in {Cleared, Linked} : mem' = WithRoot(entries)
<1>1. Inv /\ TreeInv /\ WorkInv /\ HalfInv
  BY DEF Whole, Inv
<1>2. PICK pl : Trees(mem, pl, Roots)
  BY <1>1 DEF TreeInv
<1>3. /\ Ready /\ Enough /\ tasks' = tasks
      /\ \E entries \in {Cleared, Linked} : mem' = WithRoot(entries)
  BY LinkedRoot DEF vmm_init, StartHart, Load, AtBoot
<1>4. PICK entries \in {Cleared, Linked} : mem' = WithRoot(entries)
  BY <1>3
<1>5. Cut(Cost) /\ work.op = "idle" /\ ~Loading
  BY <1>1, <1>2, <1>3, <1>4, RootMakes, IdleIs DEF Ready, Loading
<1>6. PartOf(free', After(Cost), Usable)
  <2>1. CASE vmm_init \/ Load
    BY <1>5, <2>1 DEF vmm_init, Load, Cut, PartOf
  <2>2. CASE StartHart
    BY <1>1, <2>2, StartHartTakes
  <2> QED BY <2>1, <2>2
<1>7. /\ Roots' = Roots \cup {free[1]}
      /\ (Booted /\ satp = kernel) \/ Roots = {}
  <2>1. CASE vmm_init
    <3>1. ~Booted /\ kernel' = free[1] /\ harts = {} /\ tasks = << >> /\ harts' = harts
      BY <1>1, <2>1 DEF vmm_init, HalfInv
    <3>2. work'.op = "init"
      <4>1. \A op, root, todo : [Idle EXCEPT !.op = op, !.root = root, !.todo = todo].op = op
        BY DEF Idle
      <4>2. \E root, todo : work' = [Idle EXCEPT !.op = "init", !.root = root, !.todo = todo]
        BY <2>1, Zenon DEF vmm_init
      <4> QED BY <4>1, <4>2
    <3>3. free[1] # NoFrame
      BY <1>5, MemoryFacts DEF Cut
    <3>4. Roots = {} /\ Roots' = {free[1]}
      BY <1>3, <1>5, <3>1, <3>2, <3>3 DEF Roots, Booted, Loading
    <3> QED BY <3>4
  <2>2. CASE StartHart
    <3> DEFINE hart == [root |-> free[1], stack |-> After(Cost)[Run(After(Cost), HartStack, 1)]]
    <3>1. harts' = harts \cup {hart} /\ Booted /\ satp = kernel /\ kernel' = kernel /\ work' = work
      BY <2>2 DEF StartHart, AtBoot
    <3>2. hart.root = free[1]
      OBVIOUS
    <3> HIDE DEF hart
    <3>3. {h.root : h \in harts'} = {h.root : h \in harts} \cup {free[1]}
      BY <3>1, <3>2
    <3> QED BY <1>3, <1>5, <3>1, <3>3 DEF Roots, Booted, Loading
  <2>3. CASE Load
    <3>1. Booted /\ satp = kernel /\ kernel' = kernel /\ harts' = harts
      BY <2>3 DEF Load, AtBoot
    <3>2. work'.op = "load" /\ work'.root = free[1]
      <4> DEFINE root == free[1]
      <4>1. \A r, g : LET w == [Idle EXCEPT !.op = "load", !.root = r, !.segments = g] IN
               w.op = "load" /\ w.root = r
        BY DEF Idle
      <4>2. \E g : work' = [Idle EXCEPT !.op = "load", !.root = root, !.segments = g]
        BY <2>3, Zenon DEF Load
      <4> HIDE DEF root
      <4>3. work'.op = "load" /\ work'.root = root
        BY <4>1, <4>2
      <4> QED BY <4>3 DEF root
    <3> QED BY <1>3, <1>5, <3>1, <3>2 DEF Roots, Booted, Loading
  <2> QED BY <2>1, <2>2, <2>3
<1>8. Founded
  BY <1>1, <1>3, <1>4, <1>6, <1>7, Founding
<1> QED BY <1>3, <1>5, <1>6, <1>7, <1>8

LEMMA NewRootSteps ==
    ASSUME Whole, Clean', vmm_init \/ StartHart \/ Load
    PROVE  Abstract!Step
BY NewRootMade, RootMapped

\* Most steps leave the tables and the roots alone, and put nothing on the list.
LEMMA QuietKeeps ==
    ASSUME Whole, \/ InitDone \/ CallDone \/ (\E c \in Calls : Alloc(c)) \/ (\E s \in sections : Free(s))
                  \/ LoadSegment \/ LoadStack \/ LoadDone \/ Switch \/ \E page \in Watched : Touch(page)
    PROVE  mem' = mem /\ harts' = harts /\ Roots' = Roots /\ Holds(free') \subseteq Holds(free)
<1>1. Inv /\ WorkInv
  BY DEF Whole, Inv
<1>2. mem' = mem /\ kernel' = kernel /\ harts' = harts
  BY DEF InitDone, CallDone, Alloc, Free, LoadSegment, LoadStack, LoadDone, Switch, Touch
<1>3. CASE InitDone \/ CallDone \/ (\E c \in Calls : Alloc(c)) \/ \E s \in sections : Free(s)
  <2>1. work'.op \in {"idle", "alloc", "free"} /\ ~Loading /\ tasks' = tasks
    <3>1. \A op, root, todo : [Idle EXCEPT !.op = op, !.root = root, !.todo = todo].op = op
      BY DEF Idle
    <3>2. Ready \/ Ended("init") \/ Ended("alloc") \/ Ended("free")
      BY <1>3 DEF InitDone, CallDone, Alloc, Free, AtBoot
    <3>3. ~Loading
      BY <3>2 DEF Ready, Ended, Loading, Idle
    <3>7. tasks' = tasks
      BY <1>3 DEF InitDone, CallDone, Alloc, Free
    <3>4. CASE InitDone \/ CallDone
      BY <3>3, <3>4 DEF InitDone, CallDone, Idle
    <3>5. CASE \E c \in Calls : Alloc(c)
      <4>1. \E todo : work' = [Idle EXCEPT !.op = "alloc", !.root = satp, !.todo = todo]
        BY <3>5, Zenon DEF Alloc
      <4> QED BY <3>1, <3>3, <3>7, <4>1
    <3>6. CASE \E s \in sections : Free(s)
      <4>1. \E todo : work' = [Idle EXCEPT !.op = "free", !.root = satp, !.todo = todo]
        BY <3>6, Zenon DEF Free
      <4> QED BY <3>1, <3>3, <3>7, <4>1
    <3> QED BY <1>3, <3>4, <3>5, <3>6
  <2>2. Roots' = Roots
    BY <1>2, <2>1 DEF Roots, Booted, Loading
  <2>3. Holds(free') \subseteq Holds(free)
    <3>1. CASE \E c \in Calls : Alloc(c)
      <4>1. PICK c \in Calls : Alloc(c)
        BY <3>1
      <4>2. HasRun(free, c.pages, 1)
            /\ free' = IF c.kind = "scattered" THEN free ELSE Without(free, Run(free, c.pages, 1), c.pages)
        BY <4>1 DEF Alloc
      <4>3. c.pages \in Nat
        BY RequestAssumption DEF RequestAssumption
      <4>4. PartOf(Without(free, Run(free, c.pages, 1), c.pages), free, Usable)
        BY <1>1, <4>2, <4>3, RunFrames
      <4> QED BY <4>2, <4>4 DEF PartOf
    <3>2. CASE ~\E c \in Calls : Alloc(c)
      BY <1>3, <3>2 DEF InitDone, CallDone, Free
    <3> QED BY <3>1, <3>2
  <2> QED BY <1>2, <2>2, <2>3
<1>4. CASE LoadSegment \/ LoadStack
  <2>1. /\ PartOf(free', free, Usable)
        /\ work'.root = work.root /\ work'.op \in {"load", "stack"} /\ work.op = "load" /\ tasks' = tasks
    BY <1>1, <1>4, LoadSegmentIs, LoadStackIs DEF LoadSegment, LoadStack, SegmentMade, StackMade, Ended
  <2>2. Roots' = Roots
    BY <1>2, <2>1 DEF Roots, Booted, Loading
  <2> QED BY <1>2, <2>1, <2>2 DEF PartOf
<1>5. CASE LoadDone
  <2> DEFINE task == [root |-> work.root, segments |-> Programs[Len(tasks) + 1], stack |-> work.stack]
             n == Len(tasks) + 1
  <2>1. work.op = "stack" /\ tasks' = Append(tasks, task) /\ work' = Idle /\ free' = free
    BY <1>5 DEF LoadDone, Ended
  <2>2. tasks \in Seq(Tasks) /\ task.root = work.root
    BY <1>1 DEF WorkInv
  <2> HIDE DEF task
  <2>3. /\ DOMAIN tasks' = DOMAIN tasks \cup {n} /\ tasks'[n] = task
        /\ \A t \in DOMAIN tasks : tasks'[t] = tasks[t]
    BY <2>1, <2>2
  <2> HIDE DEF n
  <2>4. {tasks'[t].root : t \in DOMAIN tasks'} = {tasks[t].root : t \in DOMAIN tasks} \cup {work.root}
    BY <2>2, <2>3
  <2>5. Roots' = Roots
    BY <1>2, <2>1, <2>4, IdleIs DEF Roots, Loading, Booted
  <2> QED BY <1>2, <2>1, <2>5
<1>6. CASE Switch \/ \E page \in Watched : Touch(page)
  <2>1. free' = free /\ work' = work /\ tasks' = tasks
    BY <1>6 DEF Switch, Touch
  <2>2. Roots' = Roots
    BY <1>2, <2>1 DEF Roots, Booted, Loading
  <2> QED BY <1>2, <2>1, <2>2
<1> QED BY <1>3, <1>4, <1>5, <1>6

LEMMA QuietNext ==
    ASSUME Whole, \/ InitDone \/ CallDone \/ (\E c \in Calls : Alloc(c)) \/ (\E s \in sections : Free(s))
                  \/ LoadSegment \/ LoadStack \/ LoadDone \/ Switch \/ \E page \in Watched : Touch(page)
    PROVE  Abstract!Step
BY QuietKeeps, StillMapped

\* One page of the kernel's lower half is unmapped, and the frame behind it pushed.
Unmapped(page) ==
    LET v == virt_to_phys(mem, kernel, page) IN
    /\ page \in LowerHalf /\ page \in Pages /\ Roots' = Roots /\ kernel \in Roots /\ Popped
    /\ ~UnmapPanics(mem, kernel, page) /\ mem' = UnmapIn(mem, kernel, page)
    /\ v \in Usable /\ v \notin Holds(free) /\ v # NoFrame /\ Holds(free') = Holds(free) \cup {v}
    /\ \A r \in Roots, p \in Pages :
          virt_to_phys(mem', r, p) = IF r = kernel /\ p = page THEN NoFrame ELSE virt_to_phys(mem, r, p)

LEMMA UnmapNextIs ==
    ASSUME Whole, UnmapNext
    PROVE  \E page : Unmapped(page)
<1>1. PICK page : page = Head(work.todo).page
  OBVIOUS
<1>2. /\ work.op = "free" /\ work.todo # << >> /\ ~panicked
      /\ work' = [work EXCEPT !.todo = Tail(@)]
      /\ UNCHANGED <<kernel, satp, tasks, harts, sections>>
      /\ panicked' = UnmapPanics(mem, work.root, page)
      /\ ~panicked' => /\ mem' = UnmapIn(mem, work.root, page)
                       /\ free' = <<virt_to_phys(mem, work.root, page)>> \o free
  BY <1>1 DEF UnmapNext
<1>3. Inv /\ WaysInv /\ WorkInv /\ GrantInv /\ FrameInv /\ FreeInv /\ TypeOK
  BY DEF Whole, Inv
<1>4. Continued
  BY <1>2, <1>3, ContinuedIs
<1>5. PICK pl : Trees(mem, pl, Roots)
  BY <1>3 DEF WaysInv
<1>6. /\ Popped /\ Roots' = Roots /\ Booted /\ kernel \in Roots
  BY <1>4 DEF Continued
<1>7. /\ work.root = kernel /\ page \in LowerHalf /\ page \in Pages /\ page \in TodoPages
  BY <1>1, <1>2, <1>3, <1>6, LowerPages DEF WorkInv, VmmWork, Popped, TodoPages
<1>8. Placed(mem, pl) /\ \A r \in Roots : RootAt(pl, r)
  BY <1>5 DEF Trees
<1>9. ~panicked' /\ ~UnmapPanics(mem, kernel, page)
  <2>1. ~panicked'
    BY UnmapNextRest DEF Rest
  <2> QED BY <1>2, <1>7, <2>1
<1> DEFINE v == virt_to_phys(mem, kernel, page)
<1>10. v \in Usable /\ v \notin Holds(free) /\ v # NoFrame
  <2>1. page \in Expected
    BY <1>2, <1>7 DEF Expected
  <2>2. Mapped(page) # NoFrame
    BY <1>2, <1>3, <1>6, <1>7, <2>1 DEF GrantInv
  <2>3. Off(Mapped(page))
    BY <1>3, <1>6, <1>7, <2>2 DEF FrameInv
  <2> QED BY <2>2, <2>3 DEF Off, Mapped
<1>11. mem' = UnmapIn(mem, kernel, page) /\ free' = <<v>> \o free
  BY <1>2, <1>7, <1>9
<1>12. \A r \in Roots, p \in Pages :
          virt_to_phys(mem', r, p) = IF r = kernel /\ p = page THEN NoFrame ELSE virt_to_phys(mem, r, p)
  BY <1>6, <1>7, <1>8, <1>9, <1>11, UnmapChangesPage
<1>13. Holds(free') = Holds(free) \cup {v}
  <2>1. free \in Seq(Usable) /\ Distinct(free)
    BY <1>3 DEF TypeOK, FreeInv
  <2> HIDE DEF v
  <2> QED BY <1>10, <1>11, <2>1, Pushed
<1>14. v = virt_to_phys(mem, kernel, page)
  OBVIOUS
<1> HIDE DEF v
<1> QED BY <1>6, <1>7, <1>9, <1>10, <1>11, <1>12, <1>13, <1>14 DEF Unmapped

LEMMA UnmapNextMapped ==
    ASSUME Whole, UnmapNext
    PROVE  Abstract!Step
<1>1. PICK page : Unmapped(page)
  BY UnmapNextIs
<1> DEFINE v == virt_to_phys(mem, kernel, page)
<1>2. /\ page \in LowerHalf /\ page \in Pages /\ Roots' = Roots /\ kernel \in Roots
      /\ v \notin Holds(free) \cup {NoFrame} /\ Holds(free') = Holds(free) \cup {v}
      /\ \A r \in Roots, p \in Pages :
            virt_to_phys(mem', r, p) = IF r = kernel /\ p = page THEN NoFrame ELSE virt_to_phys(mem, r, p)
  BY <1>1 DEF Unmapped
<1>3. KeptBut(kernel)
  BY <1>2 DEF KeptBut
<1> QED BY <1>2, <1>3, UnmapMapped

\* Pages of one block are as far apart as their frames.
LEMMA BlockSpread ==
    ASSUME NEW target \in 1 .. Levels, NEW f \in Nat, NEW page, NEW p \in Nat, NEW q \in Nat,
           Prefix(p, target - 1) = Prefix(page, target - 1), Prefix(q, target - 1) = Prefix(page, target - 1)
    PROVE  Behind(Leaf(f), target, q) - Behind(Leaf(f), target, p) = q - p
<1> DEFINE d == Span(target)
           a == f - (f % d)
<1>1. d \in Nat /\ d > 0
  BY SpanHead
<1>2. p \div d = q \div d
  BY DEF Prefix, Span
<1>3. Behind(Leaf(f), target, q) = a + (q % d) /\ Behind(Leaf(f), target, p) = a + (p % d)
  BY DEF Behind, Leaf
<1> HIDE DEF d
<1>4. a \in Int
  BY <1>1, Division
<1> HIDE DEF a
<1>5. p = d * (p \div d) + (p % d) /\ p % d \in Nat /\ p \div d \in Nat
  BY <1>1, Division
<1>6. q = d * (q \div d) + (q % d) /\ q % d \in Nat /\ q \div d \in Nat
  BY <1>1, Division
<1> DEFINE x == p \div d
           y == d * x
           u == p % d
           w == q % d
<1>7. y \in Nat /\ u \in Nat /\ w \in Nat /\ p = y + u /\ q = y + w
  BY <1>1, <1>2, <1>5, <1>6
<1>8. Behind(Leaf(f), target, q) = a + w /\ Behind(Leaf(f), target, p) = a + u
  BY <1>3
<1> HIDE DEF x, y, u, w
<1> QED BY <1>4, <1>7, <1>8

\* The frames behind a block that has been mapped cannot be claimed any more, and
\* its pages of the lower half were behind none.
LEMMA MapNextFrames ==
    ASSUME Whole, Whole', MapNext, Shifted, NEW root, NEW page, NEW target, Asked(root, page, target),
           NEW f, Behaved(root, page, target, f),
           NEW p \in Pages, Prefix(p, target - 1) = Prefix(page, target - 1)
    PROVE  /\ virt_to_phys(mem', root, p) \notin Holds(free') \cup {NoFrame}
           /\ p \in LowerHalf => virt_to_phys(mem, root, p) = NoFrame
<1> DEFINE r == Head(work.todo)
           b == Behind(Leaf(f), target, p)
<1>0. f \in Nat
  BY DEF Behaved
<1>1. Inv /\ WorkInv /\ GrantInv /\ LoadInv /\ IoInv /\ TypeOK' /\ FrameInv' /\ GrantInv' /\ ~panicked
  BY DEF Whole, Inv
<1>2. /\ r = work.todo[1] /\ 1 \in DOMAIN work.todo /\ Booted /\ Booted' /\ r \in Requests
      /\ kernel' = kernel /\ free' \in Seq(Usable)
  <2>1. work.todo \in Seq(Requests)
    BY <1>1 DEF WorkInv, Works
  <2>2. r = work.todo[1] /\ 1 \in DOMAIN work.todo /\ Booted /\ Booted'
    BY DEF Shifted
  <2>3. kernel' = kernel /\ free' \in Seq(Usable)
    BY <1>1 DEF MapNext, TypeOK, Usable
  <2> QED BY <2>1, <2>2, <2>3
<1>3. /\ page = r.page /\ target = r.target /\ page \in Nat /\ page \in Pages /\ target \in 1 .. Levels
      /\ p \in Nat /\ root = work.root
  <2>1. p \in Nat
    BY PrefixEnds
  <2> QED BY <2>1 DEF Asked
<1>4. virt_to_phys(mem', root, p) = b
  BY DEF Behaved
<1>5. Holds(free') \subseteq Holds(free) /\ \A g \in Holds(free') : g \in Usable
  <2>1. Holds(free') \subseteq Holds(free)
    BY DEF Behaved
  <2>2. \A i \in DOMAIN free' : free'[i] \in Usable
    BY <1>2
  <2> QED BY <2>1, <2>2 DEF Holds
<1>6. /\ target - 1 \in 0 .. Levels - 1
      /\ p \in LowerHalf <=> page \in LowerHalf
  <2> DEFINE k == target - 1
  <2>1. k \in 0 .. Levels - 1
    BY <1>3, Shape
  <2> HIDE DEF k
  <2>2. Prefix(p, k) = Prefix(page, k)
    BY DEF k
  <2>3. p \in LowerHalf <=> page \in LowerHalf
    BY <1>3, <2>1, <2>2, SameHalf
  <2> QED BY <2>1, <2>3 DEF k
<1> HIDE DEF r, b
<1>7. CASE work.op = "alloc"
  <2>1. target = 1 /\ page \in LowerHalf /\ root = kernel
    BY <1>7 DEF Asked
  <2>2. p = page
    <3>1. Prefix(p, 0) = Prefix(page, 0)
      BY <2>1
    <3> QED BY <1>3, <3>1, PrefixEnds
  <2>3. page \in TodoPages
    BY <1>2, <1>3 DEF TodoPages
  <2>4. page \notin Expected
    BY <1>7, <2>3 DEF Expected
  <2>5. virt_to_phys(mem, root, p) = NoFrame
    BY <1>1, <1>2, <2>1, <2>2, <2>4 DEF GrantInv, Mapped
  <2>6. page \in Expected'
    <3>1. Continued
      <4>1. work.todo # << >> /\ work' = [work EXCEPT !.todo = Tail(@)]
            /\ UNCHANGED <<kernel, satp, tasks, harts, sections>>
        BY DEF MapNext, Mapping
      <4> QED BY <1>1, <4>1, ContinuedIs
    <3> QED BY <1>3, <1>7, <3>1 DEF Continued, r
  <2>7. ~panicked' /\ page \in LowerHalf'
    BY <2>1 DEF Behaved, LowerHalf, Half
  <2>8. Mapped(page)' # NoFrame /\ Off(Mapped(page))'
    <3>1. Mapped(page)' # NoFrame
      BY <1>1, <1>2, <2>6, <2>7 DEF GrantInv
    <3> QED BY <1>1, <1>2, <2>7, <3>1 DEF FrameInv
  <2>9. Mapped(page)' = b
    BY <1>2, <1>4, <2>1, <2>2 DEF Mapped
  <2>10. b # NoFrame /\ b \notin Holds(free')
    BY <2>8, <2>9 DEF Off, Holds
  <2> QED BY <1>4, <2>5, <2>10
<1>8. CASE Loading
  <2>1. Request2(r) /\ page \in LowerHalf /\ f = r.frame
    BY <1>8 DEF Asked, Behaved, Request2, Loading, r
  <2>2. page % Span(target) = 0 /\ f % Span(target) = 0
        /\ \A g \in Section(f, Span(target)) : g \in Usable /\ g \notin Holds(free)
    BY <1>3, <2>1 DEF Request2
  <2>3. p \in Section(page, Span(target)) /\ b \in Section(f, Span(target))
    BY <1>0, <1>3, <2>2, RequestBlock DEF b
  <2>4. p \in TodoBlocks
    <3>1. p \in Block(work.todo[1])
      BY <1>2, <1>3, <2>3 DEF Block
    <3> QED BY <1>2, <3>1 DEF TodoBlocks
  <2>5. p \notin LoadedPages
    BY <2>4 DEF LoadedPages
  <2>6. virt_to_phys(mem, root, p) = NoFrame
    BY <1>1, <1>3, <1>6, <1>8, <2>1, <2>5 DEF LoadInv
  <2>7. b \in Usable /\ b \notin Holds(free)
    BY <2>2, <2>3
  <2> QED BY <1>4, <1>5, <2>6, <2>7, MemoryFacts
<1>9. CASE work.op = "init"
  <2>1. page \notin LowerHalf
    BY <1>9 DEF Asked
  <2>2. /\ r.frame # NoFrame /\ r.frame % Span(target) = 0
        /\ \A g \in Section(r.frame, Span(target)) : g \notin Usable
    BY <1>1, <1>2, <1>3, <1>9 DEF IoInv
  <2>3. f = r.frame
    BY <2>2 DEF Behaved, r
  <2>4. b \notin Usable /\ b # NoFrame
    <3> DEFINE d == Span(target)
    <3>1. d \in Nat /\ d > 0
      BY <1>3, SpanHead
    <3>2. b = f - (f % d) + (p % d) /\ f % d = 0
      BY <2>2, <2>3 DEF b, Behind, Leaf
    <3>3. \A g \in Section(f, d) : g \notin Usable
      BY <2>2, <2>3
    <3>4. f \in Nat /\ f > 0
      BY <1>0, <2>2, <2>3 DEF NoFrame
    <3> HIDE DEF d
    <3>5. p % d \in 0 .. d - 1
      BY <1>3, <3>1, Division
    <3> DEFINE x == p % d
    <3>6. x \in 0 .. d - 1 /\ b = f - 0 + x
      BY <3>2, <3>5
    <3> HIDE DEF x
    <3>7. b \in Section(f, d) /\ b # 0
      BY <3>1, <3>4, <3>6 DEF Section
    <3> QED BY <3>3, <3>7 DEF NoFrame
  <2> QED BY <1>4, <1>5, <1>6, <2>1, <2>4
<1> QED BY <1>7, <1>8, <1>9 DEF Asked, Loading

LEMMA MapNextMapped ==
    ASSUME Whole, Whole', MapNext
    PROVE  Abstract!Step
<1>1. Shifted
  BY ShiftedIs DEF Whole
<1>2. PICK root, page, target : Asked(root, page, target)
  BY AskedIs
<1>3. PICK f : Behaved(root, page, target, f)
  BY <1>2, MapNextWays
<1>4. f \in Nat /\ Drawn(root, page, f, target) /\ Holds(free') \subseteq Holds(free)
  BY <1>3 DEF Behaved
<1>5. target \in 1 .. Levels /\ page \in Pages
  BY <1>2 DEF Asked
<1>6. Roots' = Roots /\ root \in Roots
  <2>1. CASE Loading
    BY <1>1, <1>2, <2>1 DEF Shifted, Asked, Roots
  <2>2. CASE ~Loading
    BY <1>1, <1>2, <2>2 DEF Shifted, Asked, Loading
  <2> QED BY <1>1, <2>1, <2>2 DEF Shifted
<1> DEFINE block == {p \in Pages : Prefix(p, target - 1) = Prefix(page, target - 1)}
<1>7. \A r \in Roots, p \in Pages :
         r # root \/ p \notin block => virt_to_phys(mem', r, p) = virt_to_phys(mem, r, p)
  <2>1. FALSE \in BOOLEAN
    OBVIOUS
  <2>2. \A r \in Roots, p \in Pages :
           r # root \/ Prefix(p, target - 1) # Prefix(page, target - 1) =>
              Frame(mem', r, p, FALSE) = Frame(mem, r, p, FALSE)
    BY <1>4, <2>1 DEF Drawn
  <2> QED BY <2>2 DEF virt_to_phys
<1>8. \A p, q \in block : virt_to_phys(mem', root, q) - virt_to_phys(mem', root, p) = q - p
  <2> SUFFICES ASSUME NEW p \in block, NEW q \in block
               PROVE  virt_to_phys(mem', root, q) - virt_to_phys(mem', root, p) = q - p
    OBVIOUS
  <2>1. p \in Pages /\ q \in Pages /\ p \in Nat /\ q \in Nat
    BY PrefixEnds
  <2>2. /\ virt_to_phys(mem', root, p) = Behind(Leaf(f), target, p)
        /\ virt_to_phys(mem', root, q) = Behind(Leaf(f), target, q)
    BY <1>3 DEF Behaved
  <2>3. Behind(Leaf(f), target, q) - Behind(Leaf(f), target, p) = q - p
    BY <1>4, <1>5, <2>1, BlockSpread
  <2> QED BY <2>2, <2>3
<1>9. ASSUME NEW p \in block
      PROVE  /\ virt_to_phys(mem', root, p) \notin Holds(free') \cup {NoFrame}
             /\ p \in LowerHalf => virt_to_phys(mem, root, p) = NoFrame
  BY <1>1, <1>2, <1>3, MapNextFrames
<1>10. KeptBut(root)
  BY <1>7 DEF KeptBut
<1>11. block \in SUBSET Pages
  OBVIOUS
<1> HIDE DEF block
<1> QED BY <1>4, <1>6, <1>7, <1>8, <1>9, <1>10, <1>11, MapMapped

LEMMA InitMapped == Init => Abstract!Init
<1> SUFFICES ASSUME Init PROVE Abstract!Init
  OBVIOUS
<1>1. free = Memory /\ kernel = NoFrame /\ tasks = << >> /\ harts = {} /\ work = Idle
      /\ dirty = FALSE
  BY DEF Init
<1>2. work.op = "idle" /\ ~Loading /\ ~Booted
  BY <1>1, IdleIs DEF Loading, Booted
<1>3. Roots = {}
  BY <1>1, <1>2 DEF Roots
<1> QED BY <1>1, <1>3 DEF Abstract!Init, Usable

\* A root that is not cleared is a new one: its frame was on the list.
LEMMA SpoiltRoot ==
    ASSUME Clean => Whole, [Next]_vars, ~Clean'
    PROVE  Abstract!Spoil \/ UNCHANGED vars
<1>1. SUFFICES ASSUME Clean, Next PROVE Abstract!Spoil
  BY DEF Clean, Abstract!Spoil
<1>2. Whole /\ Inv /\ ~dirty /\ dirty'
  BY <1>1 DEF Clean, Whole
<1>3. StartHart \/ Load
  BY <1>1, <1>2 DEF Next, vmm_init, InitDone, MapNext, UnmapNext, Alloc, Free, CallDone,
                    LoadSegment, LoadStack, LoadDone, Switch, Touch
<1>4. Enough
  BY <1>3 DEF StartHart, Load
<1>5. free[1] \notin Roots
  <2>1. PICK pl : Trees(mem, pl, Roots)
    BY <1>2 DEF Inv, TreeInv
  <2>2. Linked \in {Cleared, Linked}
    OBVIOUS
  <2>3. free[1] \notin DOMAIN mem
    BY <1>2, <1>4, <2>1, <2>2, RootMakes DEF Cut
  <2>4. Roots \subseteq DOMAIN mem
    BY <1>2 DEF Inv, TypeOK
  <2> QED BY <2>3, <2>4
<1>6. free[1] \in Roots'
  <2>1. CASE StartHart
    <3> DEFINE hart == [root |-> free[1], stack |-> After(Cost)[Run(After(Cost), HartStack, 1)]]
    <3>1. hart \in harts' /\ hart.root = free[1]
      BY <2>1 DEF StartHart
    <3> HIDE DEF hart
    <3> QED BY <3>1 DEF Roots
  <2>2. CASE Load
    <3> DEFINE root == free[1]
    <3>1. \A r, g : LET w == [Idle EXCEPT !.op = "load", !.root = r, !.segments = g] IN
             w.op = "load" /\ w.root = r
      BY DEF Idle
    <3>2. \E g : work' = [Idle EXCEPT !.op = "load", !.root = root, !.segments = g]
      BY <2>2, Zenon DEF Load
    <3> HIDE DEF root
    <3>3. work'.op = "load" /\ work'.root = root
      BY <3>1, <3>2
    <3>4. Loading'
      BY <3>3 DEF Loading
    <3> QED BY <3>3, <3>4 DEF Roots, root
  <2> QED BY <1>3, <2>1, <2>2
<1> QED BY <1>5, <1>6 DEF Abstract!Spoil

LEMMA StepMapped ==
    ASSUME Regular, Clean => Whole, Clean' => Whole', [Next]_vars
    PROVE  [Abstract!Next]_(Abstract!vars)
<1>1. CASE UNCHANGED vars
  BY <1>1 DEF vars, Abstract!vars, Roots, Booted, Loading
<1>2. CASE ~Clean' /\ ~UNCHANGED vars
  <2>1. Abstract!Spoil
    BY <1>2, SpoiltRoot
  <2> QED BY <1>2, <2>1 DEF Clean, Abstract!Next
<1>3. CASE Clean' /\ Next
  <2>1. Clean /\ Whole /\ Whole'
    BY <1>3, CleanBefore
  <2>2. vmm_init \/ StartHart \/ Load => Abstract!Step
    BY <1>3, <2>1, NewRootSteps
  <2>3. MapNext => Abstract!Step
    BY <2>1, MapNextMapped
  <2>4. UnmapNext => Abstract!Step
    BY <2>1, UnmapNextMapped
  <2>5. \/ InitDone \/ CallDone \/ (\E c \in Calls : Alloc(c)) \/ (\E s \in sections : Free(s))
        \/ LoadSegment \/ LoadStack \/ LoadDone \/ Switch \/ (\E page \in Watched : Touch(page))
        => Abstract!Step
    BY <2>1, QuietNext
  <2>6. Abstract!Step
    BY <1>3, <2>2, <2>3, <2>4, <2>5 DEF Next
  <2> QED BY <1>3, <2>1, <2>6 DEF Clean, Abstract!Next
<1> QED BY <1>1, <1>2, <1>3

\* memory/vmm.rs: whatever tables are claimed, copied and extended on the way, a
\* call changes the frames behind the pages it was asked about in the one table it
\* was asked about, a block or a page at a time, and maps no frame that the
\* allocator can still hand out.
THEOREM TablesImplementSpaces ==
    ASSUME Regular
    PROVE  Spec => ImplementsSpaces
<1>1. Spec => [](Clean => Whole)
  BY SpecWhole
<1>2. Init => Abstract!Init
  BY InitMapped
<1>3. (Clean => Whole) /\ (Clean => Whole)' /\ [Next]_vars => [Abstract!Next]_(Abstract!vars)
  BY StepMapped
<1> QED BY <1>1, <1>2, <1>3, PTL DEF Spec, ImplementsSpaces, Abstract!Spec

-----------------------------------------------------------------------------
(* No frame is lost and none serves two purposes *)

\* Who has a frame: the pages it is behind, the cores' stacks it is in, and the pages
\* it is about to be mapped for.
Frames(r) == Section(r.frame, Span(r.target))
PagesOf(f) == {x \in Roots \X LowerHalf : virt_to_phys(mem, x[1], x[2]) = f}
StacksOf(f) == {h \in harts : f \in Section(h.stack, HartStack)}
AsksOf(f) == {work.todo[i].page : i \in {j \in DOMAIN work.todo : f \in Frames(work.todo[j])}}
Only(S) == \E x : S = {x}

\* Listed, a table, or one of them.
OneUse(l, t, P, S, A) ==
    \/ l /\ ~t /\ P = {} /\ S = {} /\ A = {}
    \/ ~l /\ t /\ P = {} /\ S = {} /\ A = {}
    \/ ~l /\ ~t /\ Only(P) /\ S = {} /\ A = {}
    \/ ~l /\ ~t /\ P = {} /\ Only(S) /\ A = {}
    \/ ~l /\ ~t /\ P = {} /\ S = {} /\ Only(A)

UsesInv ==
    \A f \in Usable : OneUse(f \in Holds(free), f \in DOMAIN mem, PagesOf(f), StacksOf(f), AsksOf(f))

\* map finds no table at the level of a block it is about to map.
RoomInv ==
    \A i \in DOMAIN work.todo : work.todo[i].target > 1 =>
        Path(mem, work.root, work.todo[i].page)[work.todo[i].target - 1] = NoFrame

\* No table is lost: each that is not the bootloader's is on the way to some page.
Reaches(t) == \E r \in Roots, p \in Pages, l \in 1 .. Levels : Path(mem, r, p)[l] = t
ReachedInv == \A t \in DOMAIN mem \ Boots : t \in Usable /\ Reaches(t)

\* unmap is asked for pages, not for frames.
FreedInv == work.op = "free" => \A i \in DOMAIN work.todo : work.todo[i].frame = NoFrame

Full == Whole /\ UsesInv /\ RoomInv /\ ReachedInv /\ FreedInv

\* The call that begins asks for each frame of S once, and for no other.
Asking(S) == \A f \in Usable : IF f \in S THEN Only(AsksOf(f)') ELSE AsksOf(f)' = {}

LEMMA UsesPrimed ==
    ASSUME \A f \in Usable : OneUse(f \in Holds(free'), f \in DOMAIN mem', PagesOf(f)', StacksOf(f)', AsksOf(f)')
    PROVE  UsesInv'
BY DEF UsesInv, Usable, Holds, PagesOf, StacksOf, AsksOf, OneUse, LowerHalf, Half, Section, Frames, Only

\* Frames are claimed for requests, or none at all, and no table changes.
LEMMA ClaimUses ==
    ASSUME UsesInv, ReachedInv, mem' = mem, harts' = harts, Roots' = Roots, work.todo = << >>,
           NEW S, Moved(free, free', S),
           Asking(S)
    PROVE  UsesInv' /\ ReachedInv'
<1>1. ASSUME NEW f \in Usable
      PROVE  OneUse(f \in Holds(free'), f \in DOMAIN mem', PagesOf(f)', StacksOf(f)', AsksOf(f)')
  <2>1. PagesOf(f)' = PagesOf(f)
    BY DEF PagesOf, LowerHalf, Half
  <2>2. StacksOf(f)' = StacksOf(f)
    BY DEF StacksOf, Section
  <2>3. AsksOf(f) = {}
    BY DEF AsksOf
  <2>4. OneUse(f \in Holds(free), f \in DOMAIN mem, PagesOf(f), StacksOf(f), AsksOf(f))
    BY DEF UsesInv
  <2>5. /\ f \in S => f \in Holds(free)
        /\ f \in Holds(free') <=> f \in Holds(free) /\ f \notin S
    BY DEF Moved
  <2>6. IF f \in S THEN Only(AsksOf(f)') ELSE AsksOf(f)' = {}
    BY DEF Asking
  <2> QED BY <2>1, <2>2, <2>3, <2>4, <2>5, <2>6 DEF OneUse
<1>2. UsesInv'
  BY <1>1, UsesPrimed
<1>3. ReachedInv'
  BY DEF ReachedInv, Reaches, Usable, Boots, Pages, Power
<1> QED BY <1>2, <1>3

\* Steps that ask for nothing, or for whatever frame is next.
LEMMA NoAsks ==
    ASSUME \A i \in DOMAIN work'.todo : work'.todo[i].frame = NoFrame /\ work'.todo[i].target = 1
    PROVE  Asking({}) /\ RoomInv'
<1>1. Section(NoFrame, Span(1)) = {NoFrame} /\ NoFrame \notin Usable
  <2>1. NoFrame \in Nat
    BY DEF NoFrame
  <2> QED BY <2>1, OnePage, MemoryFacts
<1>2. \A f \in Usable, i \in DOMAIN work'.todo : f \notin Section(work'.todo[i].frame, Span(work'.todo[i].target))
  BY <1>1
<1>3. \A f \in Usable : AsksOf(f)' = {}
  BY <1>2 DEF AsksOf, Frames, Section, Span, Power
<1>4. RoomInv'
  BY DEF RoomInv
<1> QED BY <1>3, <1>4 DEF Asking

\* Pages asked for one by one, in frames side by side.
LEMMA ClaimAsks ==
    ASSUME NEW b, NEW n \in Nat, NEW g \in Nat, NEW frames, PageByPage(work'.todo, b, n, frames),
           \A k \in 1 .. n : frames[k] = g + k - 1
    PROVE  /\ Asking(Section(g, n))
           /\ RoomInv'
<1> DEFINE todo == work'.todo
<1>1. /\ DOMAIN todo = 1 .. n
      /\ \A k \in 1 .. n : todo[k].frame = g + k - 1 /\ todo[k].target = 1
  BY DEF PageByPage
<1>2. \A k \in 1 .. n : Section(todo[k].frame, Span(todo[k].target)) = {g + k - 1}
  BY <1>1, OnePage
<1>3. ASSUME NEW f \in Usable
      PROVE  IF f \in Section(g, n) THEN Only(AsksOf(f)') ELSE AsksOf(f)' = {}
  <2>1. AsksOf(f)' = {todo[i].page : i \in {j \in 1 .. n : f \in Section(todo[j].frame, Span(todo[j].target))}}
    BY <1>1 DEF AsksOf, Frames, Section, Span, Power
  <2>2. AsksOf(f)' = {todo[i].page : i \in {j \in 1 .. n : f = g + j - 1}}
    BY <1>2, <2>1
  <2> HIDE DEF todo
  <2>3. f \in Nat
    BY MemoryFacts
  <2>4. CASE f \in Section(g, n)
    <3> DEFINE k == f - g + 1
    <3>1. k \in 1 .. n /\ \A j \in 1 .. n : f = g + j - 1 <=> j = k
      BY <2>3, <2>4 DEF Section
    <3> HIDE DEF k
    <3>2. AsksOf(f)' = {todo[k].page}
      BY <2>2, <3>1
    <3> QED BY <2>4, <3>2 DEF Only
  <2>5. CASE f \notin Section(g, n)
    <3>1. \A j \in 1 .. n : f # g + j - 1
      BY <2>3, <2>5 DEF Section
    <3> QED BY <2>2, <2>5, <3>1
  <2> QED BY <2>4, <2>5
<1>4. RoomInv'
  BY <1>1 DEF RoomInv
<1> QED BY <1>3, <1>4 DEF Asking

LEMMA SameUses ==
    ASSUME UsesInv, RoomInv, ReachedInv, UNCHANGED <<mem, free, harts, work>>, Roots' = Roots
    PROVE  UsesInv' /\ RoomInv' /\ ReachedInv'
<1>1. ASSUME NEW f \in Usable
      PROVE  OneUse(f \in Holds(free'), f \in DOMAIN mem', PagesOf(f)', StacksOf(f)', AsksOf(f)')
  <2>1. PagesOf(f)' = PagesOf(f) /\ StacksOf(f)' = StacksOf(f) /\ AsksOf(f)' = AsksOf(f)
    BY DEF PagesOf, StacksOf, AsksOf, LowerHalf, Half, Section, Frames, Span, Power
  <2>2. OneUse(f \in Holds(free), f \in DOMAIN mem, PagesOf(f), StacksOf(f), AsksOf(f))
    BY DEF UsesInv
  <2> QED BY <2>1, <2>2
<1>2. UsesInv'
  BY <1>1, UsesPrimed
<1>3. RoomInv' /\ ReachedInv'
  BY DEF RoomInv, ReachedInv, Reaches, Usable, Boots, Pages, Power
<1> QED BY <1>2, <1>3

\* What Alloc claims, and for which pages.
LEMMA AllocAsks ==
    ASSUME Inv, Regular, NEW c \in Calls, Alloc(c)
    PROVE  /\ c.pages \in Nat
           /\ \E frames : /\ PageByPage(work'.todo, c.base, c.pages, frames)
                          /\ \/ free' = free /\ \A k \in 1 .. c.pages : frames[k] = NoFrame
                             \/ \E g \in Nat : /\ \A k \in 1 .. c.pages : frames[k] = g + k - 1
                                               /\ Moved(free, free', Section(g, c.pages))
<1> DEFINE n == c.pages
           g == free[Run(free, n, 1)]
           frames == [k \in 1 .. n |-> FrameOf(c.kind, g, k)]
           list == [k \in 1 .. n |-> Request(c.base + k - 1, FrameOf(c.kind, g, k), 1)]
           left == Without(free, Run(free, n, 1), n)
<1>1. /\ HasRun(free, n, 1)
      /\ free' = IF c.kind = "scattered" THEN free ELSE left
      /\ work' = [Idle EXCEPT !.op = "alloc", !.root = satp, !.todo = list]
  BY DEF Alloc
<1>2. work'.todo = list
  <2>1. \A root, todo : [Idle EXCEPT !.op = "alloc", !.root = root, !.todo = todo].todo = todo
    BY DEF Idle
  <2> HIDE DEF list
  <2> QED BY <1>1, <2>1
<1>3. c.base \in Nat /\ n \in Nat /\ Section(c.base, n) \subseteq LowerHalf
      /\ c.kind \in {"scattered", "contiguous"}
  BY RequestAssumption DEF RequestAssumption, Regular
<1> HIDE DEF n
<1>4. g \in Nat /\ Moved(free, left, Section(g, n))
  BY <1>1, <1>3, RunFrames
<1> HIDE DEF g, left
<1>5. /\ frames \in [1 .. n -> Nat] /\ \A k \in 1 .. n : frames[k] = FrameOf(c.kind, g, k)
      /\ c.kind = "scattered" => \A k \in 1 .. n : frames[k] = NoFrame
      /\ c.kind = "contiguous" => \A k \in 1 .. n : frames[k] = g + k - 1
  BY <1>3, <1>4 DEF FrameOf, NoFrame
<1>6. list = [k \in 1 .. n |-> Request(c.base + k - 1, frames[k], 1)]
  BY <1>5
<1> HIDE DEF frames, list
<1>7. PageByPage(list, c.base, n, frames)
  BY <1>3, <1>5, <1>6, RequestsAre
<1>8. \/ free' = free /\ \A k \in 1 .. n : frames[k] = NoFrame
      \/ \A k \in 1 .. n : frames[k] = g + k - 1 /\ Moved(free, free', Section(g, n))
  BY <1>1, <1>3, <1>4, <1>5
<1> QED BY <1>1, <1>2, <1>3, <1>4, <1>5, <1>7, <1>8 DEF n

\* The frames of the stack are asked for block by block, under a slot of the root that
\* nothing hangs under.
LEMMA LoadStackAsks ==
    ASSUME Whole, LoadStack
    PROVE  \E S : /\ Moved(free, free', S)
                  /\ Asking(S)
                  /\ RoomInv'
<1>1. work.op = "load" /\ mem' = mem
  BY DEF LoadStack, Ended
<1>2. Inv /\ WorkInv /\ WaysInv /\ LoadInv'
  BY LoadStackRest DEF Whole, Inv, Rest
<1>3. work'.op = "stack" /\ work'.root = work.root
  BY <1>2, LoadStackIs DEF StackMade
<1> DEFINE Q == Span(2)
           n == StackBlocks
           list == work'.todo
<1>4. PICK slot \in ArenaSlots(work.root), g \in Nat :
          /\ DOMAIN list = 1 .. n
          /\ \A k \in 1 .. n : /\ list[k].page = slot * Span(Levels) + (k - 1) * Q
                               /\ list[k].frame = g + (k - 1) * Q
                               /\ list[k].target = 2
          /\ g % Q = 0
          /\ Moved(free, free', Section(g, n * Q))
  BY <1>2, LoadStackIs DEF StackMade
<1>5. Loading /\ Loading' /\ work.root \in Roots
  BY <1>1, <1>3 DEF Loading, Roots
<1>6. slot \in Slots /\ slot \notin UpperSlots /\ mem[work.root][slot].kind = "none"
  BY <1>2, <1>5, ArenaSlotIs
<1> DEFINE base == slot * Span(Levels)
<1>7. /\ n \in Nat /\ 2 \in 1 .. Levels /\ Q \in Nat /\ Q > 0
      /\ \A k \in 1 .. n : base \in Nat /\ list[k].page % Q = 0
  <2>1. n \in Nat /\ 2 \in 1 .. Levels
    BY Shape, RequestAssumption DEF RequestAssumption
  <2>2. Q \in Nat /\ Q > 0
    BY <2>1, SpanHead
  <2>3. slot \in 1 .. Fan \div 2
    BY DEF ArenaSlots
  <2>4. \A k \in 1 .. n : base \in Nat
    BY <2>3, StackPages
  <2>5. \A k \in 1 .. n : list[k].page % Q = 0
    BY <1>2, <1>3, <1>4, <1>5 DEF LoadInv, Request2
  <2> QED BY <2>1, <2>2, <2>4, <2>5
<1>8. \A k \in 1 .. n : list[k].page = base + (k - 1) * Q
  BY <1>4
<1>9. \A k \in 1 .. n : Frames(list[k]) = Section(g + (k - 1) * Q, Q)
  BY <1>4 DEF Frames
<1> HIDE DEF n, base
<1>10. \A k \in 1 .. n : Strip(base, Q, n, k) /\ Strip(g, Q, n, k)
  <2> SUFFICES ASSUME NEW k \in 1 .. n PROVE Strip(base, Q, n, k) /\ Strip(g, Q, n, k)
    OBVIOUS
  <2>1. base % Q = 0
    <3> HIDE DEF Q, list
    <3>1. 1 \in 1 .. n /\ (1 - 1) * Q = 0 /\ base \in Nat
      BY <1>7
    <3>2. list[1].page = base + (1 - 1) * Q /\ list[1].page % Q = 0
      BY <1>7, <1>8, <3>1
    <3> QED BY <3>1, <3>2
  <2>2. base \in Nat /\ g % Q = 0
    BY <1>4, <1>7
  <2> HIDE DEF Q
  <2> QED BY <1>7, <2>1, <2>2, StripIs
<1>11. ASSUME NEW f \in Usable
       PROVE  IF f \in Section(g, n * Q) THEN Only(AsksOf(f)') ELSE AsksOf(f)' = {}
  <2>1. AsksOf(f)' = {list[i].page : i \in {j \in 1 .. n : f \in Section(g + (j - 1) * Q, Q)}}
    <3>1. AsksOf(f)' = {list[i].page : i \in {j \in DOMAIN list : f \in Frames(list[j])}}
      BY DEF AsksOf, Frames, Section, Span, Power
    <3> QED BY <1>4, <1>9, <3>1 DEF n
  <2> HIDE DEF Q, list
  <2>2. CASE f \in Section(g, n * Q)
    <3>1. PICK k \in 1 .. n : f \in Section(g + (k - 1) * Q, Q)
      BY <1>7, <2>2, StripAll
    <3>2. ASSUME NEW j \in 1 .. n, f \in Section(g + (j - 1) * Q, Q), j # k PROVE FALSE
      <4> DEFINE a == g + (k - 1) * Q
                 b == g + (j - 1) * Q
      <4>1. a \in Nat /\ a % Q = 0 /\ b \in Nat /\ b % Q = 0
            /\ a \div Q = (g \div Q) + k - 1 /\ b \div Q = (g \div Q) + j - 1
        BY <1>10 DEF Strip
      <4>2. g \div Q \in Int
        BY <1>7, Division
      <4>3. a \div Q # b \div Q
        <5> HIDE DEF a, b
        <5> QED BY <3>2, <4>1, <4>2
      <4>4. a # b
        BY <4>3
      <4> HIDE DEF a, b
      <4>5. Section(a, Q) \cap Section(b, Q) = {}
        BY <1>7, <4>1, <4>4, BlocksApart DEF Q
      <4> QED BY <3>1, <3>2, <4>5 DEF a, b
    <3>3. AsksOf(f)' = {list[k].page}
      BY <2>1, <3>1, <3>2
    <3> QED BY <2>2, <3>3 DEF Only
  <2>3. CASE f \notin Section(g, n * Q)
    <3>1. \A j \in 1 .. n : f \notin Section(g + (j - 1) * Q, Q)
      BY <1>10, <2>3 DEF Strip
    <3> QED BY <2>1, <2>3, <3>1
  <2> QED BY <2>2, <2>3
<1>12. RoomInv'
  <2>1. ASSUME NEW k \in 1 .. n
        PROVE  Path(mem, work.root, list[k].page)[1] = NoFrame
    <3> DEFINE p == list[k].page
               r == work.root
    <3>1. p \in Section(base, n * Q)
      <4>1. p \in Section(p, Q)
        BY <1>7, <1>8, <1>10, SpanHead DEF Strip
      <4> QED BY <1>8, <1>10, <4>1 DEF Strip
    <3>2. p \in Pages /\ p \in Nat /\ Index(p, Levels) = slot
      <4>1. p \in StackOf(slot * Span(Levels))
        BY <3>1 DEF StackOf, base, n
      <4>2. p \in Pages /\ Index(p, Levels) = slot
        BY <1>6, <4>1, StackHome
      <4> QED BY <4>2, PrefixEnds
    <3>3. PICK pl : Trees(mem, pl, Roots)
      BY <1>2 DEF WaysInv
    <3>4. Closed(mem, DOMAIN pl) /\ r \in DOMAIN pl
      BY <1>5, <3>3 DEF Trees, Placed, RootAt
    <3> HIDE DEF p, r
    <3>5. mem[r][slot].kind = "none" /\ 1 \in 1 .. Levels /\ Levels - 1 \in 1 .. Levels
          /\ Levels - 1 \in 1 .. Levels - 1 /\ (Levels - 1) + 1 = Levels
      BY <1>6, Shape DEF r
    <3>6. Path(mem, r, p)[Levels - 1] = NoFrame
      <4>1. /\ Path(mem, r, p)[Levels] = r
            /\ Path(mem, r, p)[Levels - 1] =
                  Under(mem, Path(mem, r, p)[(Levels - 1) + 1], Index(p, (Levels - 1) + 1))
        BY <3>5, PathUnfold
      <4> QED BY <3>2, <3>5, <4>1 DEF Under
    <3>7. SUFFICES ASSUME Path(mem, r, p)[1] # NoFrame PROVE FALSE
      BY DEF p, r
    <3>8. Path(mem, r, p)[Levels - 1] \in DOMAIN pl
      BY <3>2, <3>4, <3>5, <3>7, PathAbove
    <3> QED BY <3>4, <3>6, <3>8 DEF Closed
  <2>2. \A k \in DOMAIN list : list[k].target = 2 /\ Path(mem, work.root, list[k].page)[1] = NoFrame
    BY <1>4, <2>1 DEF n
  <2>3. \A k \in DOMAIN list : list[k].target - 1 = 1
    BY <2>2
  <2> QED BY <1>1, <1>3, <2>2, <2>3 DEF RoomInv
<1> QED BY <1>4, <1>11, <1>12 DEF n, Asking

\* Beginning and ending a call, loading a segment or the stack, and what only the
\* processor notices.
LEMMA QuietUses ==
    ASSUME Regular, Full,
           \/ InitDone \/ CallDone \/ (\E c \in Calls : Alloc(c)) \/ (\E s \in sections : Free(s))
           \/ LoadSegment \/ LoadStack \/ LoadDone \/ Switch \/ \E page \in Watched : Touch(page)
    PROVE  UsesInv' /\ RoomInv' /\ ReachedInv'
<1>1. Whole /\ Inv /\ UsesInv /\ RoomInv /\ ReachedInv
  BY DEF Full, Whole
<1>2. mem' = mem /\ harts' = harts /\ Roots' = Roots
  BY <1>1, QuietKeeps
<1>3. Moved(free, free, {})
  BY DEF Moved
<1>4. CASE InitDone \/ CallDone \/ LoadDone
  <2>1. work.todo = << >> /\ work' = Idle /\ free' = free
    BY <1>4 DEF InitDone, CallDone, LoadDone, Ended
  <2>2. work'.todo = << >>
    BY <2>1, IdleIs
  <2>3. Asking({}) /\ RoomInv'
    BY <2>2, NoAsks
  <2> QED BY <1>1, <1>2, <1>3, <2>1, <2>3, ClaimUses
<1>5. CASE \E s \in sections : Free(s)
  <2>1. PICK s \in sections : Free(s)
    BY <1>5
  <2> DEFINE list == [k \in 1 .. s.pages |-> Request(s.base + k - 1, NoFrame, 1)]
  <2>2. work = Idle /\ free' = free /\ work' = [Idle EXCEPT !.op = "free", !.root = satp, !.todo = list]
    BY <2>1 DEF Free, AtBoot, Ready
  <2>3. \A i \in DOMAIN list : list[i].frame = NoFrame /\ list[i].target = 1
    BY DEF Request
  <2> HIDE DEF list
  <2>4. work'.todo = list /\ work.todo = << >>
    <3>1. \A root, todo : [Idle EXCEPT !.op = "free", !.root = root, !.todo = todo].todo = todo
      BY DEF Idle
    <3> QED BY <2>2, <3>1, IdleIs
  <2>5. Asking({}) /\ RoomInv'
    BY <2>3, <2>4, NoAsks
  <2> QED BY <1>1, <1>2, <1>3, <2>2, <2>4, <2>5, ClaimUses
<1>6. CASE \E c \in Calls : Alloc(c)
  <2>1. PICK c \in Calls : Alloc(c)
    BY <1>6
  <2>2. work.todo = << >>
    BY <2>1, IdleIs DEF Alloc, AtBoot, Ready
  <2>3. PICK frames :
           /\ PageByPage(work'.todo, c.base, c.pages, frames)
           /\ \/ free' = free /\ \A k \in 1 .. c.pages : frames[k] = NoFrame
              \/ \E g \in Nat : /\ \A k \in 1 .. c.pages : frames[k] = g + k - 1
                                /\ Moved(free, free', Section(g, c.pages))
    BY <1>1, <2>1, AllocAsks
  <2>4. CASE free' = free /\ \A k \in 1 .. c.pages : frames[k] = NoFrame
    <3>1. \A i \in DOMAIN work'.todo : work'.todo[i].frame = NoFrame /\ work'.todo[i].target = 1
      BY <2>3, <2>4 DEF PageByPage
    <3>2. Asking({}) /\ RoomInv'
      BY <3>1, NoAsks
    <3> QED BY <1>1, <1>2, <1>3, <2>2, <2>4, <3>2, ClaimUses
  <2>5. ASSUME NEW g \in Nat, \A k \in 1 .. c.pages : frames[k] = g + k - 1,
               Moved(free, free', Section(g, c.pages))
        PROVE  UsesInv' /\ RoomInv' /\ ReachedInv'
    <3>1. c.pages \in Nat
      BY <1>1, <2>1, AllocAsks
    <3>2. /\ Asking(Section(g, c.pages))
          /\ RoomInv'
      BY <2>3, <2>5, <3>1, ClaimAsks
    <3> QED BY <1>1, <1>2, <2>2, <2>5, <3>2, ClaimUses
  <2> QED BY <2>3, <2>4, <2>5
<1>7. CASE LoadSegment
  <2>1. work.todo = << >>
    BY <1>7 DEF LoadSegment, Ended
  <2>2. SegmentMade
    BY <1>1, <1>7, LoadSegmentIs
  <2> DEFINE s == Head(work.segments)
  <2>3. s \in Segments /\ \E frames : \E g \in Nat :
           /\ PageByPage(work'.todo, s.page, s.pages, frames)
           /\ \A k \in 1 .. s.pages : frames[k] = g + k - 1
           /\ Moved(free, free', Section(g, s.pages))
    BY <2>2, Zenon DEF SegmentMade
  <2>4. s.pages \in Nat
    BY <2>3 DEF Segments
  <2>5. PICK frames, g : /\ g \in Nat /\ PageByPage(work'.todo, s.page, s.pages, frames)
                         /\ \A k \in 1 .. s.pages : frames[k] = g + k - 1
                         /\ Moved(free, free', Section(g, s.pages))
    BY <2>3
  <2> HIDE DEF s
  <2>6. Asking(Section(g, s.pages)) /\ RoomInv'
    BY <2>4, <2>5, ClaimAsks
  <2> QED BY <1>1, <1>2, <2>1, <2>5, <2>6, ClaimUses
<1>8. CASE LoadStack
  <2>1. work.todo = << >>
    BY <1>8 DEF LoadStack, Ended
  <2>2. PICK S : /\ Moved(free, free', S)
                 /\ Asking(S)
                 /\ RoomInv'
    BY <1>1, <1>8, LoadStackAsks
  <2> QED BY <1>1, <1>2, <2>1, <2>2, ClaimUses
<1>9. CASE Switch \/ \E page \in Watched : Touch(page)
  <2>1. free' = free /\ work' = work
    BY <1>9 DEF Switch, Touch
  <2> QED BY <1>1, <1>2, <2>1, SameUses
<1> QED BY <1>4, <1>5, <1>6, <1>7, <1>8, <1>9

\* Frames of the list become the tables of a new root, or a core's stack.
LEMMA RootUses ==
    ASSUME TypeOK, UsesInv, ReachedInv, NEW pl, Trees(mem, pl, Roots), NEW q, NEW entries,
           NewSpace(mem, mem', pl, q, satp, free[1], Holds(First(Cost))),
           Imaged(mem, mem', q, satp, free[1], entries, Holds(First(Cost))),
           Cut(Cost), Founded, Roots' = Roots \cup {free[1]},
           NEW T, Moved(After(Cost), free', T),
           \/ T = {} /\ harts' = harts
           \/ \E h : harts' = harts \cup {h} /\ T = Section(h.stack, HartStack),
           \A f \in Usable : AsksOf(f) = {} /\ AsksOf(f)' = {}
    PROVE  UsesInv' /\ ReachedInv'
<1> DEFINE root == free[1]
           taken == Holds(First(Cost))
           left == After(Cost)
<1>0. \A g \in Holds(free) : g \in Usable
  BY DEF TypeOK, Holds
<1>1. /\ DOMAIN mem' = DOMAIN mem \cup taken /\ \A t \in DOMAIN mem : mem'[t] = mem[t]
      /\ taken \subseteq Holds(free) /\ Holds(left) = Holds(free) \ taken
      /\ Holds(free') = Holds(left) \ T /\ T \subseteq Holds(left) /\ root \in taken
  BY DEF NewSpace, Cut, Moved
<1>2. /\ \A r \in Roots, p \in LowerHalf : virt_to_phys(mem', r, p) = virt_to_phys(mem, r, p)
      /\ \A p \in LowerHalf : virt_to_phys(mem', root, p) = NoFrame
      /\ Roots' = Roots \cup {root}
  <2>1. FALSE \in BOOLEAN
    OBVIOUS
  <2>2. LowerHalf \subseteq Pages
    BY LowerPages
  <2>3. /\ \A r \in Roots, p \in Pages : Frame(mem', r, p, FALSE) = Frame(mem, r, p, FALSE)
        /\ \A p \in Pages : p \in LowerHalf => Frame(mem', root, p, FALSE) = NoFrame
    BY <2>1 DEF Founded
  <2> QED BY <2>2, <2>3 DEF virt_to_phys
<1> HIDE DEF root, taken, left
<1>3. ASSUME NEW f \in Usable
      PROVE  OneUse(f \in Holds(free'), f \in DOMAIN mem', PagesOf(f)', StacksOf(f)', AsksOf(f)')
  <2>1. PagesOf(f)' = PagesOf(f)
    <3>1. f # NoFrame
      BY MemoryFacts
    <3>2. PagesOf(f)' = {x \in Roots' \X LowerHalf : virt_to_phys(mem', x[1], x[2]) = f}
      BY DEF PagesOf, LowerHalf, Half
    <3> QED BY <1>2, <3>1, <3>2 DEF PagesOf
  <2>2. /\ f \in T => Only(StacksOf(f)') \/ StacksOf(f) # {}
        /\ f \notin T => StacksOf(f)' = StacksOf(f)
    <3>1. StacksOf(f)' = {h \in harts' : f \in Section(h.stack, HartStack)}
      BY DEF StacksOf, Section
    <3>2. CASE T = {} /\ harts' = harts
      BY <3>1, <3>2 DEF StacksOf
    <3>3. ASSUME NEW h, harts' = harts \cup {h}, T = Section(h.stack, HartStack)
          PROVE  /\ f \in T => Only(StacksOf(f)') \/ StacksOf(f) # {}
                 /\ f \notin T => StacksOf(f)' = StacksOf(f)
      <4>1. f \in T => StacksOf(f)' = StacksOf(f) \cup {h}
        BY <3>1, <3>3 DEF StacksOf
      <4>2. f \notin T => StacksOf(f)' = StacksOf(f)
        BY <3>1, <3>3 DEF StacksOf
      <4>3. StacksOf(f) = {} => StacksOf(f) \cup {h} = {h}
        OBVIOUS
      <4> QED BY <4>1, <4>2, <4>3 DEF Only
    <3> QED BY <3>2, <3>3
  <2>3. AsksOf(f) = {} /\ AsksOf(f)' = {}
    OBVIOUS
  <2>4. OneUse(f \in Holds(free), f \in DOMAIN mem, PagesOf(f), StacksOf(f), AsksOf(f))
    BY DEF UsesInv
  <2>5. /\ f \in Holds(free') <=> f \in Holds(free) /\ f \notin taken /\ f \notin T
        /\ f \in taken \/ f \in T => f \in Holds(free)
        /\ f \in taken => f \notin T
        /\ f \in DOMAIN mem' <=> f \in DOMAIN mem \/ f \in taken
    BY <1>1
  <2> QED BY <2>1, <2>2, <2>3, <2>4, <2>5, Zenon DEF OneUse
<1>4. UsesInv'
  BY <1>3, UsesPrimed
<1>5. ASSUME NEW t \in DOMAIN mem' \ Boots
      PROVE  t \in Usable /\ \E r \in Roots', p \in Pages, l \in 1 .. Levels : Path(mem', r, p)[l] = t
  <2>0. t \in Usable
    BY <1>0, <1>1 DEF ReachedInv
  <2>1. CASE t \in DOMAIN mem
    <3>1. PICK r \in Roots, p \in Pages, l \in 1 .. Levels : Path(mem, r, p)[l] = t
      BY <1>5, <2>1 DEF ReachedInv, Reaches
    <3> DEFINE U == DOMAIN pl
    <3>2. Closed(mem, U) /\ U \subseteq DOMAIN mem' /\ (\A u \in U : mem'[u] = mem[u]) /\ r \in U
      BY <1>1 DEF Trees, Placed, RootAt, Closed
    <3>3. p \in Nat
      BY PrefixEnds
    <3> HIDE DEF U
    <3>4. FALSE \in BOOLEAN
      OBVIOUS
    <3>5. Unchanged(mem, mem', U, r, p, FALSE)
      BY <3>2, <3>3, <3>4, Kept
    <3> QED BY <1>2, <2>0, <3>1, <3>5 DEF Unchanged
  <2>2. CASE t = root
    <3>1. \A b \in Pages : Path(mem', root, b)[Levels] = root
      BY PathUnfold
    <3>2. 0 \in Pages
      <4>1. Power[Levels] \in Nat \ {0}
        BY PowerFacts, Shape
      <4> QED BY <4>1 DEF Pages
    <3>3. Path(mem', root, 0)[Levels] = t
      BY <2>2, <3>1, <3>2
    <3>4. Levels \in 1 .. Levels
      BY Shape
    <3>5. root \in Roots'
      BY <1>2
    <3> QED BY <2>0, <3>2, <3>3, <3>4, <3>5
  <2>3. CASE t \in taken \ {root}
    <3>1. PICK l \in 1 .. Levels - 1, b \in Pages : Path(mem', root, b)[l] = t
      BY <2>3 DEF Imaged, root, taken
    <3>2. l \in 1 .. Levels
      BY Shape
    <3> QED BY <1>2, <2>0, <3>1, <3>2
  <2> QED BY <1>1, <1>5, <2>0, <2>1, <2>2, <2>3
<1>6. ReachedInv'
  BY <1>5 DEF ReachedInv, Reaches, Usable, Boots, Pages, Power
<1> QED BY <1>4, <1>6

\* vmm::init, smp_init and load: the copy of the upper half adds no table where IO is
\* to be mapped, as the bootloader's table has none there.
LEMMA NewRootUses ==
    ASSUME Full, Whole', Clean', vmm_init \/ StartHart \/ Load
    PROVE  UsesInv' /\ RoomInv' /\ ReachedInv'
<1>1. Whole /\ Inv /\ WaysInv /\ UsesInv /\ RoomInv /\ ReachedInv
  BY DEF Full, Whole
<1>2. /\ Enough /\ Cut(Cost) /\ Founded /\ PartOf(free', After(Cost), Usable)
      /\ Roots' = Roots \cup {free[1]} /\ Ready
  BY <1>1, NewRootMade DEF vmm_init, StartHart, Load, AtBoot
<1>3. PICK entries \in {Cleared, Linked} : mem' = WithRoot(entries)
  BY <1>1, NewRootMade
<1>4. PICK pl : Trees(mem, pl, Roots)
  BY <1>1 DEF WaysInv
<1>5. PICK q : /\ NewSpace(mem, mem', pl, q, satp, free[1], Holds(First(Cost)))
               /\ Imaged(mem, mem', q, satp, free[1], entries, Holds(First(Cost)))
               /\ Trees(mem', q, Roots')
  BY <1>1, <1>2, <1>3, <1>4, RootTrees
<1>6. work.todo = << >> /\ \A f \in Usable : AsksOf(f) = {}
  BY <1>2, IdleIs DEF Ready, AsksOf
<1>7. \E T : /\ Moved(After(Cost), free', T)
             /\ \/ T = {} /\ harts' = harts
                \/ \E h : harts' = harts \cup {h} /\ T = Section(h.stack, HartStack)
  <2>1. CASE vmm_init \/ Load
    <3>1. free' = After(Cost) /\ harts' = harts
      BY <2>1 DEF vmm_init, Load
    <3>2. Moved(After(Cost), free', {})
      BY <3>1 DEF Moved
    <3> QED BY <3>1, <3>2
  <2>2. CASE StartHart
    BY <1>1, <2>2, StartHartTakes
  <2> QED BY <2>1, <2>2
<1>8. (\A f \in Usable : AsksOf(f)' = {}) /\ RoomInv'
  <2>1. CASE StartHart \/ Load
    <3>1. work'.todo = << >>
      <4>1. CASE StartHart
        BY <1>6, <4>1 DEF StartHart
      <4>2. CASE Load
        <5>1. \A r, g : [Idle EXCEPT !.op = "load", !.root = r, !.segments = g].todo = << >>
          BY DEF Idle
        <5>2. \E r, g : work' = [Idle EXCEPT !.op = "load", !.root = r, !.segments = g]
          BY <4>2, Zenon DEF Load
        <5> QED BY <5>1, <5>2
      <4> QED BY <2>1, <4>1, <4>2
    <3>2. Asking({}) /\ RoomInv'
      BY <3>1, NoAsks
    <3> QED BY <3>2 DEF Asking
  <2>2. CASE vmm_init
    <3> DEFINE root == free[1]
    <3>1. work'.op = "init" /\ work'.root = root /\ work'.todo = IoRequests
      <4>1. \A r, todo : LET w == [Idle EXCEPT !.op = "init", !.root = r, !.todo = todo] IN
               w.op = "init" /\ w.root = r /\ w.todo = todo
        BY DEF Idle
      <4>2. work' = [Idle EXCEPT !.op = "init", !.root = root, !.todo = IoRequests]
        BY <2>2 DEF vmm_init
      <4> HIDE DEF root
      <4> QED BY <4>1, <4>2
    <3>2. \A f \in Usable : AsksOf(f)' = {}
      <4>1. IoInv'
        BY DEF Whole
      <4>2. \A i \in DOMAIN IoRequests : \A g \in Section(IoRequests[i].frame, Span(IoRequests[i].target)) :
               g \notin Usable
        BY <3>1, <4>1 DEF IoInv, Usable, Section, Span, Power
      <4> QED BY <3>1, <4>2 DEF AsksOf, Frames, Section, Span, Power
    <3>3. satp = BootRoot
      BY <1>1, <2>2 DEF vmm_init, WorkInv, Inv
    <3>4. ASSUME NEW i \in DOMAIN IoRequests, IoRequests[i].target > 1
          PROVE  Path(mem', root, IoRequests[i].page)[IoRequests[i].target - 1] = NoFrame
      <4> DEFINE p == IoRequests[i].page
                 l == IoRequests[i].target - 1
      <4>1. IoRequests[i] \in [page : Pages \ LowerHalf, frame : Nat, target : 1 .. Levels]
        <5> DEFINE X == [page : Pages \ LowerHalf, frame : Nat, target : 1 .. Levels]
        <5>1. IoRequests \in Seq(X)
          BY RequestAssumption, Zenon DEF RequestAssumption
        <5> HIDE DEF X
        <5>2. IoRequests[i] \in X
          BY <5>1
        <5> QED BY <5>2 DEF X
      <4>2. p \in Pages /\ p \notin LowerHalf /\ l \in 1 .. Levels
        BY <3>4, <4>1, Shape
      <4>3. Path(BootMem, BootRoot, p)[l] = NoFrame
        BY <3>4, IoAssumption DEF IoAssumption
      <4> HIDE DEF p, l
      <4>4. Index(p, Levels) \in UpperSlots /\ p \in Nat
        BY <4>2, HalfIs, PrefixEnds
      <4>5. Path(mem, BootRoot, p) = Path(BootMem, BootRoot, p)
        <5>1. Closed(BootMem, Boots) /\ BootRoot \in Boots
          BY BootFacts
        <5>2. \A t \in Boots : mem[t] = BootMem[t]
          BY <1>1 DEF Inv, BootInv
        <5>3. Boots \subseteq DOMAIN mem
          BY <1>4 DEF Trees
        <5>4. FALSE \in BOOLEAN
          OBVIOUS
        <5>5. Unchanged(BootMem, mem, Boots, BootRoot, p, FALSE)
          BY <4>4, <5>1, <5>2, <5>3, <5>4, Kept
        <5> QED BY <5>5 DEF Unchanged
      <4>6. Path(mem', root, p)[l] = NoFrame
        BY <1>5, <3>3, <4>2, <4>3, <4>4, <4>5 DEF Imaged
      <4> QED BY <4>6 DEF p, l
    <3> HIDE DEF root
    <3>5. RoomInv'
      BY <3>1, <3>4 DEF RoomInv
    <3> QED BY <3>2, <3>5
  <2> QED BY <2>1, <2>2
<1>9. PICK T : /\ Moved(After(Cost), free', T)
               /\ \/ T = {} /\ harts' = harts
                  \/ \E h : harts' = harts \cup {h} /\ T = Section(h.stack, HartStack)
  BY <1>7
<1>10. \A f \in Usable : AsksOf(f) = {} /\ AsksOf(f)' = {}
  BY <1>6, <1>8
<1>11. UsesInv' /\ ReachedInv'
  BY <1>1, <1>2, <1>4, <1>5, <1>9, <1>10, RootUses DEF Inv
<1> QED BY <1>8, <1>11

LEMMA FreedStep ==
    ASSUME Inv, FreedInv, [Next]_vars
    PROVE  FreedInv'
<1>1. Idle.op # "free" /\ (work' = Idle => FreedInv')
  BY DEF FreedInv, Idle
<1>2. /\ \A op, root, todo : [Idle EXCEPT !.op = op, !.root = root, !.todo = todo].op = op
      /\ \A op, root, segs : [Idle EXCEPT !.op = op, !.root = root, !.segments = segs].op = op
  BY DEF Idle
<1>3. WorkInv
  BY DEF Inv
<1>4. CASE vmm_init
  <2>1. \E root, todo : work' = [Idle EXCEPT !.op = "init", !.root = root, !.todo = todo]
    BY <1>4, Zenon DEF vmm_init
  <2>2. work'.op = "init"
    BY <1>2, <2>1
  <2> QED BY <2>2 DEF FreedInv
<1>5. CASE InitDone \/ CallDone \/ LoadDone
  BY <1>1, <1>5 DEF InitDone, CallDone, LoadDone
<1>6. CASE MapNext
  <2>1. work.op # "free" /\ Shifted
    BY <1>6, ShiftedIs DEF MapNext, Mapping
  <2> QED BY <2>1 DEF Shifted, FreedInv
<1>7. CASE UnmapNext
  <2>1. work.todo # << >> /\ work.op = "free" /\ work' = [work EXCEPT !.todo = Tail(@)]
    BY <1>7 DEF UnmapNext
  <2>2. Popped
    BY <1>3, <2>1, PopIs DEF WorkInv
  <2> QED BY <2>1, <2>2 DEF Popped, FreedInv
<1>8. CASE \E c \in Calls : Alloc(c)
  <2>1. \E root, todo : work' = [Idle EXCEPT !.op = "alloc", !.root = root, !.todo = todo]
    BY <1>8, Zenon DEF Alloc
  <2>2. work'.op = "alloc"
    BY <1>2, <2>1
  <2> QED BY <2>2 DEF FreedInv
<1>9. CASE \E s \in sections : Free(s)
  <2>1. PICK s \in sections : Free(s)
    BY <1>9
  <2> DEFINE list == [k \in 1 .. s.pages |-> Request(s.base + k - 1, NoFrame, 1)]
  <2>2. work' = [Idle EXCEPT !.op = "free", !.root = satp, !.todo = list]
    BY <2>1 DEF Free
  <2>3. \A i \in DOMAIN list : list[i].frame = NoFrame
    BY DEF Request
  <2> HIDE DEF list
  <2>4. work'.todo = list
    <3>1. \A root, todo : [Idle EXCEPT !.op = "free", !.root = root, !.todo = todo].todo = todo
      BY DEF Idle
    <3> QED BY <2>2, <3>1
  <2> QED BY <2>3, <2>4 DEF FreedInv
<1>10. CASE StartHart \/ Switch \/ (\E page \in Watched : Touch(page)) \/ UNCHANGED vars
  <2>1. work' = work
    BY <1>10 DEF StartHart, Switch, Touch, vars
  <2> QED BY <2>1 DEF FreedInv
<1>11. CASE Load
  <2>1. \E root, segs : work' = [Idle EXCEPT !.op = "load", !.root = root, !.segments = segs]
    BY <1>11, Zenon DEF Load
  <2>2. work'.op = "load"
    BY <1>2, <2>1
  <2> QED BY <2>2 DEF FreedInv
<1>12. CASE LoadSegment
  <2>1. work'.op = "load"
    BY <1>12, LoadSegmentIs DEF SegmentMade
  <2> QED BY <2>1 DEF FreedInv
<1>13. CASE LoadStack
  <2>1. work'.op = "stack"
    BY <1>13, LoadStackIs DEF StackMade
  <2> QED BY <2>1 DEF FreedInv
<1> QED BY <1>4, <1>5, <1>6, <1>7, <1>8, <1>9, <1>10, <1>11, <1>12, <1>13 DEF Next

\* The frame that was behind the page is on the list, and behind no other.
LEMMA UnmapUses ==
    ASSUME Full, FreedInv', UnmapNext
    PROVE  UsesInv' /\ RoomInv' /\ ReachedInv'
<1>1. Whole /\ Inv /\ WorkInv /\ WaysInv /\ UsesInv /\ RoomInv /\ ReachedInv /\ FreedInv
  BY DEF Full, Whole, Inv
<1>2. PICK page : Unmapped(page)
  BY <1>1, UnmapNextIs
<1>3. PICK pl : Trees(mem, pl, Roots)
  BY <1>1 DEF WaysInv
<1>4. Placed(mem, pl) /\ \A r \in Roots : RootAt(pl, r)
  BY <1>3 DEF Trees
<1>5. /\ page \in LowerHalf /\ page \in Pages /\ Roots' = Roots /\ kernel \in Roots /\ Popped
      /\ ~UnmapPanics(mem, kernel, page) /\ mem' = UnmapIn(mem, kernel, page)
  BY <1>2 DEF Unmapped
<1> DEFINE v == virt_to_phys(mem, kernel, page)
           t == Path(mem, kernel, page)[1]
           own == <<kernel, page>>
<1>6. /\ v \in Usable /\ v \notin Holds(free) /\ v # NoFrame /\ Holds(free') = Holds(free) \cup {v}
      /\ \A r \in Roots, p \in Pages :
            virt_to_phys(mem', r, p) = IF r = kernel /\ p = page THEN NoFrame ELSE virt_to_phys(mem, r, p)
  BY <1>2 DEF Unmapped
<1>7. Unmade(mem, mem', pl, kernel, page, t)
  BY <1>4, <1>5, UnmapMakes
<1>8. /\ harts' = harts /\ work.op = "free" /\ LowerHalf \subseteq Pages
  BY LowerPages DEF UnmapNext
<1>9. own \in PagesOf(v) /\ own[1] = kernel /\ own[2] = page
  BY <1>5 DEF PagesOf
<1> HIDE DEF v, t
<1>10. (\A f \in Usable : AsksOf(f)' = {}) /\ RoomInv' /\ \A f \in Usable : AsksOf(f) = {}
  <2>1. \A i \in DOMAIN work.todo : work.todo[i].frame = NoFrame /\ work.todo[i].target = 1
    BY <1>1, <1>8 DEF FreedInv, WorkInv, VmmWork
  <2>2. \A i \in DOMAIN work'.todo : work'.todo[i].frame = NoFrame /\ work'.todo[i].target = 1
    BY <1>5, <2>1 DEF Popped
  <2>3. Asking({}) /\ RoomInv'
    BY <2>2, NoAsks
  <2>4. Section(NoFrame, Span(1)) = {NoFrame} /\ NoFrame \notin Usable
    <3>1. NoFrame \in Nat
      BY DEF NoFrame
    <3> QED BY <3>1, OnePage, MemoryFacts
  <2>5. \A f \in Usable : AsksOf(f) = {}
    BY <2>1, <2>4 DEF AsksOf, Frames
  <2> QED BY <2>3, <2>5 DEF Asking
<1>11. ASSUME NEW f \in Usable
       PROVE  OneUse(f \in Holds(free'), f \in DOMAIN mem', PagesOf(f)', StacksOf(f)', AsksOf(f)')
  <2>1. PagesOf(f)' = {x \in Roots \X LowerHalf : virt_to_phys(mem', x[1], x[2]) = f}
    BY <1>5 DEF PagesOf, LowerHalf, Half
  <2>2. f # NoFrame
    BY MemoryFacts
  <2>3. \A x \in Roots \X LowerHalf :
           virt_to_phys(mem', x[1], x[2]) = IF x = own THEN NoFrame ELSE virt_to_phys(mem, x[1], x[2])
    BY <1>6, <1>8
  <2>4. PagesOf(f)' = PagesOf(f) \ {own}
    BY <2>1, <2>2, <2>3 DEF PagesOf
  <2>5. f # v => own \notin PagesOf(f)
    BY DEF PagesOf, v
  <2>6. StacksOf(f)' = StacksOf(f) /\ AsksOf(f) = {} /\ AsksOf(f)' = {}
    BY <1>8, <1>10 DEF StacksOf, Section
  <2>7. f \in DOMAIN mem' <=> f \in DOMAIN mem
    BY <1>7 DEF Unmade
  <2>8. OneUse(f \in Holds(free), f \in DOMAIN mem, PagesOf(f), StacksOf(f), AsksOf(f))
    BY <1>1 DEF UsesInv
  <2> HIDE DEF own
  <2>9. CASE f = v
    <3>1. /\ f \notin Holds(free) /\ f \notin DOMAIN mem /\ StacksOf(f) = {}
          /\ Only(PagesOf(f))
      BY <1>9, <2>8, <2>9 DEF OneUse
    <3>2. PagesOf(f) = {own}
      BY <1>9, <2>9, <3>1 DEF Only
    <3> QED BY <1>6, <2>4, <2>6, <2>7, <2>9, <3>1, <3>2 DEF OneUse
  <2>10. CASE f # v
    <3>1. PagesOf(f)' = PagesOf(f) /\ (f \in Holds(free') <=> f \in Holds(free))
      BY <1>6, <2>4, <2>5, <2>10
    <3> QED BY <2>6, <2>7, <2>8, <3>1 DEF OneUse
  <2> QED BY <2>9, <2>10
<1>12. UsesInv'
  BY <1>11, UsesPrimed
<1>13. ASSUME NEW u \in DOMAIN mem' \ Boots
       PROVE  u \in Usable /\ \E r \in Roots', p \in Pages, l \in 1 .. Levels : Path(mem', r, p)[l] = u
  <2>0. u \in Usable /\ Reaches(u)
    BY <1>1, <1>7, <1>13 DEF ReachedInv, Unmade
  <2>1. PICK r \in Roots, p \in Pages, l \in 1 .. Levels : Path(mem, r, p)[l] = u
    BY <2>0 DEF Reaches
  <2>2. \A k \in 1 .. Levels : Path(mem, r, p)[k] # NoFrame =>
           /\ Path(mem, r, p)[k] \in DOMAIN pl
           /\ pl[Path(mem, r, p)[k]] = Place(r, k, Prefix(p, k))
    BY <1>4, PathPlace
  <2>3. \A k \in 1 + 1 .. Levels : Path(mem, r, p)[k] # NoFrame =>
           mem'[Path(mem, r, p)[k]][Index(p, k)] = mem[Path(mem, r, p)[k]][Index(p, k)]
    <3> SUFFICES ASSUME NEW k \in 1 + 1 .. Levels, Path(mem, r, p)[k] # NoFrame
                 PROVE  mem'[Path(mem, r, p)[k]] = mem[Path(mem, r, p)[k]]
      OBVIOUS
    <3>1. k \in 1 .. Levels /\ k # 1
      BY Shape
    <3>2. Path(mem, r, p)[k] \in DOMAIN mem
      BY <1>4, <2>2, <3>1 DEF Placed, Closed
    <3>3. Path(mem, r, p)[k] # t
      <4>1. pl[t] = Place(kernel, 1, Prefix(page, 1))
        BY <1>7 DEF Unmade
      <4>2. pl[Path(mem, r, p)[k]] = Place(r, k, Prefix(p, k))
        BY <2>2, <3>1
      <4>3. \A a, b : Place(kernel, 1, a).level = 1 /\ Place(r, k, b).level = k
        BY DEF Place
      <4> QED BY <3>1, <4>1, <4>2, <4>3
    <3> QED BY <1>7, <3>2, <3>3 DEF Unmade
  <2>4. 1 \in 1 .. Levels
    BY Shape
  <2>5. \A k \in 1 .. Levels : Path(mem', r, p)[k] = Path(mem, r, p)[k]
    BY <2>3, <2>4, SamePath
  <2> QED BY <1>5, <2>0, <2>1, <2>5
<1>14. ReachedInv'
  BY <1>13 DEF ReachedInv, Reaches, Usable, Boots, Pages, Power
<1> QED BY <1>10, <1>12, <1>14

\* The root, and the frame, of a request to map.
LEMMA AskedRoot ==
    ASSUME Shifted, NEW root, NEW page, NEW target, Asked(root, page, target)
    PROVE  root \in Roots /\ page \in Pages /\ target \in 1 .. Levels
<1>1. root \in Roots
  <2>1. CASE Loading
    BY <2>1 DEF Asked, Roots
  <2>2. CASE ~Loading
    BY <2>2 DEF Shifted, Asked, Loading
  <2> QED BY <2>1, <2>2
<1> QED BY <1>1 DEF Asked

\* map overwrites no way to a table: what it fills was empty, or has no table below it.
LEMMA MapReaches ==
    ASSUME UsesInv, RoomInv, ReachedInv, TypeOK, Shifted, NEW root, NEW page, NEW target, Asked(root, page, target),
           NEW pl, NEW q, NEW tab, NEW new, NEW d, NEW f \in Nat, Trees(mem, pl, Roots),
           Holds(new) \subseteq Holds(free), MapTreed(pl, q, tab, new, root, page, f, target, d)
    PROVE  ReachedInv'
<1>1. root \in Roots /\ page \in Pages /\ target \in 1 .. Levels /\ Roots' = Roots
  BY AskedRoot DEF Shifted
<1>2. Placed(mem, pl) /\ RootAt(pl, root) /\ Closed(mem, DOMAIN pl) /\ \A r \in Roots : RootAt(pl, r)
  BY <1>1 DEF Trees, Placed
<1>3. Made(mem, mem', pl, tab, root, page, f, target, d)
  BY DEF MapTreed
<1>4. Filled(mem, mem', tab, page, f, target, d)
  BY <1>1, <1>2, <1>3, MadeEntries
<1>5. /\ d \in target .. Levels /\ d \in 1 .. Levels /\ target \in Nat /\ d \in target .. d
      /\ pl[tab[d]] = Place(root, d, Prefix(page, d))
      /\ DOMAIN mem' = DOMAIN mem \cup {tab[k] : k \in target .. d - 1}
      /\ Path(mem, root, page)[d] = tab[d] /\ tab[d] \in DOMAIN pl
      /\ \A t \in DOMAIN mem \ {tab[d]} : mem'[t] = mem[t]
      /\ d > target => mem[tab[d]][Index(page, d)].kind = "none"
  <2>1. d \in target .. Levels
    BY <1>3 DEF Made
  <2> QED BY <1>1, <1>3, <2>1, Shape DEF Made
<1>6. target > 1 => Path(mem, root, page)[target - 1] = NoFrame
  <2>1. /\ 1 \in DOMAIN work.todo /\ root = work.root
        /\ page = work.todo[1].page /\ target = work.todo[1].target
    BY DEF Shifted, Asked
  <2> QED BY <2>1 DEF RoomInv
<1>7. ASSUME NEW k \in target .. d - 1
      PROVE  tab[k] \in Usable /\ \E r \in Roots, p \in Pages, l \in 1 .. Levels : Path(mem', r, p)[l] = tab[k]
  <2>1. tab[k] \in Usable
    <3>1. \A g \in Holds(free) : g \in Usable
      BY DEF TypeOK, Holds
    <3> QED BY <1>3, <3>1 DEF MapTreed
  <2>2. k \in target .. d /\ k \in 1 .. Levels /\ k \in k .. d
    BY <1>1, <1>5, Shape
  <2>3. Leads(mem', root, page, tab, k, d)
    BY <1>1, <1>2, <1>3, <2>2, MapPath
  <2>4. Path(mem', root, page)[k] = tab[k]
    BY <2>2, <2>3 DEF Leads
  <2> QED BY <1>1, <2>1, <2>2, <2>4
<1>8. ASSUME NEW r \in Roots, NEW p \in Pages, NEW l \in 1 .. Levels, Path(mem, r, p)[l] \in Usable
      PROVE  Path(mem', r, p)[l] = Path(mem, r, p)[l]
  <2> DEFINE a == Path(mem, r, p)
  <2>1. p \in Nat /\ r \in DOMAIN pl /\ a[l] # NoFrame
    BY <1>2, <1>8, PrefixEnds, MemoryFacts DEF RootAt
  <2>2. \A k \in 1 .. Levels : a[k] # NoFrame => a[k] \in DOMAIN pl /\ pl[a[k]] = Place(r, k, Prefix(p, k))
    BY <1>2, PathPlace
  <2>3. \A k \in l .. Levels : a[k] \in DOMAIN pl
    BY <1>2, <2>1, PathAbove
  <2>4. \A k \in 1 .. Levels - 1 : a[k] = Under(mem, a[k + 1], Index(p, k + 1))
    BY PathUnfold
  <2> HIDE DEF a
  <2>5. ASSUME NEW k \in l + 1 .. Levels
        PROVE  mem'[a[k]][Index(p, k)] = mem[a[k]][Index(p, k)]
    <3>1. /\ k \in 1 .. Levels /\ k \in l .. Levels /\ k > 1 /\ k - 1 \in l .. Levels /\ k - 1 \in 1 .. Levels - 1
          /\ (k - 1) + 1 = k /\ k \in Nat
      BY Shape
    <3>2. a[k] \in DOMAIN mem /\ a[k] # NoFrame /\ a[k - 1] \in DOMAIN pl /\ a[k - 1] # NoFrame
      BY <1>2, <2>3, <3>1 DEF Closed
    <3>3. mem[a[k]][Index(p, k)].kind = "branch" /\ mem[a[k]][Index(p, k)].frame = a[k - 1]
      BY <2>4, <3>1, <3>2 DEF Under
    <3>4. CASE a[k] # tab[d]
      BY <1>5, <3>2, <3>4
    <3>5. CASE a[k] = tab[d]
      <4>1. Place(r, k, Prefix(p, k)) = Place(root, d, Prefix(page, d))
        BY <1>5, <2>2, <3>1, <3>2, <3>5
      <4>2. k = d
        BY <4>1 DEF Place
      <4>3. Index(p, k) \in Slots
        BY <2>1, <3>1, PrefixStep
      <4>4. CASE Index(p, k) # Index(page, d)
        BY <1>4, <1>5, <3>5, <4>2, <4>3, <4>4 DEF Filled
      <4>5. CASE Index(p, k) = Index(page, d)
        <5>1. mem[tab[d]][Index(page, d)].kind = "branch" /\ mem[tab[d]][Index(page, d)].frame = a[k - 1]
          BY <3>3, <3>5, <4>5
        <5>2. ~(d > target)
          BY <1>5, <5>1
        <5>3. d = target
          BY <1>5, <5>2
        <5>4. Path(mem, root, page)[d - 1] = NoFrame
          BY <1>6, <3>1, <4>2, <5>3
        <5>5. Path(mem, root, page)[d - 1] = Under(mem, tab[d], Index(page, d))
          <6>1. Path(mem, root, page)[k - 1] = Under(mem, Path(mem, root, page)[(k - 1) + 1], Index(page, (k - 1) + 1))
            BY <3>1, PathUnfold
          <6> QED BY <1>5, <3>1, <4>2, <6>1
        <5> QED BY <3>2, <3>5, <5>1, <5>4, <5>5 DEF Under
      <4> QED BY <4>4, <4>5
    <3> QED BY <3>4, <3>5
  <2>6. \A k \in l + 1 .. Levels : Path(mem, r, p)[k] # NoFrame =>
           mem'[Path(mem, r, p)[k]][Index(p, k)] = mem[Path(mem, r, p)[k]][Index(p, k)]
    BY <2>5 DEF a
  <2>7. \A k \in l .. Levels : Path(mem', r, p)[k] = Path(mem, r, p)[k]
    BY <2>6, SamePath
  <2>8. l \in l .. Levels
    BY Shape
  <2> QED BY <2>7, <2>8
<1>9. ASSUME NEW t \in DOMAIN mem' \ Boots
      PROVE  t \in Usable /\ \E r \in Roots', p \in Pages, l \in 1 .. Levels : Path(mem', r, p)[l] = t
  <2>1. CASE t \in DOMAIN mem
    <3>1. t \in Usable /\ Reaches(t)
      BY <1>9, <2>1 DEF ReachedInv
    <3>2. PICK r \in Roots, p \in Pages, l \in 1 .. Levels : Path(mem, r, p)[l] = t
      BY <3>1 DEF Reaches
    <3>3. Path(mem', r, p)[l] = t
      BY <1>8, <3>1, <3>2
    <3> QED BY <1>1, <3>1, <3>2, <3>3
  <2>2. CASE t \notin DOMAIN mem
    <3>1. PICK k \in target .. d - 1 : t = tab[k]
      BY <1>5, <1>9, <2>2
    <3> QED BY <1>1, <1>7, <3>1
  <2> QED BY <2>1, <2>2
<1> QED BY <1>9 DEF ReachedInv, Reaches, Usable, Boots, Pages, Power

\* The blocks that are still to be mapped are apart from the one that has been.
LEMMA AskedApart ==
    ASSUME Whole, Shifted, NEW root, NEW page, NEW target, Asked(root, page, target),
           NEW i \in DOMAIN work'.todo, work'.todo[i].target > 1
    PROVE  /\ i + 1 \in DOMAIN work.todo /\ work'.todo[i] = work.todo[i + 1]
           /\ work'.todo[i].target \in 1 .. Levels /\ work'.todo[i].page \in Pages
           /\ Prefix(work'.todo[i].page, work'.todo[i].target - 1) # Prefix(page, work'.todo[i].target - 1)
<1> DEFINE w == work'.todo[i]
           v == work.todo[1]
<1>1. /\ i + 1 \in DOMAIN work.todo /\ i + 1 # 1 /\ 1 \in DOMAIN work.todo /\ w = work.todo[i + 1]
      /\ page = v.page
  BY DEF Shifted, Asked
<1>2. WorkInv /\ LoadInv /\ IoInv /\ w.target > 1
  BY DEF Whole, Inv
<1>3. work.todo \in Seq(Requests)
  BY <1>2 DEF WorkInv, Works
<1>4. w \in Requests /\ v \in Requests
  BY <1>1, <1>3
<1>5. w.target \in 1 .. Levels /\ w.page \in Pages /\ v.page \in Pages
  BY <1>4 DEF Requests
<1> HIDE DEF w, v
<1>6. Prefix(w.page, w.target - 1) # Prefix(page, w.target - 1)
  <2>1. CASE work.op = "init"
    BY <1>1, <1>2, <2>1 DEF IoInv, v
  <2>2. CASE work.op = "alloc"
    BY <1>1, <1>2, <2>2 DEF WorkInv, VmmWork
  <2>3. CASE Loading
    <3>1. Request2(w) /\ Request2(v) /\ w.page # v.page
      BY <1>1, <1>2, <2>3 DEF LoadInv, v
    <3>2. w.target = 2 /\ v.target = 2 /\ w.page % Span(2) = 0 /\ v.page % Span(2) = 0
      BY <1>2, <3>1 DEF Request2
    <3>3. 2 \in 1 .. Levels /\ w.page \in Nat /\ v.page \in Nat
      BY <1>5, <3>2, PrefixEnds
    <3>4. Section(w.page, Span(2)) \cap Section(v.page, Span(2)) = {} /\ w.page \in Section(w.page, Span(2))
      BY <3>1, <3>2, <3>3, BlocksApart, SpanHead
    <3> DEFINE b == w.page
    <3>5. b \in Nat /\ b \notin Section(v.page, Span(2))
      BY <3>3, <3>4
    <3> HIDE DEF b
    <3>6. 0 \in Nat /\ 0 % Span(2) = 0
      BY <3>3, SpanHead
    <3>7. b \in Section(v.page, Span(2)) <=> Prefix(b, 2 - 1) = Prefix(v.page, 2 - 1)
      BY <3>2, <3>3, <3>5, <3>6, RequestBlock
    <3>8. Prefix(w.page, 2 - 1) # Prefix(page, 2 - 1)
      BY <1>1, <3>5, <3>7 DEF b
    <3> QED BY <3>2, <3>8
  <2> QED BY <2>1, <2>2, <2>3 DEF Asked, Loading
<1> QED BY <1>1, <1>5, <1>6 DEF w

\* A table on the way to such a block was on it before, for it has one place, or is one
\* of the call's and so on the way to another block.
LEMMA MapRoom ==
    ASSUME Whole, RoomInv, ReachedInv, Shifted, NEW root, NEW page, NEW target, Asked(root, page, target),
           NEW pl, NEW q, NEW tab, NEW new, NEW d, NEW f, Trees(mem, pl, Roots),
           MapTreed(pl, q, tab, new, root, page, f, target, d)
    PROVE  RoomInv'
<1> SUFFICES ASSUME NEW i \in DOMAIN work'.todo, work'.todo[i].target > 1
             PROVE  Path(mem', work'.root, work'.todo[i].page)[work'.todo[i].target - 1] = NoFrame
  BY DEF RoomInv
<1> DEFINE p == work'.todo[i].page
           l == work'.todo[i].target - 1
           u == Path(mem', root, p)[l]
<1>1. /\ p \in Pages /\ l \in 1 .. Levels /\ work'.root = root
      /\ Prefix(p, l) # Prefix(page, l) /\ Path(mem, root, p)[l] = NoFrame
  <2>1. /\ i + 1 \in DOMAIN work.todo /\ work'.todo[i] = work.todo[i + 1]
        /\ work'.todo[i].target \in 1 .. Levels /\ p \in Pages
        /\ Prefix(p, l) # Prefix(page, l)
    BY AskedApart
  <2>2. work'.root = work.root /\ work.root = root
    BY DEF Shifted, Asked
  <2>3. Path(mem, root, p)[l] = NoFrame
    BY <2>1, <2>2 DEF RoomInv
  <2>4. l \in 1 .. Levels
    <3> DEFINE t == work'.todo[i].target
    <3>1. t \in 1 .. Levels /\ t > 1
      BY <2>1
    <3> HIDE DEF t
    <3>2. t - 1 \in 1 .. Levels
      BY <3>1, Shape
    <3> QED BY <3>2 DEF t
  <2> QED BY <2>1, <2>2, <2>3, <2>4
<1> HIDE DEF p, l
<1>2. root \in Roots /\ page \in Pages
  BY AskedRoot
<1>3. /\ Placed(mem, pl) /\ Placed(mem', q) /\ RootAt(q, root) /\ \A r \in Roots : RootAt(pl, r)
      /\ DOMAIN pl \subseteq DOMAIN mem \ Boots
  BY <1>2 DEF MapTreed, Trees
<1>4. /\ DOMAIN q = DOMAIN pl \cup {tab[k] : k \in target .. d - 1}
      /\ \A t \in DOMAIN pl : q[t] = pl[t]
      /\ \A k \in target .. d - 1 : q[tab[k]] = Place(root, k, Prefix(page, k))
  <2>1. Extends(q, pl, tab, root, page, target, d) /\ d \in target .. Levels /\ target \in 1 .. Levels
    BY DEF MapTreed, Made, Asked
  <2>2. \A k \in target .. d - 1 : k \in target .. d
    BY <2>1, Shape
  <2> QED BY <2>1, <2>2 DEF Extends
<1>5. SUFFICES ASSUME u # NoFrame PROVE FALSE
  BY <1>1 DEF p, l
<1>6. u \in DOMAIN q /\ q[u] = Place(root, l, Prefix(p, l))
  BY <1>1, <1>3, <1>5, PathPlace
<1> HIDE DEF u
<1>7. CASE u \in DOMAIN pl
  <2>1. Reaches(u)
    BY <1>3, <1>7 DEF ReachedInv
  <2>2. PICK r \in Roots, b \in Pages, k \in 1 .. Levels : Path(mem, r, b)[k] = u
    BY <2>1 DEF Reaches
  <2>3. pl[u] = Place(r, k, Prefix(b, k))
    BY <1>3, <1>5, <2>2, PathPlace
  <2>4. r = root /\ k = l /\ Prefix(b, k) = Prefix(p, l)
    <3>1. Place(r, k, Prefix(b, k)) = Place(root, l, Prefix(p, l))
      BY <1>4, <1>6, <1>7, <2>3
    <3> QED BY <3>1 DEF Place
  <2>5. b \in Nat /\ p \in Nat /\ l \in 0 .. Levels /\ Prefix(b, l) = Prefix(p, l)
    BY <1>1, <2>4, PrefixEnds, Shape
  <2>6. Path(mem, root, b)[l] = Path(mem, root, p)[l]
    <3>1. \A k2 \in 1 .. Levels : k2 >= l => Path(mem, root, b)[k2] = Path(mem, root, p)[k2]
      BY <2>5, PathShared
    <3> QED BY <1>1, <3>1, Shape
  <2> QED BY <1>1, <1>5, <2>2, <2>4, <2>6
<1>8. CASE u \notin DOMAIN pl
  <2>1. PICK k \in target .. d - 1 : u = tab[k]
    BY <1>4, <1>6, <1>8
  <2>2. Place(root, k, Prefix(page, k)) = Place(root, l, Prefix(p, l))
    BY <1>4, <1>6, <2>1
  <2> QED BY <1>1, <2>2 DEF Place
<1> QED BY <1>7, <1>8

\* The frames that a request puts behind pages of the lower half: none for IO.
Given(f, target) == IF work.op = "init" THEN {} ELSE Section(f, Span(target))

\* What a call of map adds to the pages with a frame.
LEMMA MapAdds ==
    ASSUME Whole, Whole', MapNext, Shifted, NEW root, NEW page, NEW target, Asked(root, page, target),
           NEW f, Behaved(root, page, target, f), NEW g \in Usable
    PROVE  /\ g \notin Given(f, target) => PagesOf(g)' = PagesOf(g)
           /\ g \in Given(f, target) => \E x : PagesOf(g)' = PagesOf(g) \cup {x}
<1> DEFINE k == target - 1
           same == {p \in LowerHalf : Prefix(p, k) = Prefix(page, k)}
           added == {p \in same : Behind(Leaf(f), target, p) = g}
<1>1. root \in Roots /\ page \in Pages /\ target \in 1 .. Levels /\ Roots' = Roots /\ page \in Nat
  BY AskedRoot, PrefixEnds DEF Shifted
<1>2. f \in Nat /\ Drawn(root, page, f, target) /\ g # NoFrame /\ LowerHalf \subseteq Pages
  BY MemoryFacts, LowerPages DEF Behaved
<1>3. \A r \in Roots, p \in LowerHalf : r # root \/ p \notin same => virt_to_phys(mem', r, p) = virt_to_phys(mem, r, p)
  <2>1. FALSE \in BOOLEAN
    OBVIOUS
  <2>2. \A r \in Roots, p \in Pages : r # root \/ Prefix(p, k) # Prefix(page, k) =>
           Frame(mem', r, p, FALSE) = Frame(mem, r, p, FALSE)
    BY <1>2, <2>1 DEF Drawn
  <2> QED BY <1>2, <2>2 DEF virt_to_phys
<1>4. \A p \in same : virt_to_phys(mem', root, p) = Behind(Leaf(f), target, p)
                      /\ virt_to_phys(mem, root, p) = NoFrame
  <2> SUFFICES ASSUME NEW p \in same
               PROVE  virt_to_phys(mem', root, p) = Behind(Leaf(f), target, p)
                      /\ virt_to_phys(mem, root, p) = NoFrame
    OBVIOUS
  <2>1. p \in Pages /\ Prefix(p, target - 1) = Prefix(page, target - 1)
    BY <1>2
  <2> QED BY <2>1, MapNextFrames DEF Behaved
<1>5. PagesOf(g)' = PagesOf(g) \cup {<<root, p>> : p \in added}
  <2>1. PagesOf(g)' = {x \in Roots \X LowerHalf : virt_to_phys(mem', x[1], x[2]) = g}
    BY <1>1 DEF PagesOf, LowerHalf, Half
  <2> HIDE DEF same
  <2>2. ASSUME NEW x \in Roots \X LowerHalf
        PROVE  virt_to_phys(mem', x[1], x[2]) = g <=>
                  virt_to_phys(mem, x[1], x[2]) = g \/ x \in {<<root, p>> : p \in added}
    <3>1. x = <<x[1], x[2]>> /\ x[1] \in Roots /\ x[2] \in LowerHalf
      OBVIOUS
    <3>2. CASE x[1] # root \/ x[2] \notin same
      BY <1>3, <3>1, <3>2
    <3>3. CASE x[1] = root /\ x[2] \in same
      <4>1. virt_to_phys(mem, x[1], x[2]) # g /\ virt_to_phys(mem', x[1], x[2]) = Behind(Leaf(f), target, x[2])
        BY <1>2, <1>4, <3>3
      <4> QED BY <3>1, <3>3, <4>1
    <3> QED BY <3>2, <3>3
  <2>3. \A p \in added : <<root, p>> \in Roots \X LowerHalf
    BY <1>1 DEF same
  <2> HIDE DEF added
  <2> QED BY <2>1, <2>2, <2>3 DEF PagesOf
<1>6. CASE work.op = "init"
  <2>1. same = {}
    <3>1. page \notin LowerHalf /\ k \in 0 .. Levels - 1
      BY <1>1, <1>6, Shape DEF Asked
    <3> HIDE DEF k
    <3>2. \A p \in Pages : Prefix(p, k) = Prefix(page, k) => p \notin LowerHalf
      BY <1>1, <3>1, SameHalf
    <3> QED BY <1>2, <3>2
  <2>2. Given(f, target) = {}
    BY <1>6 DEF Given
  <2> QED BY <1>5, <2>1, <2>2
<1>7. CASE work.op # "init"
  <2> DEFINE d == Span(target)
  <2>1. /\ d \in Nat \ {0} /\ page % d = 0 /\ f % d = 0 /\ Section(page, d) \subseteq LowerHalf
    <3>1. CASE work.op = "alloc"
      <4>1. target = 1 /\ page \in LowerHalf
        BY <3>1 DEF Asked
      <4>2. d = 1
        BY <4>1, PowerFacts DEF Span
      <4>3. page % d = 0 /\ f % d = 0
        BY <1>1, <1>2, <4>2
      <4>4. Section(page, 1) = {page}
        BY <1>1 DEF Section
      <4> QED BY <4>1, <4>2, <4>3, <4>4
    <3>2. CASE Loading
      <4>1. /\ Request2(Head(work.todo)) /\ f = Head(work.todo).frame
            /\ page = Head(work.todo).page /\ target = Head(work.todo).target
        BY <3>2 DEF Asked, Behaved, Request2, Loading
      <4> QED BY <1>1, <4>1, SpanHead DEF Request2, Block
    <3> QED BY <1>7, <3>1, <3>2 DEF Asked, Loading
  <2>2. Given(f, target) = Section(f, d)
    BY <1>7 DEF Given
  <2>3. \A p \in Nat : /\ p \in Section(page, d) <=> Prefix(p, k) = Prefix(page, k)
                       /\ Behind(Leaf(f), target, p) \in Section(f, d)
    BY <1>1, <1>2, <2>1, RequestBlock
  <2>4. \A p \in LowerHalf : p \in Nat
    BY <1>2, PrefixEnds
  <2>5. CASE g \notin Section(f, d)
    <3>1. added = {}
      BY <2>3, <2>4, <2>5
    <3> QED BY <1>5, <2>2, <2>5, <3>1
  <2>6. CASE g \in Section(f, d)
    <3> DEFINE p == page + (g - f)
    <3>1. p \in Section(page, d) /\ p - page = g - f /\ page \in Section(page, d)
      <4> HIDE DEF d
      <4> QED BY <1>1, <1>2, <2>1, <2>6 DEF Section
    <3> HIDE DEF p
    <3>2. p \in LowerHalf /\ p \in Nat /\ Prefix(p, k) = Prefix(page, k)
      BY <2>1, <2>3, <2>4, <3>1
    <3>3. Behind(Leaf(f), target, page) = f
      <4>1. Behind(Leaf(f), target, page) = f - (f % d) + (page % d)
        BY DEF Behind, Leaf
      <4> HIDE DEF d
      <4> QED BY <1>2, <2>1, <4>1
    <3>4. \A b \in Nat : Prefix(b, k) = Prefix(page, k) => Behind(Leaf(f), target, b) - f = b - page
      BY <1>1, <1>2, <3>3, BlockSpread
    <3>5. \A b \in Nat : Behind(Leaf(f), target, b) \in Int
      <4>1. Section(f, d) \subseteq Int
        BY <1>2 DEF Section
      <4> QED BY <2>3, <4>1
    <3>6. g \in Nat
      BY MemoryFacts
    <3>7. added = {p}
      <4>1. Behind(Leaf(f), target, p) = g
        <5> DEFINE x == Behind(Leaf(f), target, p)
        <5>1. x \in Int /\ x - f = p - page
          BY <3>2, <3>4, <3>5
        <5> HIDE DEF x
        <5>2. x = g
          BY <1>2, <3>1, <3>6, <5>1
        <5> QED BY <5>2 DEF x
      <4>2. ASSUME NEW b \in added PROVE b = p
        <5>1. b \in Nat /\ Prefix(b, k) = Prefix(page, k) /\ Behind(Leaf(f), target, b) = g
          BY <2>4
        <5>2. g - f = b - page
          BY <3>4, <5>1
        <5> QED BY <1>1, <3>1, <3>2, <5>1, <5>2
      <4> QED BY <3>2, <4>1, <4>2
    <3>8. PagesOf(g)' = PagesOf(g) \cup {<<root, p>>}
      <4>1. {<<root, b>> : b \in {p}} = {<<root, p>>}
        OBVIOUS
      <4> QED BY <1>5, <3>7, <4>1
    <3> QED BY <2>2, <2>6, <3>8
  <2> QED BY <2>5, <2>6
<1> QED BY <1>6, <1>7

\* A frame that a request was given is asked for no more.
LEMMA MapAsks ==
    ASSUME Whole, UsesInv, MapNext, Shifted, NEW root, NEW page, NEW target, Asked(root, page, target),
           NEW f, Behaved(root, page, target, f), NEW g \in Usable
    PROVE  /\ g \notin Given(f, target) \/ Head(work.todo).frame = NoFrame => AsksOf(g)' = AsksOf(g)
           /\ g \in Given(f, target) /\ Head(work.todo).frame # NoFrame => AsksOf(g) # {} /\ AsksOf(g)' = {}
           /\ Head(work.todo).frame = NoFrame => work.op = "alloc" /\ target = 1
<1> DEFINE r == work.todo[1]
<1>1. /\ Head(work.todo) = r /\ page = r.page /\ target = r.target /\ 1 \in DOMAIN work.todo
      /\ \A j \in DOMAIN work'.todo : /\ j + 1 \in DOMAIN work.todo /\ j + 1 # 1
                                      /\ work'.todo[j] = work.todo[j + 1]
      /\ \A j \in DOMAIN work.todo : j # 1 => /\ j - 1 \in DOMAIN work'.todo
                                              /\ work'.todo[j - 1] = work.todo[j]
  BY DEF Shifted, Asked
<1>2. WorkInv /\ SectionInv /\ LoadInv /\ IoInv
  BY DEF Whole, Inv
<1>3. AsksOf(g)' = {work'.todo[i].page : i \in {j \in DOMAIN work'.todo : g \in Frames(work'.todo[j])}}
  BY DEF AsksOf, Frames, Section, Span, Power
<1>4. AsksOf(g)' = {work.todo[i].page : i \in {j \in DOMAIN work.todo : j # 1 /\ g \in Frames(work.todo[j])}}
  BY <1>1, <1>3
<1>5. g \notin Frames(r) => AsksOf(g)' = AsksOf(g)
  BY <1>4 DEF AsksOf
<1>6. r.frame = NoFrame => work.op = "alloc" /\ target = 1 /\ g \notin Frames(r)
  <2>1. ASSUME r.frame = NoFrame PROVE work.op = "alloc"
    BY <1>1, <1>2, <2>1 DEF IoInv, Asked, Loading, Request2
  <2>2. Section(NoFrame, Span(1)) = {NoFrame} /\ NoFrame \notin Usable
    <3>1. NoFrame \in Nat
      BY DEF NoFrame
    <3> QED BY <3>1, OnePage, MemoryFacts
  <2>3. work.op = "alloc" => target = 1
    BY DEF Asked
  <2> QED BY <1>1, <2>1, <2>2, <2>3 DEF Frames
<1>7. r.frame # NoFrame => f = r.frame
  BY <1>1 DEF Behaved
<1>8. CASE work.op = "init"
  <2>1. g \notin Frames(r)
    BY <1>1, <1>2, <1>8 DEF IoInv, Frames
  <2> QED BY <1>1, <1>5, <1>6, <1>8, <2>1 DEF Given
<1>9. CASE work.op # "init"
  <2>1. Given(f, target) = Section(f, Span(target))
    BY <1>9 DEF Given
  <2>2. r.frame # NoFrame => Given(f, target) = Frames(r)
    BY <1>1, <1>7, <2>1 DEF Frames
  <2>3. \A j \in DOMAIN work.todo : work.todo[j].page = page => j = 1
    BY <1>1, <1>2, <1>9 DEF SectionInv, LoadInv, VmmWork, Asked, Loading
  <2>4. ASSUME r.frame # NoFrame, g \in Frames(r)
        PROVE  AsksOf(g) # {} /\ AsksOf(g)' = {}
    <3>1. page \in AsksOf(g)
      BY <1>1, <2>4 DEF AsksOf
    <3>2. OneUse(g \in Holds(free), g \in DOMAIN mem, PagesOf(g), StacksOf(g), AsksOf(g))
      BY DEF UsesInv
    <3>3. AsksOf(g) = {page}
      BY <3>1, <3>2 DEF OneUse, Only
    <3>4. AsksOf(g)' \subseteq {page}
      BY <1>4, <3>3 DEF AsksOf
    <3>5. page \notin AsksOf(g)'
      BY <1>4, <2>3
    <3> QED BY <3>1, <3>4, <3>5
  <2> QED BY <1>1, <1>5, <1>6, <2>2, <2>4
<1> QED BY <1>8, <1>9

\* Every frame has one use after map, too: a listed one has become a table or has been
\* claimed for the page, or one that was asked for is behind its page.
LEMMA MapUses ==
    ASSUME Full, Whole', MapNext
    PROVE  UsesInv' /\ RoomInv' /\ ReachedInv'
<1>1. Whole /\ Inv /\ TypeOK /\ WaysInv /\ UsesInv /\ RoomInv /\ ReachedInv
  BY DEF Full, Whole, Inv
<1>2. Shifted
  BY <1>1, ShiftedIs
<1>3. PICK root, page, target : Asked(root, page, target)
  BY <1>1, AskedIs
<1>4. PICK f : Behaved(root, page, target, f)
  BY <1>1, <1>3, MapNextWays
<1>5. PICK pl, q, tab, new, d : /\ Trees(mem, pl, Roots) /\ Fed(pl, new, f)
                                /\ MapTreed(pl, q, tab, new, root, page, f, target, d)
  BY <1>4 DEF Behaved, Grew
<1> DEFINE r == Head(work.todo)
           own == IF r.frame # NoFrame THEN {} ELSE {f}
<1>6. /\ mem' = MapIn(mem, new, work.root, r.page, f, r.target)
      /\ Holds(free') = Holds(free) \ (Holds(new) \cup own)
      /\ Holds(new) \cup own \subseteq Holds(free) /\ Holds(new) \cap own = {}
  BY <1>5 DEF Fed, Moved
<1>7. DOMAIN mem' = DOMAIN mem \cup Holds(new)
  <2>1. DOMAIN MapIn(mem, new, work.root, r.page, f, r.target) = DOMAIN mem \cup {new[i] : i \in DOMAIN new}
    BY DEF MapIn
  <2> QED BY <1>6, <2>1 DEF Holds
<1>8. f \in Nat /\ harts' = harts
  BY <1>4 DEF Behaved, MapNext
<1>9. RoomInv'
  BY <1>1, <1>2, <1>3, <1>5, MapRoom
<1>10. ReachedInv'
  <2>1. Holds(new) \subseteq Holds(free)
    BY <1>6
  <2> QED BY <1>1, <1>2, <1>3, <1>5, <1>8, <2>1, MapReaches
<1> HIDE DEF r
<1>11. ASSUME NEW g \in Usable
       PROVE  OneUse(g \in Holds(free'), g \in DOMAIN mem', PagesOf(g)', StacksOf(g)', AsksOf(g)')
  <2>1. /\ g \notin Given(f, target) => PagesOf(g)' = PagesOf(g)
        /\ g \in Given(f, target) => \E x : PagesOf(g)' = PagesOf(g) \cup {x}
    BY <1>1, <1>2, <1>3, <1>4, MapAdds
  <2>2. /\ g \notin Given(f, target) \/ r.frame = NoFrame => AsksOf(g)' = AsksOf(g)
        /\ g \in Given(f, target) /\ r.frame # NoFrame => AsksOf(g) # {} /\ AsksOf(g)' = {}
        /\ r.frame = NoFrame => work.op = "alloc" /\ target = 1
    BY <1>1, <1>2, <1>3, <1>4, MapAsks DEF r
  <2>3. StacksOf(g)' = StacksOf(g)
    BY <1>8 DEF StacksOf, Section
  <2>4. OneUse(g \in Holds(free), g \in DOMAIN mem, PagesOf(g), StacksOf(g), AsksOf(g))
    BY <1>1 DEF UsesInv
  <2>5. r.frame = NoFrame => Given(f, target) = {f}
    BY <1>8, <2>2, OnePage DEF Given
  <2>6. g \in Given(f, target) => \/ g \in own
                                  \/ AsksOf(g) # {} /\ AsksOf(g)' = {} /\ own = {}
    BY <2>2, <2>5
  <2>7. g \in own => g \in Given(f, target) /\ AsksOf(g)' = AsksOf(g)
    BY <2>2, <2>5
  <2> HIDE DEF own
  <2>8. CASE g \notin Given(f, target)
    <3>1. g \notin own /\ PagesOf(g)' = PagesOf(g) /\ AsksOf(g)' = AsksOf(g)
      BY <2>1, <2>2, <2>7, <2>8
    <3> QED BY <1>6, <1>7, <2>3, <2>4, <3>1 DEF OneUse
  <2>9. CASE g \in own
    <3>1. g \in Holds(free) /\ g \notin Holds(free') /\ g \notin Holds(new)
      BY <1>6, <2>9
    <3>2. PICK x : PagesOf(g)' = PagesOf(g) \cup {x}
      BY <2>1, <2>7, <2>9
    <3>3. /\ g \notin DOMAIN mem' /\ StacksOf(g)' = {} /\ AsksOf(g)' = {} /\ PagesOf(g) = {}
      BY <1>7, <2>3, <2>4, <2>7, <2>9, <3>1 DEF OneUse
    <3>4. Only(PagesOf(g)')
      BY <3>2, <3>3 DEF Only
    <3> QED BY <3>1, <3>3, <3>4 DEF OneUse
  <2>10. CASE g \in Given(f, target) /\ g \notin own
    <3>1. AsksOf(g) # {} /\ AsksOf(g)' = {}
      BY <2>6, <2>10
    <3>2. g \notin Holds(free) /\ g \notin DOMAIN mem /\ PagesOf(g) = {} /\ StacksOf(g) = {}
      BY <2>4, <3>1 DEF OneUse
    <3>3. PICK x : PagesOf(g)' = PagesOf(g) \cup {x}
      BY <2>1, <2>10
    <3>4. Only(PagesOf(g)')
      BY <3>2, <3>3 DEF Only
    <3> QED BY <1>6, <1>7, <2>3, <3>1, <3>2, <3>4 DEF OneUse
  <2> QED BY <2>8, <2>9, <2>10
<1>12. UsesInv'
  BY <1>11, UsesPrimed
<1> QED BY <1>9, <1>10, <1>12

LEMMA InitFull == Init => Full
<1> SUFFICES ASSUME Init PROVE Full
  OBVIOUS
<1>1. Whole
  BY InitWhole
<1>2. /\ mem = BootMem /\ free = Memory /\ harts = {} /\ Roots = {}
      /\ work.op = "idle" /\ work.todo = << >>
  <2>1. work = Idle /\ kernel = NoFrame /\ tasks = << >> /\ harts = {}
    BY DEF Init
  <2>2. Roots = {}
    BY <2>1, IdleIs DEF Roots, Booted, Loading
  <2> QED BY <2>1, <2>2, IdleIs DEF Init
<1>3. UsesInv
  <2> SUFFICES ASSUME NEW f \in Usable
               PROVE  OneUse(f \in Holds(free), f \in DOMAIN mem, PagesOf(f), StacksOf(f), AsksOf(f))
    BY DEF UsesInv
  <2>1. f \in Holds(free)
    BY <1>2 DEF Usable, Holds
  <2>2. f \notin DOMAIN mem
    BY <1>2, MemoryFacts DEF Boots
  <2>3. PagesOf(f) = {} /\ StacksOf(f) = {} /\ AsksOf(f) = {}
    BY <1>2 DEF PagesOf, StacksOf, AsksOf
  <2> QED BY <2>1, <2>2, <2>3 DEF OneUse
<1>4. RoomInv /\ FreedInv
  BY <1>2 DEF RoomInv, FreedInv
<1>5. ReachedInv
  BY <1>2 DEF ReachedInv, Boots
<1> QED BY <1>1, <1>3, <1>4, <1>5 DEF Full

LEMMA NextFull ==
    ASSUME Regular, Full, [Next]_vars, Clean'
    PROVE  Full'
<1>1. Whole /\ Inv /\ UsesInv /\ RoomInv /\ ReachedInv /\ FreedInv
  BY DEF Full, Whole
<1>2. Whole'
  BY <1>1, NextWhole
<1>3. FreedInv'
  BY <1>1, FreedStep
<1>4. CASE UNCHANGED vars
  <2>1. UNCHANGED <<mem, free, harts, work>> /\ Roots' = Roots
    BY <1>4 DEF vars, Roots, Booted, Loading
  <2>2. UsesInv' /\ RoomInv' /\ ReachedInv'
    BY <1>1, <2>1, SameUses
  <2> QED BY <1>2, <1>3, <2>2 DEF Full
<1>5. CASE vmm_init \/ StartHart \/ Load
  BY <1>2, <1>3, <1>5, NewRootUses DEF Full
<1>6. CASE MapNext
  BY <1>2, <1>3, <1>6, MapUses DEF Full
<1>7. CASE UnmapNext
  BY <1>2, <1>3, <1>7, UnmapUses DEF Full
<1>8. CASE \/ InitDone \/ CallDone \/ (\E c \in Calls : Alloc(c)) \/ (\E s \in sections : Free(s))
           \/ LoadSegment \/ LoadStack \/ LoadDone \/ Switch \/ \E page \in Watched : Touch(page)
  BY <1>2, <1>3, <1>8, QuietUses DEF Full
<1> QED BY <1>4, <1>5, <1>6, <1>7, <1>8 DEF Next

LEMMA SpecFull == Regular => (Spec => [](Clean => Full))
<1>1. SUFFICES ASSUME Regular PROVE Spec => [](Clean => Full)
  OBVIOUS
<1>2. Init => Full
  BY InitFull
<1>3. Full /\ [Next]_vars /\ Clean' => Full'
  BY <1>1, NextFull
<1>4. [Next]_vars /\ Clean' => Clean
  BY CleanBefore
<1> QED BY <1>2, <1>3, <1>4, PTL DEF Spec

\* A table is a root, or there is one branch to it: two would be at one place of one
\* tree, and one page has one way.
Branches(f) == {e \in (DOMAIN mem \cap Usable) \X Slots :
                  mem[e[1]][e[2]].kind = "branch" /\ mem[e[1]][e[2]].frame = f}

LEMMA TableHeld ==
    ASSUME ReachedInv, NEW pl, Trees(mem, pl, Roots), NEW f \in Usable, f \in DOMAIN mem
    PROVE  IF f \in Roots THEN Branches(f) = {} ELSE Only(Branches(f))
<1>1. Placed(mem, pl) /\ Closed(mem, DOMAIN pl) /\ pl \in [DOMAIN pl -> Places] /\ \A r \in Roots : RootAt(pl, r)
  BY DEF Trees, Placed
<1>2. f \in DOMAIN pl /\ f # NoFrame /\ \A u \in DOMAIN mem \cap Usable : u \in DOMAIN pl
  BY MemoryFacts DEF Trees
<1>3. \A u \in DOMAIN pl : u \in Usable /\ Reaches(u) /\ u \in DOMAIN mem /\ u # NoFrame
  BY <1>1 DEF Trees, ReachedInv, Closed
<1>4. PICK r \in Roots, p \in Pages, l \in 1 .. Levels : Path(mem, r, p)[l] = f
  BY <1>2, <1>3 DEF Reaches
<1>5. pl[f] = Place(r, l, Prefix(p, l)) /\ RootAt(pl, r) /\ p \in Nat
  BY <1>1, <1>2, <1>4, PathPlace, PrefixEnds
<1>6. ASSUME NEW e \in Branches(f)
      PROVE  /\ e = <<e[1], e[2]>> /\ e[1] \in DOMAIN pl /\ e[2] \in Slots /\ pl[e[1]] \in Places
             /\ pl[e[1]].root = r /\ pl[e[1]].level = l + 1
             /\ pl[e[1]].at * Fan + e[2] = Prefix(p, l)
  <2>1. /\ e = <<e[1], e[2]>> /\ e[1] \in DOMAIN pl /\ e[2] \in Slots
        /\ mem[e[1]][e[2]].kind = "branch" /\ mem[e[1]][e[2]].frame = f
    BY <1>2 DEF Branches
  <2> DEFINE a == pl[e[1]]
  <2>2. a \in Places
    BY <1>1, <2>1
  <2>3. pl[f] = Place(a.root, a.level - 1, a.at * Fan + e[2])
    BY <1>1, <2>1 DEF Placed
  <2> HIDE DEF a
  <2>4. Place(r, l, Prefix(p, l)) = Place(a.root, a.level - 1, a.at * Fan + e[2])
    BY <1>5, <2>3
  <2>5. r = a.root /\ l = a.level - 1 /\ Prefix(p, l) = a.at * Fan + e[2]
    BY <2>4 DEF Place
  <2>6. a.level \in Nat
    BY <2>2, Shape DEF Places
  <2>7. a.level = l + 1
    BY <2>5, <2>6
  <2> QED BY <2>1, <2>2, <2>5, <2>7 DEF a
<1>7. CASE f \in Roots
  <2>1. l = Levels
    <3>1. Place(r, l, Prefix(p, l)) = Place(f, Levels, 0)
      BY <1>1, <1>5, <1>7 DEF RootAt
    <3> QED BY <3>1 DEF Place
  <2>2. \A a \in Places : a.level # Levels + 1
    BY Shape DEF Places
  <2>3. Branches(f) = {}
    BY <1>6, <2>1, <2>2
  <2> QED BY <1>7, <2>3
<1>8. CASE f \notin Roots
  <2> DEFINE h == l + 1
             u == Path(mem, r, p)[h]
             i == Index(p, h)
  <2>1. l # Levels
    BY <1>4, <1>8, PathUnfold
  <2>2. l \in 1 .. Levels - 1 /\ h \in 1 .. Levels /\ h \in l .. Levels /\ h - 1 = l /\ h \in 0 .. Levels
    BY <2>1, Shape
  <2>3. Path(mem, r, p)[l] = Under(mem, u, i)
    BY <2>2, PathUnfold
  <2> HIDE DEF h
  <2>4. u \in DOMAIN pl
    <3>1. r \in DOMAIN pl /\ Path(mem, r, p)[l] # NoFrame
      BY <1>2, <1>4, <1>5 DEF RootAt
    <3> QED BY <1>1, <1>5, <2>2, <3>1, PathAbove
  <2>5. u \in DOMAIN mem /\ u \in Usable /\ u # NoFrame /\ pl[u] = Place(r, h, Prefix(p, h))
    BY <1>1, <1>3, <1>5, <2>2, <2>4, PathPlace
  <2>6. i \in Slots /\ Prefix(p, h) \in Nat /\ Prefix(p, l) \in Nat /\ Prefix(p, l) = Prefix(p, h) * Fan + i
    <3>1. /\ Prefix(p, h) \in Nat /\ Prefix(p, h - 1) \in Nat /\ Index(p, h) \in Slots
          /\ Prefix(p, h - 1) = Prefix(p, h) * Fan + Index(p, h)
      BY <1>5, <2>2, PrefixStep
    <3> QED BY <2>2, <3>1
  <2> HIDE DEF u, i
  <2>7. <<u, i>> \in Branches(f)
    BY <1>2, <1>4, <2>3, <2>5, <2>6 DEF Under, Branches
  <2>8. ASSUME NEW e \in Branches(f)
        PROVE  e = <<u, i>>
    <3> DEFINE v == e[1]
               a == pl[v].at
    <3>1. /\ e = <<v, e[2]>> /\ v \in DOMAIN pl /\ e[2] \in Slots /\ a \in Nat
          /\ pl[v].root = r /\ pl[v].level = h /\ pl[v] \in Places
          /\ a * Fan + e[2] = Prefix(p, l)
      BY <1>6 DEF Places, h
    <3> HIDE DEF a
    <3>2. a = Prefix(p, h) /\ e[2] = i
      <4> DEFINE x == Prefix(p, l)
                 y == Prefix(p, h)
                 j == e[2]
      <4>1. Fan \in Nat /\ Fan > 0 /\ x \in Nat /\ y \in Nat /\ a \in Nat
            /\ i \in 0 .. Fan - 1 /\ j \in 0 .. Fan - 1 /\ x = Fan * y + i /\ x = Fan * a + j
        BY <2>6, <3>1, Shape DEF Slots
      <4> HIDE DEF x, y, j
      <4>2. x \div Fan = y /\ x % Fan = i
        BY <4>1, DivUnique
      <4>3. x \div Fan = a /\ x % Fan = j
        BY <4>1, DivUnique
      <4> QED BY <4>2, <4>3 DEF y, j
    <3>3. PICK s \in Roots, q \in Pages, k \in 1 .. Levels : Path(mem, s, q)[k] = v
      BY <1>3, <3>1 DEF Reaches
    <3>4. pl[v] = Place(s, k, Prefix(q, k)) /\ q \in Nat
      BY <1>1, <1>3, <3>1, <3>3, PathPlace, PrefixEnds
    <3>5. s = r /\ k = h /\ Prefix(q, k) = a
      BY <3>1, <3>4 DEF Place, a
    <3>6. Path(mem, r, q)[h] = Path(mem, r, p)[h]
      <4>1. \A k2 \in 1 .. Levels : k2 >= h => Path(mem, r, q)[k2] = Path(mem, r, p)[k2]
        BY <1>5, <2>2, <3>2, <3>4, <3>5, PathShared
      <4> QED BY <2>2, <4>1
    <3> QED BY <3>1, <3>2, <3>3, <3>5, <3>6 DEF u
  <2>9. Branches(f) = {<<u, i>>}
    BY <2>7, <2>8
  <2> QED BY <1>8, <2>9 DEF Only
<1> QED BY <1>7, <1>8

LEMMA FullOneHolder == Full => OneHolder
<1> SUFFICES ASSUME Full, NEW f \in Usable
             PROVE  Holders(f, {<<r, p, virt_to_phys(mem, r, p)>> : r \in Roots, p \in LowerHalf}) = 1
  BY DEF OneHolder
<1> DEFINE mappings == {<<r, p, virt_to_phys(mem, r, p)>> : r \in Roots, p \in LowerHalf}
           listed == {i \in DOMAIN free : free[i] = f}
           behind == {x \in mappings : x[3] = f}
           under == {e \in (DOMAIN mem \cap Usable) \X Slots :
                       mem[e[1]][e[2]].kind = "branch" /\ mem[e[1]][e[2]].frame = f}
           stacks == {h \in harts : f \in Section(h.stack, HartStack)}
<1>1. Whole /\ Inv /\ TypeOK /\ FreeInv /\ WorkInv /\ WaysInv /\ ReachedInv
  BY DEF Full, Whole, Inv
<1>2. OneUse(f \in Holds(free), f \in DOMAIN mem, PagesOf(f), StacksOf(f), AsksOf(f))
  BY DEF Full, UsesInv
<1>3. f # NoFrame
  BY MemoryFacts
<1>4. IF f \in Holds(free) THEN Only(listed) ELSE listed = {}
  <2>1. Distinct(free)
    BY <1>1 DEF FreeInv
  <2> QED BY <2>1 DEF Distinct, Holds, Only
<1>5. /\ PagesOf(f) = {} => behind = {}
      /\ Only(PagesOf(f)) => Only(behind)
  <2>1. \A x : x \in behind <=> \E y \in PagesOf(f) : x = <<y[1], y[2], f>>
    <3>1. ASSUME NEW x \in behind PROVE \E y \in PagesOf(f) : x = <<y[1], y[2], f>>
      <4>1. PICK r \in Roots, p \in LowerHalf : x = <<r, p, virt_to_phys(mem, r, p)>>
        OBVIOUS
      <4>2. virt_to_phys(mem, r, p) = f
        BY <4>1
      <4>3. <<r, p>> \in PagesOf(f) /\ x = <<<<r, p>>[1], <<r, p>>[2], f>>
        BY <4>1, <4>2 DEF PagesOf
      <4> QED BY <4>3
    <3>2. ASSUME NEW y \in PagesOf(f) PROVE <<y[1], y[2], f>> \in behind
      <4>1. y[1] \in Roots /\ y[2] \in LowerHalf /\ virt_to_phys(mem, y[1], y[2]) = f
        BY DEF PagesOf
      <4>2. <<y[1], y[2], f>> \in mappings /\ <<y[1], y[2], f>>[3] = f
        BY <4>1
      <4> QED BY <4>2
    <3> QED BY <3>1, <3>2
  <2> HIDE DEF behind
  <2>2. PagesOf(f) = {} => behind = {}
    BY <2>1
  <2>3. ASSUME NEW y, PagesOf(f) = {y} PROVE behind = {<<y[1], y[2], f>>}
    BY <2>1, <2>3
  <2> QED BY <2>2, <2>3 DEF Only
<1>6. /\ f \notin DOMAIN mem => under = {} /\ f \notin Roots
      /\ f \in DOMAIN mem => IF f \in Roots THEN under = {} ELSE Only(under)
  <2>1. under = Branches(f)
    BY DEF Branches
  <2>2. PICK pl : Trees(mem, pl, Roots)
    BY <1>1 DEF WaysInv
  <2>3. f \notin DOMAIN mem => under = {} /\ f \notin Roots
    BY <1>1 DEF TypeOK
  <2>4. f \in DOMAIN mem => IF f \in Roots THEN under = {} ELSE Only(under)
    BY <1>1, <2>1, <2>2, TableHeld
  <2> QED BY <2>3, <2>4
<1>7. stacks = StacksOf(f)
  BY DEF StacksOf
<1>8. f \in Awaiting <=> AsksOf(f) # {}
  <2> DEFINE list == work.todo
             blank == {Request(p, NoFrame, 1) : p \in Pages}
             asked == {list[i] : i \in DOMAIN list} \ blank
  <2>1. \A r \in blank : Section(r.frame, Span(r.target)) = {NoFrame}
    <3>1. NoFrame \in Nat
      BY DEF NoFrame
    <3>2. Section(NoFrame, Span(1)) = {NoFrame}
      BY <3>1, OnePage
    <3> QED BY <3>2 DEF Request
  <2> HIDE DEF blank, list
  <2>2. f \in Awaiting <=> \E r \in asked : f \in Section(r.frame, Span(r.target))
    BY DEF Awaiting, asked, blank, list
  <2>3. AsksOf(f) # {} <=> \E i \in DOMAIN list : f \in Section(list[i].frame, Span(list[i].target))
    BY DEF AsksOf, Frames, list
  <2>4. (\E r \in asked : f \in Section(r.frame, Span(r.target)))
          <=> \E i \in DOMAIN list : f \in Section(list[i].frame, Span(list[i].target))
    BY <1>3, <2>1
  <2> QED BY <2>2, <2>3, <2>4
<1>9. \A S : (S = {} => Cardinality(S) = 0) /\ (Only(S) => Cardinality(S) = 1)
  BY FS_EmptySet, FS_Singleton DEF Only
<1> DEFINE a == Cardinality(listed)
           b == Cardinality(behind)
           c == Cardinality(under)
           d == Cardinality(stacks)
           x == IF f \in Roots THEN 1 ELSE 0
           y == IF f \in Awaiting THEN 1 ELSE 0
<1>10. Holders(f, mappings) = a + b + c + d + x + y
  BY DEF Holders
<1> HIDE DEF mappings, listed, behind, under, stacks
<1>11. /\ a = IF f \in Holds(free) THEN 1 ELSE 0
       /\ c + x = IF f \in DOMAIN mem THEN 1 ELSE 0
       /\ (PagesOf(f) = {} => b = 0) /\ (Only(PagesOf(f)) => b = 1)
       /\ (StacksOf(f) = {} => d = 0) /\ (Only(StacksOf(f)) => d = 1)
       /\ y = IF AsksOf(f) = {} THEN 0 ELSE 1
       /\ (Only(AsksOf(f)) => y = 1)
       /\ c \in Nat /\ x \in Nat
  <2>1. a = IF f \in Holds(free) THEN 1 ELSE 0
    BY <1>4, <1>9
  <2>2. (PagesOf(f) = {} => b = 0) /\ (Only(PagesOf(f)) => b = 1)
    BY <1>5, <1>9
  <2>3. (StacksOf(f) = {} => d = 0) /\ (Only(StacksOf(f)) => d = 1)
    BY <1>7, <1>9
  <2>4. y = IF AsksOf(f) = {} THEN 0 ELSE 1
    BY <1>8
  <2>5. c + x = (IF f \in DOMAIN mem THEN 1 ELSE 0) /\ c \in Nat /\ x \in Nat
    <3>1. CASE f \notin DOMAIN mem
      <4>1. c = 0 /\ x = 0
        BY <1>6, <1>9, <3>1
      <4> QED BY <3>1, <4>1
    <3>2. CASE f \in DOMAIN mem /\ f \in Roots
      <4>1. c = 0 /\ x = 1
        BY <1>6, <1>9, <3>2
      <4> QED BY <3>2, <4>1
    <3>3. CASE f \in DOMAIN mem /\ f \notin Roots
      <4>1. c = 1 /\ x = 0
        BY <1>6, <1>9, <3>3
      <4> QED BY <3>3, <4>1
    <3> QED BY <3>1, <3>2, <3>3
  <2>6. Only(AsksOf(f)) => AsksOf(f) # {}
    BY DEF Only
  <2> QED BY <2>1, <2>2, <2>3, <2>4, <2>5, <2>6
<1> HIDE DEF a, b, c, d, x, y
<1>12. a + b + c + d + x + y = 1
  <2> DEFINE P == PagesOf(f)
             S == StacksOf(f)
             A == AsksOf(f)
  <2>1. (Only(P) => b = 1) /\ (Only(S) => d = 1) /\ (Only(A) => y = 1) /\ (A = {} => y = 0)
    BY <1>11
  <2> HIDE DEF P, S, A
  <2>2. \/ a = 1 /\ c + x = 0 /\ b = 0 /\ d = 0 /\ y = 0
        \/ a = 0 /\ c + x = 1 /\ b = 0 /\ d = 0 /\ y = 0
        \/ a = 0 /\ c + x = 0 /\ b = 1 /\ d = 0 /\ y = 0
        \/ a = 0 /\ c + x = 0 /\ b = 0 /\ d = 1 /\ y = 0
        \/ a = 0 /\ c + x = 0 /\ b = 0 /\ d = 0 /\ y = 1
    BY <1>2, <1>11, <2>1 DEF OneUse, P, S, A
  <2> QED BY <1>11, <2>2
<1> QED BY <1>10, <1>12 DEF mappings

\* "Only call on memory that is being unused, and wont be used later": no frame is pulled
\* back to the free list by unmap while it is there, for every list of regular calls.
THEOREM PullsAlwaysUnused ==
    ASSUME Regular
    PROVE  Spec => PullsUnused
<1>1. SUFFICES ASSUME Regular PROVE Spec => PullsUnused
  OBVIOUS
<1>2. Spec => [](Clean => Whole)
  BY <1>1, SpecWhole
<1>3. ASSUME Whole, Next, work.op = "free", work.todo # << >>, Len(free') = Len(free) + 1,
             NEW i \in DOMAIN free
      PROVE  free[i] # free'[1]
  <2>1. free \in Seq(Usable) /\ Len(free) \in Nat /\ free' # free
    BY <1>3 DEF Whole, Inv, TypeOK
  <2>2. UnmapNext
    <3>1. ~Ready
      BY <1>3, IdleIs DEF Ready
    <3> QED BY <1>3, <2>1, <3>1 DEF Next, vmm_init, InitDone, MapNext, Mapping, Alloc, Free, AtBoot, CallDone,
               Ended, StartHart, Load, LoadSegment, LoadStack, LoadDone, Switch, Touch
  <2>3. PICK page : Unmapped(page)
    BY <1>3, <2>2, UnmapNextIs
  <2>4. \E v : v \notin Holds(free) /\ Holds(free') = Holds(free) \cup {v}
    BY <2>3 DEF Unmapped
  <2>5. \E w : free' = <<w>> \o free
    BY <2>1, <2>2 DEF UnmapNext
  <2>6. ASSUME NEW w, free' = <<w>> \o free
        PROVE  free'[1] = w /\ Holds(free') = Holds(free) \cup {w}
    <3> DEFINE U == Usable \cup {w}
    <3>1. free \in Seq(U) /\ <<w>> \in Seq(U)
      BY <2>1
    <3> HIDE DEF U
    <3>2. /\ <<w>> \o free \in Seq(U) /\ Len(<<w>> \o free) = Len(free) + 1 /\ (<<w>> \o free)[1] = w
          /\ \A j \in DOMAIN free : (<<w>> \o free)[j + 1] = free[j]
          /\ \A j \in DOMAIN (<<w>> \o free) : j # 1 => (<<w>> \o free)[j] = free[j - 1] /\ j - 1 \in DOMAIN free
      BY <3>1
    <3>3. DOMAIN free' = 1 .. Len(free) + 1
      BY <2>1, <2>6, <3>2
    <3>4. \A j \in DOMAIN free : j + 1 \in DOMAIN free'
      BY <2>1, <3>3
    <3>5. 1 \in DOMAIN free'
      BY <2>1, <3>3
    <3>6. free'[1] = w /\ \A j \in DOMAIN free : free'[j + 1] = free[j]
      BY <2>6, <3>2
    <3>7. \A j \in DOMAIN free' : j # 1 => free'[j] = free[j - 1] /\ j - 1 \in DOMAIN free
      BY <2>6, <3>2
    <3>8. Holds(free') \subseteq Holds(free) \cup {w}
      BY <3>6, <3>7 DEF Holds
    <3>9. w \in Holds(free') /\ \A j \in DOMAIN free : free[j] \in Holds(free')
      BY <3>4, <3>5, <3>6 DEF Holds
    <3>10. Holds(free) \subseteq Holds(free')
      BY <3>9 DEF Holds
    <3> QED BY <3>6, <3>8, <3>9, <3>10
  <2>7. free[i] \in Holds(free)
    BY DEF Holds
  <2> QED BY <2>4, <2>5, <2>6, <2>7
<1>4. (Clean => Whole) /\ [Next]_vars =>
         [Clean /\ work.op = "free" /\ work.todo # << >> /\ Len(free') = Len(free) + 1
            => \A i \in DOMAIN free : free[i] # free'[1]]_vars
  BY <1>3
<1> QED BY <1>2, <1>4, PTL DEF Spec, PullsUnused

\* For every table at boot, memory map and list of regular calls no frame is lost and none
\* has two uses, the kernel half is every table's, and no call of map or unmap panics.
THEOREM TablesAlwaysSound ==
    ASSUME Regular
    PROVE  Spec => []TablesSound
<1>1. Spec => [](Clean => Full)
  BY SpecFull
<1>2. (Clean => Full) => TablesSound
  <2> SUFFICES ASSUME Full PROVE TypeOK /\ OneHolder /\ KernelHalfShared /\ NeverPanics
    BY DEF TablesSound
  <2>1. Whole /\ TypeOK /\ ~panicked
    BY DEF Full, Whole, Inv
  <2>2. KernelHalfShared
    BY <2>1, WholeShares
  <2>3. OneHolder
    BY FullOneHolder
  <2> QED BY <2>1, <2>2, <2>3 DEF NeverPanics
<1> QED BY <1>1, <1>2, PTL

=============================================================================
