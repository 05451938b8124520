------------------------------ MODULE HeapProofs ------------------------------
(***************************************************************************)
(* Proofs about Heap, for every heap, every node size and every set of     *)
(* layouts: blocks and free regions never overlap (HeapSound), a freed     *)
(* block is found again (FreedComesBack), no byte is lost but to alignment *)
(* (LosesAlignmentOnly), and the list implements HeapBlocks.               *)
(***************************************************************************)
EXTENDS HeapRefinement, FiniteSetTheorems, NaturalsInduction, WellFoundedInduction, TLAPS

-----------------------------------------------------------------------------
(* Alignment *)

\* What align_up computes, whatever the alignment.
LEMMA AlignUp ==
    ASSUME NEW a \in Nat, NEW n \in Nat \ {0}
    PROVE  /\ align_up(a, n) \in Nat
           /\ a <= align_up(a, n)
           /\ align_up(a, n) < a + n
           /\ align_up(a, n) % n = 0
<1> DEFINE q == (a + n - 1) \div n
           r == (a + n - 1) % n
<1>1. q \in Int /\ r \in 0 .. n - 1 /\ a + n - 1 = n * q + r
  OBVIOUS
<1>2. align_up(a, n) = n * q
  BY <1>1 DEF align_up
<1>3. (n * q) % n = 0 /\ n * q \in Int
  BY <1>1
<1> QED
  BY <1>1, <1>2, <1>3

\* An aligned address stays where it is.
LEMMA AlignUpAligned ==
    ASSUME NEW a \in Nat, NEW n \in Nat \ {0}, a % n = 0
    PROVE  align_up(a, n) = a
<1> DEFINE u == align_up(a, n)
<1>1. u \in Nat /\ a <= u /\ u < a + n /\ u % n = 0
  BY AlignUp
<1>2. /\ a \div n \in Int /\ a = n * (a \div n)
      /\ u \div n \in Int /\ u = n * (u \div n)
  <2> HIDE DEF u
  <2> QED BY <1>1
<1>3. u - a = n * ((u \div n) - (a \div n))
  <2> HIDE DEF u
  <2> QED BY <1>2
<1>4. (u \div n) - (a \div n) = 0
  <2> DEFINE d == (u \div n) - (a \div n)
  <2>1. d \in Int /\ n * d >= 0 /\ n * d < n
    <3> HIDE DEF u
    <3> QED BY <1>1, <1>2, <1>3
  <2>2. CASE d >= 1
    <3>1. n * d >= n
      <4> HIDE DEF d
      <4> QED BY <2>1, <2>2
    <3> QED BY <2>1, <3>1
  <2>3. CASE d <= 0 - 1
    <3>1. n * d <= 0 - n
      <4> HIDE DEF d
      <4> QED BY <2>1, <2>3
    <3> QED BY <2>1, <3>1
  <2> HIDE DEF d
  <2>4. d = 0
    BY <2>1, <2>2, <2>3
  <2> QED BY <2>4 DEF d
<1> QED
  BY <1>1, <1>3, <1>4

\* A product of integers is an integer, and has its sign.
LEMMA ProductOf ==
    \A a \in Int, n \in Nat \ {0} : a % n = 0 <=> \E k \in Int : a = n * k
<1> SUFFICES ASSUME NEW a \in Int, NEW n \in Nat \ {0}
             PROVE  a % n = 0 <=> \E k \in Int : a = n * k
  OBVIOUS
<1>1. ASSUME a % n = 0 PROVE \E k \in Int : a = n * k
  <2>1. a \div n \in Int /\ a = n * (a \div n)
    BY <1>1
  <2> QED BY <2>1
<1>2. ASSUME NEW k \in Int, a = n * k PROVE a % n = 0
  BY <1>2
<1> QED
  BY <1>1, <1>2

\* Products associate, which the solver does not find by itself.
LEMMA Associative == \A a, b, c \in Int : (a * b) * c = a * (b * c)
  OBVIOUS

\* Alignments carry over from a multiple, and to sums and differences.
LEMMA MultipleOf ==
    ASSUME NEW a \in Nat, NEW n \in Nat \ {0}, NEW m \in Nat \ {0},
           a % n = 0, n % m = 0
    PROVE  a % m = 0
<1>0. a \in Int
  OBVIOUS
<1>1. PICK p \in Int : a = n * p
  BY <1>0, ProductOf, Zenon
<1>2. PICK q \in Int : n = m * q
  BY ProductOf
<1>3. a = m * (q * p) /\ q * p \in Int
  BY <1>1, <1>2, Associative
<1> QED
  BY <1>3, ProductOf

\* Multiples add up.
LEMMA SumOf ==
    ASSUME NEW a \in Int, NEW b \in Int, NEW m \in Nat \ {0}, a % m = 0, b % m = 0
    PROVE  (a + b) % m = 0 /\ (a - b) % m = 0
<1>1. PICK p \in Int : a = m * p
  BY ProductOf
<1>2. PICK q \in Int : b = m * q
  BY ProductOf
<1>3. /\ a + b = m * (p + q)
      /\ a - b = m * (p - q)
  BY <1>1, <1>2
<1>4. /\ a + b \in Int /\ p + q \in Int
      /\ a - b \in Int /\ p - q \in Int
  OBVIOUS
<1>5. (a + b) % m = 0
  BY <1>3, <1>4, ProductOf
<1>6. (a - b) % m = 0
  BY <1>3, <1>4, ProductOf
<1> QED
  BY <1>5, <1>6


-----------------------------------------------------------------------------
(* Layouts and regions *)

\* What size_align makes of a layout: enough for it and for a node.
LEMMA LayoutFits ==
    ASSUME NEW l \in Layouts
    PROVE  /\ AlignOf(l) \in Nat \ {0} /\ SizeOf(l) \in Nat
           /\ AlignOf(l) % NodeAlign = 0 /\ SizeOf(l) % NodeAlign = 0
           /\ AlignOf(l) % l.align = 0
           /\ SizeOf(l) >= l.size /\ SizeOf(l) >= NodeSize
           /\ NodeSize \in Nat \ {0} /\ NodeAlign \in Nat \ {0} /\ l.size \in Nat
<1>1. /\ l.size \in Nat /\ l.align \in Nat \ {0}
      /\ NodeAlign \in Nat \ {0} /\ NodeSize \in Nat \ {0} /\ NodeSize % NodeAlign = 0
      /\ (l.align % NodeAlign = 0) \/ (NodeAlign % l.align = 0)
  BY HeapAssumption
<1>2. AlignOf(l) \in Nat \ {0}
  BY <1>1 DEF AlignOf
<1>3. AlignOf(l) % NodeAlign = 0 /\ AlignOf(l) % l.align = 0
  <2>1. NodeAlign % NodeAlign = 0 /\ l.align % l.align = 0
    BY <1>1
  <2>2. CASE l.align < NodeAlign
    <3>1. l.align % NodeAlign = l.align
      BY <1>1, <2>2
    <3> QED BY <1>1, <2>1, <2>2, <3>1 DEF AlignOf
  <2>3. CASE l.align >= NodeAlign
    <3>1. (l.align % NodeAlign = 0) \/ l.align = NodeAlign
      <4>1. ASSUME NodeAlign % l.align = 0 PROVE l.align = NodeAlign
        <5>1. CASE l.align > NodeAlign
          <6>1. NodeAlign % l.align = NodeAlign
            BY <1>1, <5>1
          <6> QED BY <1>1, <4>1, <6>1
        <5> QED BY <1>1, <2>3, <5>1
      <4> QED BY <1>1, <4>1
    <3> QED BY <1>1, <2>1, <2>3, <3>1 DEF AlignOf
  <2> QED BY <1>1, <2>2, <2>3
<1> DEFINE padded == align_up(l.size, AlignOf(l))
<1>4. padded \in Nat /\ padded >= l.size /\ padded % AlignOf(l) = 0
  BY <1>1, <1>2, AlignUp
<1>5. padded % NodeAlign = 0
  <2> HIDE DEF padded
  <2> QED BY <1>1, <1>2, <1>3, <1>4, MultipleOf
<1>6. SizeOf(l) = IF padded < NodeSize THEN NodeSize ELSE padded
  BY DEF SizeOf
<1> HIDE DEF padded
<1> QED
  BY <1>1, <1>2, <1>3, <1>4, <1>5, <1>6

RegionSet == [addr : Nat, size : Nat]
BlockSet == [addr : Nat, layout : Layouts]
BlockOf(b) == Region(b.addr, SizeOf(b.layout))

RegionSound(r) == r \in RegionSet /\ r.addr % NodeAlign = 0 /\ r.size >= NodeSize /\ Inside(r)
BlockSound(b) == b \in BlockSet /\ b.addr % AlignOf(b.layout) = 0 /\ Inside(BlockOf(b))

\* A list of free regions and a set of blocks that can stand side by side.
Sound(list, blocks) ==
    /\ list \in Seq(RegionSet)
    /\ \A i \in DOMAIN list : RegionSound(list[i])
    /\ \A i, j \in DOMAIN list : i # j => Apart(list[i], list[j])
    /\ \A b \in blocks : BlockSound(b)
    /\ \A b, c \in blocks : b # c => Apart(BlockOf(b), BlockOf(c))
    /\ \A b \in blocks, i \in DOMAIN list : Apart(BlockOf(b), list[i])

\* What dealloc makes of a block is a region that can hold a node.
LEMMA BlockRegion ==
    ASSUME NEW b \in BlockSet
    PROVE  /\ BlockOf(b) \in RegionSet
           /\ BlockOf(b).addr = b.addr /\ BlockOf(b).size = SizeOf(b.layout)
           /\ BlockOf(b).size >= NodeSize
           /\ end_addr(BlockOf(b)) = b.addr + SizeOf(b.layout)
<1>1. b.addr \in Nat /\ b.layout \in Layouts
  BY DEF BlockSet
<1>2. SizeOf(b.layout) \in Nat /\ SizeOf(b.layout) >= NodeSize
  BY <1>1, LayoutFits
<1> QED
  BY <1>1, <1>2 DEF BlockOf, Region, RegionSet, end_addr

\* Two regions are apart in either order.
LEMMA ApartSymmetric ==
    \A r, s : Apart(r, s) <=> Apart(s, r)
  BY DEF Apart

\* What is apart from a region is apart from every part of it.
LEMMA ApartFromPart ==
    ASSUME NEW r \in RegionSet, NEW part \in RegionSet, NEW other \in RegionSet,
           r.addr <= part.addr, end_addr(part) <= end_addr(r), Apart(other, r)
    PROVE  Apart(other, part)
  BY DEF Apart, RegionSet, end_addr

-----------------------------------------------------------------------------
(* Removing from the list, adding to it *)

\* The place in the list before an entry was removed.
Kept(i, j) == IF j < i THEN j ELSE j + 1

\* What is left of the list is its other entries, each once.
LEMMA RemoveAtKeeps ==
    ASSUME NEW S, NEW s \in Seq(S), NEW i \in DOMAIN s
    PROVE  /\ RemoveAt(s, i) \in Seq(S)
           /\ Len(RemoveAt(s, i)) = Len(s) - 1
           /\ \A j \in DOMAIN RemoveAt(s, i) :
                 /\ Kept(i, j) \in DOMAIN s \ {i}
                 /\ RemoveAt(s, i)[j] = s[Kept(i, j)]
           /\ \A j, k \in DOMAIN RemoveAt(s, i) : Kept(i, j) = Kept(i, k) => j = k
<1> DEFINE front == SubSeq(s, 1, i - 1)
           back == SubSeq(s, i + 1, Len(s))
<1>1. i \in 1 .. Len(s) /\ Len(s) \in Nat
  OBVIOUS
<1>2. /\ front \in Seq(S) /\ Len(front) = i - 1
      /\ \A j \in 1 .. i - 1 : front[j] = s[j]
  BY <1>1
<1>3. /\ back \in Seq(S) /\ Len(back) = Len(s) - i
      /\ \A j \in 1 .. Len(s) - i : back[j] = s[i + j]
  BY <1>1
<1>4. RemoveAt(s, i) = front \o back
  BY DEF RemoveAt
<1> HIDE DEF front, back
<1>5. /\ front \o back \in Seq(S)
      /\ Len(front \o back) = Len(s) - 1
      /\ \A j \in 1 .. Len(s) - 1 :
            (front \o back)[j] = IF j < i THEN front[j] ELSE back[j - (i - 1)]
  BY <1>1, <1>2, <1>3
<1>6. \A j \in 1 .. Len(s) - 1 : (front \o back)[j] = s[Kept(i, j)]
  <2> TAKE j \in 1 .. Len(s) - 1
  <2>1. CASE j < i
    BY <1>1, <1>2, <1>5, <2>1 DEF Kept
  <2>2. CASE j >= i
    <3>1. j - (i - 1) \in 1 .. Len(s) - i /\ i + (j - (i - 1)) = j + 1
      BY <1>1, <2>2
    <3> QED BY <1>1, <1>3, <1>5, <2>2, <3>1 DEF Kept
  <2>3. j < i \/ j >= i
    BY <1>1
  <2> QED BY <2>1, <2>2, <2>3, Zenon
<1>7. DOMAIN (front \o back) = 1 .. Len(s) - 1 /\ DOMAIN s = 1 .. Len(s)
  BY <1>1, <1>5
<1>8. \A j \in 1 .. Len(s) - 1 : Kept(i, j) \in 1 .. Len(s) /\ Kept(i, j) # i
  BY <1>1 DEF Kept
<1>9. \A j, k \in 1 .. Len(s) - 1 : Kept(i, j) = Kept(i, k) => j = k
  BY <1>1 DEF Kept
<1>10. \A j \in 1 .. Len(s) - 1 : Kept(i, j) \in DOMAIN s \ {i}
  BY <1>7, <1>8
<1> QED
  <2> HIDE DEF Kept
  <2> QED BY <1>4, <1>5, <1>6, <1>7, <1>9, <1>10, Zenon

\* find_region takes one region out of the list: the others stay apart.
LEMMA RemoveRegion ==
    ASSUME NEW list, NEW blocks, Sound(list, blocks), NEW i \in DOMAIN list
    PROVE  /\ Sound(RemoveAt(list, i), blocks)
           /\ \A j \in DOMAIN RemoveAt(list, i) : Apart(RemoveAt(list, i)[j], list[i])
<1>1. list \in Seq(RegionSet)
  BY DEF Sound
<1> DEFINE left == RemoveAt(list, i)
<1>2. /\ left \in Seq(RegionSet)
      /\ \A j \in DOMAIN left : Kept(i, j) \in DOMAIN list \ {i} /\ left[j] = list[Kept(i, j)]
      /\ \A j, k \in DOMAIN left : Kept(i, j) = Kept(i, k) => j = k
  BY <1>1, RemoveAtKeeps
<1> HIDE DEF left
<1>3. \A j \in DOMAIN left : RegionSound(left[j]) /\ Apart(left[j], list[i])
  BY <1>2 DEF Sound
<1>4. \A j, k \in DOMAIN left : j # k => Apart(left[j], left[k])
  BY <1>2 DEF Sound
<1>5. \A b \in blocks, j \in DOMAIN left : Apart(BlockOf(b), left[j])
  BY <1>2 DEF Sound
<1>6. Sound(left, blocks)
  BY <1>2, <1>3, <1>4, <1>5 DEF Sound
<1> QED
  BY <1>3, <1>6 DEF left

\* What add_free_region makes of the list: the new entry, then the others.
LEMMA PrependRegion ==
    ASSUME NEW S, NEW s \in Seq(S), NEW x \in S
    PROVE  /\ <<x>> \o s \in Seq(S)
           /\ Len(<<x>> \o s) = Len(s) + 1
           /\ (<<x>> \o s)[1] = x
           /\ \A j \in DOMAIN (<<x>> \o s) \ {1} : j - 1 \in DOMAIN s /\ (<<x>> \o s)[j] = s[j - 1]
  OBVIOUS

\* add_free_region: a region apart from all others joins the list.
LEMMA AddRegion ==
    ASSUME NEW list, NEW blocks, Sound(list, blocks), NEW r, RegionSound(r),
           \A i \in DOMAIN list : Apart(list[i], r),
           \A b \in blocks : Apart(BlockOf(b), r)
    PROVE  Sound(add_free_region(list, r), blocks)
<1> DEFINE more == <<r>> \o list
<1>1. list \in Seq(RegionSet) /\ r \in RegionSet
  BY DEF Sound, RegionSound
<1>2. /\ more \in Seq(RegionSet) /\ more[1] = r
      /\ \A j \in DOMAIN more \ {1} : j - 1 \in DOMAIN list /\ more[j] = list[j - 1]
      /\ DOMAIN more \subseteq Nat
  BY <1>1, PrependRegion
<1> HIDE DEF more
<1>3. \A j \in DOMAIN more : RegionSound(more[j])
  BY <1>2 DEF Sound
<1>4. \A j, k \in DOMAIN more : j # k => Apart(more[j], more[k])
  <2> TAKE j, k \in DOMAIN more
  <2> HAVE j # k
  <2>1. CASE j = 1
    BY <1>2, <2>1, ApartSymmetric
  <2>2. CASE k = 1
    BY <1>2, <2>2
  <2>3. CASE j # 1 /\ k # 1
    <3>1. j - 1 # k - 1 /\ j - 1 \in DOMAIN list /\ k - 1 \in DOMAIN list
      BY <1>2, <2>3
    <3> QED BY <1>2, <2>3, <3>1 DEF Sound
  <2> QED BY <2>1, <2>2, <2>3
<1>5. \A b \in blocks, j \in DOMAIN more : Apart(BlockOf(b), more[j])
  BY <1>2 DEF Sound
<1> QED
  BY <1>2, <1>3, <1>4, <1>5 DEF Sound, more, add_free_region

\* alloc hands out a block that is apart from everything else.
LEMMA AddBlock ==
    ASSUME NEW list, NEW blocks, Sound(list, blocks), NEW b, BlockSound(b),
           \A i \in DOMAIN list : Apart(list[i], BlockOf(b)),
           \A c \in blocks : Apart(BlockOf(c), BlockOf(b))
    PROVE  Sound(list, blocks \cup {b})
  BY ApartSymmetric DEF Sound

\* dealloc: the block that is given back leaves the rest as it is.
LEMMA RemoveBlock ==
    ASSUME NEW list, NEW blocks, Sound(list, blocks), NEW b \in blocks
    PROVE  Sound(list, blocks \ {b})
  BY DEF Sound

-----------------------------------------------------------------------------
(* The operations *)

\* alloc_from_region: the block and the rest are parts of the region, apart
\* from each other, and the rest can hold a node.
LEMMA RegionDivides ==
    ASSUME NEW r, RegionSound(r), NEW l \in Layouts, Fits(r, l)
    PROVE  LET b == [addr |-> align_up(r.addr, AlignOf(l)), layout |-> l]
               end == end_addr(BlockOf(b))
               rest == Region(end, end_addr(r) - end)
           IN  /\ BlockSound(b) /\ r.addr <= b.addr /\ end <= end_addr(r)
               /\ \/ Rest(r, l) = << >>
                  \/ /\ Rest(r, l) = <<rest>>
                     /\ RegionSound(rest) /\ r.addr <= rest.addr /\ end_addr(rest) = end_addr(r)
                     /\ Apart(BlockOf(b), rest)
<1> DEFINE a == align_up(r.addr, AlignOf(l))
           b == [addr |-> a, layout |-> l]
           end == end_addr(BlockOf(b))
           rest == Region(end, end_addr(r) - end)
<1>1. /\ AlignOf(l) \in Nat \ {0} /\ SizeOf(l) \in Nat
      /\ AlignOf(l) % NodeAlign = 0 /\ SizeOf(l) % NodeAlign = 0
      /\ SizeOf(l) >= NodeSize /\ NodeSize \in Nat \ {0} /\ NodeAlign \in Nat \ {0}
  BY LayoutFits
<1>2. /\ r.addr \in Nat /\ r.size \in Nat /\ end_addr(r) = r.addr + r.size
      /\ r.addr % NodeAlign = 0 /\ HeapStart <= r.addr /\ end_addr(r) <= HeapStart + HeapSize
  BY DEF RegionSound, RegionSet, Inside, end_addr
<1>3. a \in Nat /\ r.addr <= a /\ a % AlignOf(l) = 0
  BY <1>1, <1>2, AlignUp
<1> HIDE DEF a
<1>4. b \in BlockSet
  BY <1>3 DEF BlockSet
<1>5. /\ BlockOf(b) \in RegionSet /\ BlockOf(b).addr = a /\ end = a + SizeOf(l)
  BY <1>4, BlockRegion
<1>6. end <= end_addr(r) /\ (end = end_addr(r) \/ end_addr(r) - end >= NodeSize)
  BY <1>5 DEF Fits, a
<1>7. BlockSound(b)
  <2>1. b.addr = a /\ b.layout = l
    OBVIOUS
  <2>2. HeapStart <= BlockOf(b).addr
    BY <1>2, <1>3, <1>5, HeapAssumption
  <2>3. end <= HeapStart + HeapSize
    BY <1>1, <1>2, <1>3, <1>5, <1>6, HeapAssumption
  <2> HIDE DEF b
  <2> QED BY <1>3, <1>4, <2>1, <2>2, <2>3 DEF BlockSound, Inside
<1>8. Rest(r, l) = IF end < end_addr(r) THEN <<rest>> ELSE << >>
  BY <1>5 DEF Rest, a
<1>9. ASSUME end < end_addr(r)
      PROVE  /\ RegionSound(rest) /\ r.addr <= rest.addr /\ end_addr(rest) = end_addr(r)
             /\ Apart(BlockOf(b), rest)
  <2>1. end \in Nat /\ end_addr(r) - end \in Nat /\ r.addr <= end
    BY <1>1, <1>2, <1>3, <1>5, <1>9
  <2>2. end % NodeAlign = 0
    <3>1. a % NodeAlign = 0
      BY <1>1, <1>3, MultipleOf
    <3>2. a \in Int /\ SizeOf(l) \in Int
      BY <1>1, <1>3
    <3>3. (a + SizeOf(l)) % NodeAlign = 0
      BY <1>1, <3>1, <3>2, SumOf
    <3> QED BY <1>5, <3>3
  <2>3. /\ rest \in RegionSet /\ rest.addr = end /\ rest.size = end_addr(r) - end
        /\ end_addr(rest) = end_addr(r)
    BY <1>2, <2>1 DEF Region, RegionSet, end_addr
  <2>4. rest.size >= NodeSize
    BY <1>1, <1>6, <1>9, <2>1, <2>3
  <2>5. Inside(rest)
    BY <1>2, <2>1, <2>3, HeapAssumption DEF Inside
  <2> QED
    BY <2>1, <2>2, <2>3, <2>4, <2>5 DEF RegionSound, Apart
<1> QED
  BY <1>3, <1>5, <1>6, <1>7, <1>8, <1>9 DEF a

\* init: the whole heap is one free region.
LEMMA InitSound == Init => Sound(free, live)
<1> SUFFICES ASSUME Init PROVE Sound(free, live)
  OBVIOUS
<1> DEFINE heap == Region(HeapStart, HeapSize)
<1>1. RegionSound(heap)
  BY HeapAssumption DEF RegionSound, RegionSet, Region, Inside, end_addr
<1>2. Sound(<< >>, {})
  BY DEF Sound
<1>3. Sound(add_free_region(<< >>, heap), {})
  <2> HIDE DEF heap
  <2> QED BY <1>1, <1>2, AddRegion
<1> QED
  BY <1>3 DEF Init

\* alloc: a region leaves the list, a part of it comes back, another is the block.
LEMMA AllocSound ==
    ASSUME Sound(free, live), NEW l \in Layouts, Alloc(l)
    PROVE  /\ Sound(free, live)'
           /\ \E b : /\ BlockSound(b) /\ b.layout = l /\ live' = live \cup {b}
                    /\ \A c \in live : Apart(BlockOf(c), BlockOf(b))
<1>1. PICK i \in Found(l) :
        /\ free' = Rest(free[i], l) \o RemoveAt(free, i)
        /\ live' = live \cup {[addr |-> align_up(free[i].addr, AlignOf(l)), layout |-> l]}
  BY DEF Alloc
<1> DEFINE r == free[i]
           left == RemoveAt(free, i)
           b == [addr |-> align_up(r.addr, AlignOf(l)), layout |-> l]
           end == end_addr(BlockOf(b))
           rest == Region(end, end_addr(r) - end)
<1>2. i \in DOMAIN free /\ Fits(r, l)
  BY DEF Found
<1>3. RegionSound(r) /\ r \in RegionSet
  BY <1>2 DEF Sound, RegionSound
<1>4. /\ BlockSound(b) /\ r.addr <= b.addr /\ end <= end_addr(r)
      /\ \/ Rest(r, l) = << >>
         \/ /\ Rest(r, l) = <<rest>>
            /\ RegionSound(rest) /\ r.addr <= rest.addr /\ end_addr(rest) = end_addr(r)
            /\ Apart(BlockOf(b), rest)
  BY <1>2, <1>3, RegionDivides
<1>5. /\ Sound(left, live)
      /\ \A j \in DOMAIN left : Apart(left[j], r) /\ left[j] \in RegionSet
      /\ \A c \in live : Apart(BlockOf(c), r) /\ BlockOf(c) \in RegionSet
  <2>1. Sound(left, live) /\ \A j \in DOMAIN left : Apart(left[j], r)
    BY <1>2, RemoveRegion
  <2>2. \A j \in DOMAIN left : left[j] \in RegionSet
    BY <2>1 DEF Sound, RegionSound
  <2>3. \A c \in live : Apart(BlockOf(c), r)
    BY <1>2 DEF Sound
  <2>4. \A c \in live : BlockOf(c) \in RegionSet
    BY BlockRegion DEF Sound, BlockSound
  <2> QED BY <2>1, <2>2, <2>3, <2>4
<1>6. BlockOf(b) \in RegionSet /\ BlockOf(b).addr = b.addr
  BY <1>4, BlockRegion DEF BlockSound
<1>7. live' = live \cup {b} /\ free' = Rest(r, l) \o left
  BY <1>1
<1>8. b.layout = l
  OBVIOUS
<1> HIDE DEF r, left, b, rest
<1>9. \A c \in live : Apart(BlockOf(c), BlockOf(b))
  BY <1>3, <1>4, <1>5, <1>6, ApartFromPart
<1>10. Sound(left, live \cup {b})
  <2>1. \A j \in DOMAIN left : Apart(left[j], BlockOf(b))
    BY <1>3, <1>4, <1>5, <1>6, ApartFromPart
  <2> QED BY <1>4, <1>5, <1>9, <2>1, AddBlock
<1>11. ASSUME Rest(r, l) = << >>
       PROVE  Sound(free, live)'
  <2>1. left \in Seq(RegionSet)
    BY <1>5 DEF Sound
  <2>2. << >> \o left = left
    BY <2>1
  <2> QED BY <1>7, <1>10, <1>11, <2>2
<1>12. ASSUME /\ Rest(r, l) = <<rest>>
              /\ RegionSound(rest) /\ r.addr <= rest.addr /\ end_addr(rest) = end_addr(r)
              /\ Apart(BlockOf(b), rest)
       PROVE  Sound(free, live)'
  <2>1. rest \in RegionSet /\ end_addr(rest) <= end_addr(r)
    BY <1>3, <1>12 DEF RegionSound, RegionSet, end_addr
  <2>2. \A j \in DOMAIN left : Apart(left[j], rest)
    BY <1>3, <1>5, <1>12, <2>1, ApartFromPart
  <2>3. \A c \in live \cup {b} : Apart(BlockOf(c), rest)
    BY <1>3, <1>5, <1>12, <2>1, ApartFromPart
  <2>4. Sound(add_free_region(left, rest), live \cup {b})
    BY <1>10, <1>12, <2>2, <2>3, AddRegion
  <2> QED BY <1>7, <1>12, <2>4 DEF add_free_region
<1>13. Sound(free, live)'
  BY <1>4, <1>11, <1>12
<1> QED
  BY <1>4, <1>7, <1>8, <1>9, <1>13

\* dealloc: the block's bytes are a region that nobody else has.
LEMMA DeallocSound ==
    ASSUME Sound(free, live), NEW b \in live, Dealloc(b)
    PROVE  Sound(free, live)'
<1> DEFINE r == BlockOf(b)
<1>1. BlockSound(b) /\ b \in BlockSet /\ b.layout \in Layouts
  BY DEF Sound, BlockSound, BlockSet
<1>2. RegionSound(r)
  <2>1. /\ r \in RegionSet /\ r.addr = b.addr /\ r.size >= NodeSize
    BY <1>1, BlockRegion
  <2>2. b.addr \in Nat /\ b.addr % AlignOf(b.layout) = 0 /\ Inside(r)
    BY <1>1 DEF BlockSound, BlockSet
  <2>3. b.addr % NodeAlign = 0
    BY <1>1, <2>2, LayoutFits, MultipleOf
  <2> QED BY <2>1, <2>2, <2>3 DEF RegionSound
<1>3. Sound(free, live \ {b})
  BY RemoveBlock
<1>4. \A i \in DOMAIN free : Apart(free[i], r)
  BY ApartSymmetric DEF Sound
<1>5. \A c \in live \ {b} : Apart(BlockOf(c), r)
  BY DEF Sound
<1>6. Sound(add_free_region(free, r), live \ {b})
  <2> HIDE DEF r
  <2> QED BY <1>2, <1>3, <1>4, <1>5, AddRegion
<1> QED
  BY <1>6 DEF Dealloc, BlockOf

-----------------------------------------------------------------------------
(* The invariant *)

\* A block just freed is the first region of the list, as it was handed out.
FreedFirst ==
    freed # Null => /\ BlockSound(freed)
                    /\ free # << >> /\ free[1] = BlockOf(freed)

IInv == Sound(free, live) /\ FreedFirst

\* The initial states satisfy the inductive invariant.
LEMMA IInvInit == Init => IInv
  BY InitSound DEF Init, IInv, FreedFirst

\* alloc and dealloc preserve the inductive invariant.
LEMMA IInvStep == IInv /\ [Next]_vars => IInv'
<1> SUFFICES ASSUME IInv, [Next]_vars PROVE IInv'
  OBVIOUS
<1>1. ASSUME NEW l \in Layouts, Alloc(l) PROVE IInv'
  <2>1. Sound(free, live)'
    BY <1>1, AllocSound DEF IInv
  <2>2. freed' = Null
    BY <1>1 DEF Alloc
  <2> QED BY <2>1, <2>2 DEF IInv, FreedFirst
<1>2. ASSUME NEW l \in Layouts, AllocFails(l) PROVE IInv'
  BY <1>2 DEF AllocFails, IInv, FreedFirst
<1>3. ASSUME NEW b \in live, Dealloc(b) PROVE IInv'
  <2>1. Sound(free, live)'
    BY <1>3, DeallocSound DEF IInv
  <2>2. BlockSound(b) /\ free \in Seq(RegionSet)
    BY DEF IInv, Sound
  <2>3. /\ freed' = b
        /\ free' = <<BlockOf(b)>> \o free
    BY <1>3 DEF Dealloc, add_free_region, BlockOf
  <2>4. BlockOf(b) \in RegionSet
    BY <2>2, BlockRegion DEF BlockSound
  <2>5. free'[1] = BlockOf(b) /\ free' # << >>
    <3> HIDE DEF BlockOf
    <3> QED BY <2>2, <2>3, <2>4, PrependRegion
  <2> QED BY <2>1, <2>2, <2>3, <2>5 DEF IInv, FreedFirst
<1>4. CASE UNCHANGED vars
  BY <1>4 DEF vars, IInv, FreedFirst
<1> QED
  BY <1>1, <1>2, <1>3, <1>4 DEF Next

\* IInv is HeapSound, region by region and block by block.
LEMMA IInvImpliesHeapSound == IInv => HeapSound
<1> SUFFICES ASSUME IInv PROVE HeapSound
  OBVIOUS
<1>1. TypeOK
  BY DEF IInv, Sound, FreedFirst, BlockSound, BlockSet, RegionSet, TypeOK
<1>2. NodesFit
  BY DEF IInv, Sound, RegionSound, NodesFit, Regions
<1>3. /\ \A b \in live : BlockSound(b) /\ BlockOf(b) \in RegionSet
      /\ \A b \in live : BlockOf(b).addr = b.addr /\ BlockOf(b).size >= NodeSize
  BY BlockRegion DEF IInv, Sound, BlockSound
<1>4. NoOverlap
  <2>1. \A r \in Blocks : \E b \in live : r = BlockOf(b)
    BY DEF Blocks, BlockOf
  <2>2. \A s \in Regions : \E i \in DOMAIN free : s = free[i]
    BY DEF Regions
  <2>3. \A r \in Blocks \cup Regions : Inside(r)
    BY <2>1, <2>2 DEF IInv, Sound, BlockSound, RegionSound
  <2>4. \A r \in Blocks, s \in Regions : Apart(r, s)
    BY <2>1, <2>2 DEF IInv, Sound
  <2>5. \A r, s \in Blocks : r # s => Apart(r, s)
    BY <2>1 DEF IInv, Sound
  <2>6. \A b, c \in live : b.addr = c.addr => b = c
    <3> SUFFICES ASSUME NEW b \in live, NEW c \in live, b.addr = c.addr, b # c PROVE FALSE
      OBVIOUS
    <3>1. Apart(BlockOf(b), BlockOf(c))
      BY DEF IInv, Sound
    <3> QED BY <1>3, <3>1, HeapAssumption DEF Apart, end_addr, RegionSet
  <2>7. \A i, j \in DOMAIN free : i # j => Apart(free[i], free[j])
    BY DEF IInv, Sound
  <2> QED BY <2>3, <2>4, <2>5, <2>6, <2>7 DEF NoOverlap
<1> QED
  BY <1>1, <1>2, <1>4 DEF HeapSound

\* The inductive invariant: every region and every block is a multiple of
\* the node's alignment and apart from the others, and a block just freed is
\* the first of the list.
THEOREM IInvHolds == Spec => []IInv
  BY IInvInit, IInvStep, PTL DEF Spec

\* Whatever is allocated and freed, in whatever order: no byte is in two places
\* and every free region can hold its node, as alloc and dealloc assume.
THEOREM HeapAlwaysSound == Spec => []HeapSound
  BY IInvHolds, IInvImpliesHeapSound, PTL

\* alloc finds a block that dealloc has just listed, and nothing before it.
THEOREM FreedAlwaysComesBack == Spec => FreedComesBack
<1> DEFINE A == freed # Null =>
                  /\ ~ AllocFails(freed.layout)
                  /\ Alloc(freed.layout) => live' = live \cup {freed}
<1>1. ASSUME IInv PROVE A
  <2> SUFFICES ASSUME freed # Null PROVE A
    OBVIOUS
  <2> DEFINE l == freed.layout
  <2>1. /\ BlockSound(freed) /\ freed \in BlockSet /\ l \in Layouts /\ freed.addr \in Nat
        /\ free # << >> /\ free[1] = BlockOf(freed) /\ free \in Seq(RegionSet)
    BY <1>1 DEF IInv, Sound, FreedFirst, BlockSound, BlockSet
  <2>2. /\ free[1].addr = freed.addr
        /\ end_addr(free[1]) = freed.addr + SizeOf(l)
    BY <2>1, BlockRegion
  <2>3. align_up(freed.addr, AlignOf(l)) = freed.addr
    BY <2>1, AlignUpAligned, LayoutFits DEF BlockSound
  <2>4. SizeOf(l) \in Nat
    BY <2>1, LayoutFits
  <2>5. Fits(free[1], l)
    BY <2>1, <2>2, <2>3, <2>4 DEF Fits
  <2>6. 1 \in DOMAIN free /\ DOMAIN free \subseteq Nat \ {0}
    BY <2>1
  <2>7. Found(l) = {1}
    BY <2>5, <2>6 DEF Found
  <2>8. ~ AllocFails(l)
    BY <2>7 DEF AllocFails
  <2>9. ASSUME Alloc(l) PROVE live' = live \cup {freed}
    <3>1. live' = live \cup {[addr |-> align_up(free[1].addr, AlignOf(l)), layout |-> l]}
      BY <2>7, <2>9 DEF Alloc
    <3>2. freed = [addr |-> freed.addr, layout |-> l]
      BY <2>1 DEF BlockSet
    <3> QED BY <2>2, <2>3, <3>1, <3>2
  <2> QED BY <2>8, <2>9
<1>2. IInv /\ [Next]_vars => [A]_vars
  BY <1>1
<1> QED
  BY <1>2, IInvHolds, PTL DEF Spec, FreedComesBack

-----------------------------------------------------------------------------
(* The refinement *)

\* Two blocks whose regions are apart share no byte that their callers use.
LEMMA BlocksApart ==
    ASSUME NEW b, NEW c, BlockSound(b), BlockSound(c), Apart(BlockOf(c), BlockOf(b))
    PROVE  /\ b # c
           /\ Promise!Ends(b) <= c.addr \/ Promise!Ends(c) <= b.addr
<1>1. /\ b \in BlockSet /\ c \in BlockSet
      /\ b.layout \in Layouts /\ c.layout \in Layouts /\ b.addr \in Nat /\ c.addr \in Nat
  BY DEF BlockSound, BlockSet
<1>2. /\ BlockOf(b).addr = b.addr /\ end_addr(BlockOf(b)) = b.addr + SizeOf(b.layout)
      /\ BlockOf(c).addr = c.addr /\ end_addr(BlockOf(c)) = c.addr + SizeOf(c.layout)
  BY <1>1, BlockRegion
<1>3. /\ b.layout.size \in Nat /\ SizeOf(b.layout) \in Nat /\ SizeOf(b.layout) >= b.layout.size
      /\ c.layout.size \in Nat /\ SizeOf(c.layout) \in Nat /\ SizeOf(c.layout) >= c.layout.size
      /\ SizeOf(b.layout) >= NodeSize /\ NodeSize \in Nat \ {0}
  BY <1>1, LayoutFits
<1>4. b.addr + SizeOf(b.layout) <= c.addr \/ c.addr + SizeOf(c.layout) <= b.addr
  BY <1>2 DEF Apart
<1>5. b # c
  BY <1>1, <1>3, <1>4
<1> QED
  BY <1>1, <1>3, <1>4, <1>5 DEF Promise!Ends

\* An allocation is one of HeapBlocks, whatever list it was served from.
LEMMA AllocRefines ==
    ASSUME IInv, NEW l \in Layouts, Alloc(l)
    PROVE  Promise!Alloc
<1>1. PICK b : /\ BlockSound(b) /\ b.layout = l /\ live' = live \cup {b}
               /\ \A c \in live : Apart(BlockOf(c), BlockOf(b))
  BY AllocSound DEF IInv
<1>2. \A c \in live : BlockSound(c)
  BY DEF IInv, Sound
<1>3. b \in BlockSet /\ b.addr \in Nat /\ b = [addr |-> b.addr, layout |-> l]
  BY <1>1 DEF BlockSound, BlockSet
<1>4. /\ AlignOf(l) \in Nat \ {0} /\ AlignOf(l) % l.align = 0 /\ l.align \in Nat \ {0}
      /\ SizeOf(l) \in Nat /\ SizeOf(l) >= l.size /\ l.size \in Nat
  BY LayoutFits, HeapAssumption
<1>5. /\ HeapStart <= b.addr
      /\ b.addr + SizeOf(l) <= HeapStart + HeapSize
  BY <1>1, <1>3, BlockRegion DEF BlockSound, Inside
<1>6. /\ b.addr \in HeapStart .. HeapStart + HeapSize
      /\ b.addr + l.size <= HeapStart + HeapSize
  BY <1>3, <1>4, <1>5, HeapAssumption
<1>7. b.addr % l.align = 0
  BY <1>1, <1>3, <1>4, MultipleOf DEF BlockSound
<1>8. \A c \in live : /\ b # c
                      /\ Promise!Ends(b) <= c.addr \/ Promise!Ends(c) <= b.addr
  BY <1>1, <1>2, BlocksApart
<1>9. Promise!Ends(b) <= HeapStart + HeapSize
  BY <1>1, <1>6 DEF Promise!Ends
<1> QED
  BY <1>1, <1>3, <1>6, <1>7, <1>8, <1>9 DEF Promise!Alloc

\* The list of free regions keeps the promise of a GlobalAlloc.
THEOREM ImplementsPromise == Spec => ImplementsHeapBlocks
<1>1. Init => Promise!Init
  BY DEF Init, Promise!Init
<1>2. IInv /\ [Next]_vars => [Promise!Alloc \/ Promise!Dealloc]_live
  <2> SUFFICES ASSUME IInv, [Next]_vars PROVE [Promise!Alloc \/ Promise!Dealloc]_live
    OBVIOUS
  <2>1. ASSUME NEW l \in Layouts, Alloc(l) PROVE Promise!Alloc
    BY <2>1, AllocRefines
  <2>2. ASSUME NEW l \in Layouts, AllocFails(l) PROVE live' = live
    BY <2>2 DEF AllocFails
  <2>3. ASSUME NEW b \in live, Dealloc(b) PROVE Promise!Dealloc
    BY <2>3 DEF Dealloc, Promise!Dealloc
  <2>4. CASE UNCHANGED vars
    BY <2>4 DEF vars
  <2> QED BY <2>1, <2>2, <2>3, <2>4 DEF Next
<1> QED
  BY <1>1, <1>2, IInvHolds, PTL DEF Spec, ImplementsHeapBlocks, Promise!Spec

-----------------------------------------------------------------------------
(* The bytes of a set of regions *)

\* A set of naturals that is not empty has a least element.
LEMMA LeastOf ==
    ASSUME NEW T \in SUBSET Nat, T # {}
    PROVE  \E x \in T : \A y \in T : x <= y
<1> DEFINE R == {pair \in Nat \X Nat : pair[1] < pair[2]}
<1>1. IsWellFoundedOn(R, Nat)
  BY NatLessThanWellFounded DEF OpToRel
<1>2. \A x, y \in Nat : <<x, y>> \in R <=> x < y
  OBVIOUS
<1> HIDE DEF R
<1>3. PICK x \in T : \A y \in T : ~(<<y, x>> \in R)
  BY <1>1, WFMin
<1>4. \A y \in T : ~(y < x)
  BY <1>2, <1>3, Zenon
<1> QED
  BY <1>4

\* The function that FoldSet sums with, defined from itself.
AnyOf(s) == CHOOSE x \in s : TRUE

Tally(S, g) ==
    [s \in SUBSET S |-> IF s = {} THEN 0 ELSE g[s \ {AnyOf(s)}] + AnyOf(s).size]

LEMMA BytesTally ==
    ASSUME NEW S
    PROVE  Bytes(S) = (CHOOSE g : g = Tally(S, g))[S]
  BY DEF Bytes, FoldSet, MapThenFoldSet, Tally, AnyOf

LEMMA SmallerSet ==
    ASSUME NEW S, IsFiniteSet(S), NEW s \in SUBSET S, s # {}
    PROVE  /\ AnyOf(s) \in s
           /\ IsFiniteSet(s) /\ Cardinality(s) \in Nat \ {0}
           /\ \A x \in s : /\ s \ {x} \in SUBSET S
                           /\ IsFiniteSet(s \ {x})
                           /\ Cardinality(s \ {x}) = Cardinality(s) - 1
<1>1. IsFiniteSet(s) /\ Cardinality(s) \in Nat
  BY FS_Subset, FS_CardinalityType
<1>2. AnyOf(s) \in s
  BY DEF AnyOf
<1>3. \A x \in s : IsFiniteSet(s \ {x}) /\ Cardinality(s \ {x}) = Cardinality(s) - 1
  BY <1>1, FS_RemoveElement
<1>4. Cardinality(s) # 0
  BY <1>1, FS_EmptySet
<1> QED
  BY <1>1, <1>2, <1>3, <1>4

\* Summing is well defined: the sets of one element more are summed from those
\* of one element less.
LEMMA TallyExists ==
    ASSUME NEW S, IsFiniteSet(S)
    PROVE  \E g : g = Tally(S, g)
<1> DEFINE D(v, n) == Tally(S, v)
           h == CHOOSE f : f = [n \in Nat |-> IF n = 0 THEN [s \in SUBSET S |-> 0]
                                              ELSE D(f[n - 1], n)]
           g == [s \in SUBSET S |-> h[Cardinality(s)][s]]
<1>1. NatInductiveDefHypothesis(h, [s \in SUBSET S |-> 0], D)
  BY DEF NatInductiveDefHypothesis
<1>2. NatInductiveDefConclusion(h, [s \in SUBSET S |-> 0], D)
  BY <1>1, NatInductiveDef
<1>3. h = [n \in Nat |-> IF n = 0 THEN [s \in SUBSET S |-> 0] ELSE Tally(S, h[n - 1])]
  BY <1>2 DEF NatInductiveDefConclusion
<1> HIDE DEF h
<1>4. ASSUME NEW s \in SUBSET S
      PROVE  g[s] = IF s = {} THEN 0 ELSE g[s \ {AnyOf(s)}] + AnyOf(s).size
  <2>1. CASE s = {}
    <3>1. Cardinality(s) = 0
      BY <2>1, FS_EmptySet
    <3>2. h[0][s] = 0
      BY <1>3
    <3> QED BY <2>1, <3>1, <3>2
  <2>2. CASE s # {}
    <3> DEFINE n == Cardinality(s)
               r == s \ {AnyOf(s)}
    <3>1. n \in Nat \ {0} /\ r \in SUBSET S /\ Cardinality(r) = n - 1
      BY <2>2, SmallerSet
    <3>2. h[n] = Tally(S, h[n - 1])
      BY <1>3, <3>1
    <3>3. h[n][s] = h[n - 1][r] + AnyOf(s).size
      BY <2>2, <3>2 DEF Tally
    <3>4. g[r] = h[n - 1][r]
      BY <3>1
    <3> QED BY <2>2, <3>3, <3>4
  <2> QED BY <2>1, <2>2
<1>5. g = [s \in SUBSET S |-> g[s]]
  OBVIOUS
<1> HIDE DEF g
<1>6. g = Tally(S, g)
  BY <1>4, <1>5 DEF Tally
<1> QED
  BY <1>6

\* Summing gives a set the same bytes as part of whatever larger set.
LEMMA TallyUnique ==
    ASSUME NEW S, NEW T, IsFiniteSet(T), S \subseteq T,
           NEW g, g = Tally(S, g), NEW h, h = Tally(T, h)
    PROVE  \A s \in SUBSET S : g[s] = h[s]
<1> DEFINE Bad == {s \in SUBSET S : g[s] # h[s]}
           Sizes == {Cardinality(s) : s \in Bad}
<1>1. Bad = {}
  <2> SUFFICES ASSUME Bad # {} PROVE FALSE
    OBVIOUS
  <2>1. \A s \in SUBSET S : s \in SUBSET T /\ Cardinality(s) \in Nat
    BY FS_Subset, FS_CardinalityType
  <2>2. Sizes \in SUBSET Nat /\ Sizes # {}
    BY <2>1
  <2> HIDE DEF Sizes
  <2>3. PICK k \in Sizes : \A j \in Sizes : k <= j
    BY <2>2, LeastOf
  <2> USE DEF Sizes
  <2>4. PICK s \in Bad : Cardinality(s) = k
    BY <2>3
  <2> DEFINE r == s \ {AnyOf(s)}
  <2>5. /\ g[s] = IF s = {} THEN 0 ELSE g[r] + AnyOf(s).size
        /\ h[s] = IF s = {} THEN 0 ELSE h[r] + AnyOf(s).size
    BY <2>1, <2>4 DEF Tally
  <2>6. s # {}
    BY <2>4, <2>5
  <2>7. r \in SUBSET S /\ Cardinality(r) = k - 1 /\ k \in Nat \ {0}
    <3>1. s \in SUBSET T
      BY <2>1
    <3> QED BY <2>4, <2>6, <3>1, SmallerSet
  <2>8. r \notin Bad
    <3> SUFFICES ASSUME r \in Bad PROVE FALSE
      OBVIOUS
    <3>1. Cardinality(r) \in Sizes
      OBVIOUS
    <3> HIDE DEF r, Sizes
    <3> QED BY <2>3, <2>7, <3>1
  <2>9. g[r] = h[r]
    BY <2>7, <2>8
  <2> QED BY <2>4, <2>5, <2>6, <2>9
<1> QED
  BY <1>1

LEMMA BytesUnfold ==
    ASSUME NEW S, IsFiniteSet(S)
    PROVE  Bytes(S) = IF S = {} THEN 0 ELSE Bytes(S \ {AnyOf(S)}) + AnyOf(S).size
<1> DEFINE G(R) == CHOOSE g : g = Tally(R, g)
<1>1. \A R : IsFiniteSet(R) => G(R) = Tally(R, G(R))
  BY TallyExists
<1>2. \A R : Bytes(R) = G(R)[R]
  BY BytesTally
<1> HIDE DEF G
<1>3. Bytes(S) = IF S = {} THEN 0 ELSE G(S)[S \ {AnyOf(S)}] + AnyOf(S).size
  <2>1. G(S) = Tally(S, G(S)) /\ S \in SUBSET S
    BY <1>1
  <2>2. G(S)[S] = IF S = {} THEN 0 ELSE G(S)[S \ {AnyOf(S)}] + AnyOf(S).size
    BY <2>1 DEF Tally
  <2> QED BY <1>2, <2>2
<1>4. ASSUME S # {}
      PROVE  G(S)[S \ {AnyOf(S)}] = Bytes(S \ {AnyOf(S)})
  <2> DEFINE r == S \ {AnyOf(S)}
  <2>1. IsFiniteSet(r) /\ r \subseteq S /\ r \in SUBSET r
    BY <1>4, SmallerSet
  <2> HIDE DEF r
  <2>2. G(r) = Tally(r, G(r)) /\ G(S) = Tally(S, G(S))
    BY <1>1, <2>1
  <2>3. G(r)[r] = G(S)[r]
    BY <2>1, <2>2, TallyUnique
  <2>4. G(S)[r] = Bytes(r)
    BY <1>2, <2>3
  <2> QED BY <2>4 DEF r
<1> QED
  BY <1>3, <1>4

\* Whichever region is taken away first, a set has the bytes of its regions.
LEMMA BytesRemove ==
    ASSUME NEW S, IsFiniteSet(S), \A r \in S : r.size \in Nat
    PROVE  /\ Bytes(S) \in Nat
           /\ \A x \in S : Bytes(S) = Bytes(S \ {x}) + x.size
<1> DEFINE Right(s) == /\ Bytes(s) \in Nat
                       /\ \A x \in s : Bytes(s) = Bytes(s \ {x}) + x.size
           Bad == {s \in SUBSET S : ~ Right(s)}
           Sizes == {Cardinality(s) : s \in Bad}
<1>1. Bad = {}
  <2> SUFFICES ASSUME Bad # {} PROVE FALSE
    OBVIOUS
  <2>1. \A s \in SUBSET S : IsFiniteSet(s) /\ Cardinality(s) \in Nat
    BY FS_Subset, FS_CardinalityType
  <2>2. Sizes \in SUBSET Nat /\ Sizes # {}
    BY <2>1
  <2> HIDE DEF Sizes, Right
  <2>3. PICK k \in Sizes : \A j \in Sizes : k <= j
    BY <2>2, LeastOf
  <2>4. PICK s \in Bad : Cardinality(s) = k
    BY <2>3 DEF Sizes
  <2>5. \A r \in SUBSET S : Cardinality(r) < k => Right(r)
    <3> SUFFICES ASSUME NEW r \in SUBSET S, Cardinality(r) < k, r \in Bad PROVE FALSE
      OBVIOUS
    <3>1. Cardinality(r) \in Sizes /\ Cardinality(r) \in Nat /\ k \in Nat
      BY <2>1, <2>2, <2>3 DEF Sizes
    <3> QED BY <2>3, <3>1
  <2>6. IsFiniteSet(s) /\ s \in SUBSET S /\ k \in Nat
    BY <2>1, <2>4
  <2> DEFINE y == AnyOf(s)
  <2>7. CASE s = {}
    <3>1. Bytes(s) = 0
      BY <2>6, <2>7, BytesUnfold
    <3> QED BY <2>4, <2>7, <3>1 DEF Right
  <2>8. CASE s # {}
    <3>1. /\ y \in s
          /\ \A x \in s : /\ s \ {x} \in SUBSET S
                          /\ Cardinality(s \ {x}) < k
      BY <2>4, <2>6, <2>8, SmallerSet
    <3>2. Bytes(s) = Bytes(s \ {y}) + y.size
      BY <2>6, <2>8, BytesUnfold
    <3> HIDE DEF y
    <3>3. \A x \in s : Right(s \ {x})
      BY <2>5, <3>1
    <3>4. Bytes(s) \in Nat
      <4>1. y.size \in Nat /\ Bytes(s \ {y}) \in Nat
        BY <2>6, <3>1, <3>3 DEF Right
      <4> QED BY <3>2, <4>1
    <3>5. ASSUME NEW x \in s
          PROVE  Bytes(s) = Bytes(s \ {x}) + x.size
      <4>1. CASE x = y
        BY <3>2, <4>1
      <4>2. CASE x # y
        <5>1. x \in s \ {y} /\ y \in s \ {x}
          BY <3>1, <4>2
        <5>2. Bytes(s \ {y}) = Bytes((s \ {y}) \ {x}) + x.size
          BY <3>1, <3>3, <5>1 DEF Right
        <5>3. Bytes(s \ {x}) = Bytes((s \ {x}) \ {y}) + y.size
          BY <3>3, <5>1 DEF Right
        <5>4. (s \ {y}) \ {x} = (s \ {x}) \ {y}
          OBVIOUS
        <5>5. s \ {x} \in SUBSET S /\ Bytes((s \ {x}) \ {y}) \in Nat
          <6>1. (s \ {x}) \ {y} \in SUBSET S /\ Cardinality((s \ {x}) \ {y}) < k
            <7>1. /\ IsFiniteSet(s \ {x}) /\ Cardinality(s \ {x}) < k
                  /\ s \ {x} \in SUBSET S /\ Cardinality(s \ {x}) \in Nat
              BY <2>1, <3>1
            <7>2. Cardinality((s \ {x}) \ {y}) = Cardinality(s \ {x}) - 1
              BY <5>1, <7>1, FS_RemoveElement
            <7> QED BY <2>6, <7>1, <7>2
          <6> QED BY <2>5, <6>1 DEF Right
        <5>6. x.size \in Nat /\ y.size \in Nat
          BY <2>6, <3>1
        <5> DEFINE n == Bytes((s \ {x}) \ {y})
        <5>7. /\ Bytes(s) = n + x.size + y.size
              /\ Bytes(s \ {x}) = n + y.size
          BY <3>2, <5>2, <5>3, <5>4
        <5>8. n \in Nat
          BY <5>5
        <5> HIDE DEF n
        <5> QED BY <5>6, <5>7, <5>8
      <4> QED BY <4>1, <4>2
    <3>6. Right(s)
      BY <3>4, <3>5 DEF Right
    <3> QED BY <2>4, <3>6
  <2> QED BY <2>7, <2>8
<1> HIDE DEF Right
<1>2. Right(S)
  BY <1>1
<1> QED
  BY <1>2 DEF Right

LEMMA BytesAdd ==
    ASSUME NEW S, IsFiniteSet(S), \A r \in S : r.size \in Nat,
           NEW x, x \notin S, x.size \in Nat
    PROVE  /\ Bytes(S) \in Nat
           /\ IsFiniteSet(S \cup {x})
           /\ Bytes(S \cup {x}) = Bytes(S) + x.size
<1>1. IsFiniteSet(S \cup {x})
  BY FS_AddElement
<1>2. (S \cup {x}) \ {x} = S
  OBVIOUS
<1>3. Bytes(S \cup {x}) = Bytes((S \cup {x}) \ {x}) + x.size
  BY <1>1, BytesRemove
<1> QED
  BY <1>1, <1>2, <1>3, BytesRemove

-----------------------------------------------------------------------------
(* No byte is lost but to alignment *)

\* Finitely many blocks are handed out.
Finite == IsFiniteSet(live)

LEMMA FiniteAlways == Spec => []Finite
<1>1. Init => Finite
  BY FS_EmptySet DEF Init, Finite
<1>2. Finite /\ [Next]_vars => Finite'
  BY FS_AddElement, FS_RemoveElement DEF Finite, Next, vars, Alloc, AllocFails, Dealloc
<1> QED
  BY <1>1, <1>2, PTL DEF Spec

Parts == Blocks \cup Regions

\* Each part of the heap has its size, and no part is met twice.
PartsSound ==
    /\ IsFiniteSet(Parts)
    /\ \A r \in Parts : r \in RegionSet /\ r.size \in Nat \ {0}
    /\ \A b \in live : BlockOf(b) \in Blocks /\ BlockOf(b) \notin Regions
    /\ \A b, c \in live : b # c => BlockOf(b) # BlockOf(c)
    /\ Blocks = {BlockOf(b) : b \in live}

LEMMA PartsFacts == IInv /\ Finite => PartsSound
<1> SUFFICES ASSUME IInv, Finite PROVE PartsSound
  OBVIOUS
<1>1. /\ free \in Seq(RegionSet)
      /\ \A b \in live : BlockSound(b) /\ b \in BlockSet
      /\ \A i \in DOMAIN free : RegionSound(free[i])
  BY DEF IInv, Sound, BlockSound
<1>2. Blocks = {BlockOf(b) : b \in live}
  BY DEF Blocks, BlockOf
<1>3. IsFiniteSet(Blocks)
  <2> DEFINE f == [b \in live |-> BlockOf(b)]
  <2>1. f \in Surjection(live, Blocks)
    BY <1>2, Zenon DEF Surjection
  <2> QED BY <2>1, FS_Surjection DEF Finite
<1>4. IsFiniteSet(Regions)
  <2>1. DOMAIN free = 1 .. Len(free) /\ Len(free) \in Nat
    BY <1>1
  <2>2. IsFiniteSet(DOMAIN free)
    BY <2>1, FS_Interval
  <2>3. free \in Surjection(DOMAIN free, Regions)
    BY <1>1 DEF Surjection, Regions
  <2> QED BY <2>2, <2>3, FS_Surjection
<1>5. ASSUME NEW r \in Parts
      PROVE  r \in RegionSet /\ r.size \in Nat \ {0}
  <2>1. ASSUME NEW b \in live
        PROVE  BlockOf(b) \in RegionSet /\ BlockOf(b).size \in Nat \ {0}
    <3>1. BlockOf(b) \in RegionSet /\ BlockOf(b).size >= NodeSize
      BY <1>1, BlockRegion
    <3> QED BY <3>1, HeapAssumption DEF RegionSet
  <2>2. ASSUME NEW i \in DOMAIN free
        PROVE  free[i] \in RegionSet /\ free[i].size \in Nat \ {0}
    <3>1. free[i] \in RegionSet /\ free[i].size >= NodeSize
      BY <1>1 DEF RegionSound
    <3> QED BY <3>1, HeapAssumption DEF RegionSet
  <2> QED BY <1>2, <2>1, <2>2 DEF Parts, Regions
<1>6. ASSUME NEW r \in RegionSet, r.size \in Nat \ {0}
      PROVE  ~ Apart(r, r)
  BY <1>6 DEF Apart, RegionSet, end_addr
<1>7. \A b \in live : BlockOf(b) \in Blocks
  BY <1>2
<1>8. \A b \in live : BlockOf(b) \notin Regions
  <2> SUFFICES ASSUME NEW b \in live, NEW i \in DOMAIN free, BlockOf(b) = free[i]
               PROVE  FALSE
    BY DEF Regions
  <2>1. Apart(BlockOf(b), BlockOf(b))
    BY DEF IInv, Sound
  <2> QED BY <1>5, <1>6, <1>7, <2>1 DEF Parts
<1>9. \A b, c \in live : b # c => BlockOf(b) # BlockOf(c)
  <2> SUFFICES ASSUME NEW b \in live, NEW c \in live, b # c, BlockOf(b) = BlockOf(c)
               PROVE  FALSE
    OBVIOUS
  <2>1. Apart(BlockOf(b), BlockOf(b))
    BY DEF IInv, Sound
  <2> QED BY <1>5, <1>6, <1>7, <2>1 DEF Parts
<1> QED
  BY <1>2, <1>3, <1>4, <1>5, <1>7, <1>8, <1>9, FS_Union DEF Parts, PartsSound

\* What find_region leaves on the list is every region but the one it takes.
LEMMA RegionsLeft ==
    ASSUME IInv, NEW i \in DOMAIN free
    PROVE  /\ {RemoveAt(free, i)[j] : j \in DOMAIN RemoveAt(free, i)} = Regions \ {free[i]}
           /\ RemoveAt(free, i) \in Seq(RegionSet)
<1> DEFINE left == RemoveAt(free, i)
<1>1. /\ free \in Seq(RegionSet) /\ DOMAIN free = 1 .. Len(free) /\ Len(free) \in Nat
      /\ \A k \in DOMAIN free : free[k] \in RegionSet /\ free[k].size >= NodeSize
  BY DEF IInv, Sound, RegionSound
<1>2. /\ left \in Seq(RegionSet) /\ Len(left) = Len(free) - 1
      /\ \A j \in DOMAIN left : Kept(i, j) \in DOMAIN free \ {i} /\ left[j] = free[Kept(i, j)]
  <2>1. free \in Seq(RegionSet)
    BY <1>1
  <2> QED BY <2>1, RemoveAtKeeps
<1> HIDE DEF left
<1>3. \A k \in DOMAIN free : k # i => free[k] # free[i]
  <2> SUFFICES ASSUME NEW k \in DOMAIN free, k # i, free[k] = free[i] PROVE FALSE
    OBVIOUS
  <2>1. Apart(free[i], free[i])
    BY DEF IInv, Sound
  <2>2. free[i] \in RegionSet /\ free[i].size \in Nat \ {0}
    BY <1>1, HeapAssumption DEF RegionSet
  <2> QED BY <2>1, <2>2 DEF Apart, RegionSet, end_addr
<1>4. \A k \in DOMAIN free : k # i => \E j \in DOMAIN left : left[j] = free[k]
  <2> SUFFICES ASSUME NEW k \in DOMAIN free, k # i
               PROVE  \E j \in DOMAIN left : left[j] = free[k]
    OBVIOUS
  <2>0. DOMAIN left = 1 .. Len(free) - 1
    BY <1>2
  <2>1. CASE k < i
    <3>1. k \in DOMAIN left /\ Kept(i, k) = k
      BY <1>1, <2>0, <2>1 DEF Kept
    <3> QED BY <1>2, <3>1
  <2>2. CASE k > i
    <3>1. k - 1 \in DOMAIN left /\ Kept(i, k - 1) = k
      BY <1>1, <2>0, <2>2 DEF Kept
    <3> QED BY <1>2, <3>1
  <2> QED BY <1>1, <2>1, <2>2
<1>5. {left[j] : j \in DOMAIN left} \subseteq Regions \ {free[i]}
  BY <1>2, <1>3 DEF Regions
<1>6. Regions \ {free[i]} \subseteq {left[j] : j \in DOMAIN left}
  BY <1>4 DEF Regions
<1> QED
  BY <1>2, <1>5, <1>6 DEF left

Lost == Bytes(Parts) - Bytes(Parts')

LEMMA AllocLoses ==
    ASSUME IInv, Finite, IInv', Finite', NEW l \in Layouts, Alloc(l)
    PROVE  /\ Lost >= 0
           /\ Lost > 0 => \E b \in live' \ live : Lost < b.layout.align
<1>1. PICK i \in Found(l) :
        /\ free' = Rest(free[i], l) \o RemoveAt(free, i)
        /\ live' = live \cup {[addr |-> align_up(free[i].addr, AlignOf(l)), layout |-> l]}
  BY DEF Alloc
<1> DEFINE r == free[i]
           left == RemoveAt(free, i)
           b == [addr |-> align_up(r.addr, AlignOf(l)), layout |-> l]
           end == end_addr(BlockOf(b))
           rest == Region(end, end_addr(r) - end)
           Others == Parts \ {r}
<1>2. i \in DOMAIN free /\ Fits(r, l) /\ RegionSound(r) /\ r \in RegionSet /\ r \in Regions
  BY DEF Found, IInv, Sound, RegionSound, Regions
<1>3. /\ BlockSound(b) /\ b \in BlockSet /\ r.addr <= b.addr /\ end <= end_addr(r)
      /\ \/ Rest(r, l) = << >>
         \/ Rest(r, l) = <<rest>> /\ RegionSound(rest)
  BY <1>2, RegionDivides DEF BlockSound
<1>4. /\ BlockOf(b) \in RegionSet /\ BlockOf(b).addr = b.addr
      /\ BlockOf(b).size = SizeOf(l) /\ end = b.addr + SizeOf(l)
      /\ SizeOf(l) \in Nat /\ SizeOf(l) >= NodeSize /\ NodeSize \in Nat \ {0}
  BY <1>3, BlockRegion, LayoutFits
<1>5. /\ b.addr \in Nat /\ b.addr < r.addr + AlignOf(l) /\ r.addr \in Nat /\ r.size \in Nat
      /\ end_addr(r) = r.addr + r.size
  BY <1>2, AlignUp, LayoutFits DEF RegionSet, end_addr
<1>6. /\ {left[j] : j \in DOMAIN left} = Regions \ {r}
      /\ left \in Seq(RegionSet)
  BY <1>2, RegionsLeft
<1>7. live' = live \cup {b} /\ free' = Rest(r, l) \o left /\ b.layout = l
  BY <1>1
<1>8. b \notin live
  <2> SUFFICES ASSUME b \in live PROVE FALSE
    OBVIOUS
  <2>2. Apart(BlockOf(b), r)
    BY <1>2 DEF IInv, Sound
  <2> HIDE DEF b, r
  <2> QED BY <1>3, <1>4, <1>5, <2>2 DEF Apart
<1>9. Rest(r, l) = IF end < end_addr(r) THEN <<rest>> ELSE << >>
  BY <1>4 DEF Rest
<1> HIDE DEF b, left
<1>10. /\ IsFiniteSet(Parts) /\ \A p \in Parts : p.size \in Nat
       /\ r \in Parts /\ r \notin Blocks
  BY <1>2, PartsFacts DEF Parts, PartsSound
<1>11. /\ IsFiniteSet(Others) /\ (\A p \in Others : p.size \in Nat)
       /\ Bytes(Parts) = Bytes(Others) + r.size
       /\ Others = Blocks \cup (Regions \ {r})
  <2>1. IsFiniteSet(Others)
    BY <1>10, FS_RemoveElement
  <2>2. Bytes(Parts) = Bytes(Others) + r.size
    BY <1>10, BytesRemove
  <2>3. Others = Blocks \cup (Regions \ {r})
    BY <1>10 DEF Parts
  <2> QED BY <1>10, <2>1, <2>2, <2>3
<1> HIDE DEF Others
<1>12. /\ Blocks' = Blocks \cup {BlockOf(b)}
       /\ BlockOf(b) \notin Blocks /\ BlockOf(b) \notin Regions'
       /\ \A p \in Blocks : p \notin Regions'
  <2>1. /\ \A c \in live' : BlockOf(c) \in Blocks' /\ BlockOf(c) \notin Regions'
        /\ \A c, d \in live' : c # d => BlockOf(c) # BlockOf(d)
        /\ Blocks' = {BlockOf(c) : c \in live'}
    <3>1. PartsSound'
      BY PartsFacts, PTL
    <3> QED BY <3>1 DEF PartsSound
  <2>2. Blocks = {BlockOf(c) : c \in live}
    BY PartsFacts DEF PartsSound
  <2> QED BY <1>7, <1>8, <2>1, <2>2
<1>13. ASSUME Lost = b.addr - r.addr
       PROVE  /\ Lost >= 0
              /\ Lost > 0 => \E c \in live' \ live : Lost < c.layout.align
  <2>1. b \in live' \ live
    BY <1>7, <1>8
  <2>2. ASSUME Lost > 0 PROVE Lost < b.layout.align
    <3>1. CASE l.align < NodeAlign
      <4>1. AlignOf(l) = NodeAlign /\ r.addr % NodeAlign = 0
        BY <1>2, <3>1 DEF AlignOf, RegionSound
      <4>2. align_up(r.addr, AlignOf(l)) = r.addr
        BY <1>5, <4>1, AlignUpAligned, HeapAssumption
      <4>3. b.addr = r.addr
        BY <4>2 DEF b
      <4> HIDE DEF r
      <4> QED BY <1>5, <1>13, <2>2, <4>3
    <3>2. CASE ~(l.align < NodeAlign)
      <4>1. AlignOf(l) = l.align /\ l.align \in Nat
        BY <3>2, HeapAssumption DEF AlignOf
      <4> HIDE DEF r
      <4> QED BY <1>5, <1>7, <1>13, <4>1
    <3> QED BY <3>1, <3>2
  <2> HIDE DEF r
  <2>3. Lost >= 0
    BY <1>3, <1>5, <1>13
  <2> QED BY <2>1, <2>2, <2>3
<1>14. CASE ~(end < end_addr(r))
  <2>1. Rest(r, l) = << >> /\ end = end_addr(r)
    BY <1>3, <1>4, <1>5, <1>9, <1>14
  <2>2. free' = left
    BY <1>6, <1>7, <2>1
  <2>3. Regions' = Regions \ {r}
    BY <1>6, <2>2 DEF Regions
  <2>4. Parts' = Others \cup {BlockOf(b)} /\ BlockOf(b) \notin Others
    BY <1>11, <1>12, <2>3 DEF Parts
  <2>5. /\ Bytes(Others) \in Nat
        /\ Bytes(Parts') = Bytes(Others) + SizeOf(l)
    BY <1>4, <1>11, <2>4, BytesAdd
  <2> HIDE DEF r
  <2>6. Lost = b.addr - r.addr
    BY <1>4, <1>5, <1>11, <2>1, <2>5 DEF Lost
  <2> QED BY <1>13, <2>6
<1>15. CASE end < end_addr(r)
  <2>1. Rest(r, l) = <<rest>> /\ RegionSound(rest) /\ rest \in RegionSet
    BY <1>3, <1>9, <1>15 DEF RegionSound
  <2>2. rest.size = end_addr(r) - end /\ rest.size \in Nat
    BY <2>1 DEF Region, RegionSet
  <2> HIDE DEF rest
  <2>3. free' = <<rest>> \o left
    BY <1>7, <2>1
  <2>4. /\ DOMAIN free' = 1 .. Len(left) + 1 /\ free'[1] = rest
        /\ DOMAIN left = 1 .. Len(left) /\ Len(left) \in Nat
        /\ \A j \in DOMAIN left : j + 1 \in DOMAIN free' /\ free'[j + 1] = left[j] /\ j + 1 # 1
        /\ \A k \in DOMAIN free' \ {1} : k - 1 \in DOMAIN left /\ free'[k] = left[k - 1]
    BY <1>6, <2>1, <2>3
  <2>5. Regions' = {rest} \cup (Regions \ {r})
    <3>1. Regions' = {rest} \cup {left[j] : j \in DOMAIN left}
      BY <2>4 DEF Regions
    <3> QED BY <1>6, <3>1
  <2>6. rest \notin Regions \ {r}
    <3> SUFFICES ASSUME NEW j \in DOMAIN left, left[j] = rest PROVE FALSE
      BY <1>6
    <3>1. j + 1 \in DOMAIN free' /\ free'[j + 1] = rest /\ 1 \in DOMAIN free' /\ j + 1 # 1
      BY <2>4
    <3>2. Apart(free'[1], free'[j + 1])
      BY <3>1 DEF IInv, Sound
    <3>3. rest.size >= NodeSize
      BY <2>1 DEF RegionSound
    <3> QED BY <1>4, <2>1, <2>4, <3>1, <3>2, <3>3 DEF Apart, end_addr, RegionSet
  <2>7. rest \notin Others
    BY <1>11, <1>12, <2>5, <2>6
  <2>8. BlockOf(b) \notin Others \cup {rest}
    BY <1>11, <1>12, <2>5
  <2>9. Parts' = (Others \cup {rest}) \cup {BlockOf(b)}
    BY <1>11, <1>12, <2>5 DEF Parts
  <2>10. /\ Bytes(Others) \in Nat
         /\ IsFiniteSet(Others \cup {rest})
         /\ Bytes(Others \cup {rest}) = Bytes(Others) + rest.size
    BY <1>11, <2>2, <2>7, BytesAdd
  <2>11. Bytes(Parts') = Bytes(Others \cup {rest}) + SizeOf(l)
    <3>1. \A p \in Others \cup {rest} : p.size \in Nat
      BY <1>11, <2>2
    <3> QED BY <1>4, <2>8, <2>9, <2>10, <3>1, BytesAdd
  <2> HIDE DEF r
  <2>12. Lost = b.addr - r.addr
    BY <1>4, <1>5, <1>11, <2>2, <2>10, <2>11 DEF Lost
  <2> QED BY <1>13, <2>12
<1> QED
  BY <1>14, <1>15

\* A block that is freed keeps its bytes: they are a region now.
LEMMA DeallocLoses ==
    ASSUME IInv, Finite, NEW b \in live, Dealloc(b)
    PROVE  Parts' = Parts
<1>1. /\ Blocks = {BlockOf(c) : c \in live}
      /\ \A c, d \in live : c # d => BlockOf(c) # BlockOf(d)
  BY PartsFacts DEF PartsSound
<1>2. live' = live \ {b} /\ free' = <<BlockOf(b)>> \o free
  BY DEF Dealloc, add_free_region, BlockOf
<1>3. free \in Seq(RegionSet) /\ BlockOf(b) \in RegionSet
  BY BlockRegion DEF IInv, Sound, BlockSound
<1>4. /\ DOMAIN free' = 1 .. Len(free) + 1 /\ free'[1] = BlockOf(b)
      /\ DOMAIN free = 1 .. Len(free) /\ Len(free) \in Nat
      /\ \A j \in DOMAIN free : j + 1 \in DOMAIN free' /\ free'[j + 1] = free[j]
      /\ \A k \in DOMAIN free' \ {1} : k - 1 \in DOMAIN free /\ free'[k] = free[k - 1]
  <2> HIDE DEF BlockOf
  <2> QED BY <1>2, <1>3
<1>5. Regions' = Regions \cup {BlockOf(b)}
  BY <1>4 DEF Regions
<1>6. Blocks' = {BlockOf(c) : c \in live \ {b}}
  BY <1>2 DEF Blocks, BlockOf
<1>7. Blocks = Blocks' \cup {BlockOf(b)}
  BY <1>1, <1>6
<1> QED
  BY <1>5, <1>7 DEF Parts

\* alloc_from_region and dealloc: every byte of the heap stays in a block or in a
\* region of the list, but those that an allocation skips to align its block.
THEOREM OnlyAlignmentLost == Spec => LosesAlignmentOnly
<1> DEFINE Kind == /\ Lost >= 0
                   /\ Lost > 0 => \E b \in live' \ live : Lost < b.layout.align
<1>1. IInv /\ Finite /\ IInv' /\ Finite' /\ [Next]_vars => [Kind]_vars
  <2> SUFFICES ASSUME IInv, Finite, IInv', Finite', Next PROVE Kind
    OBVIOUS
  <2>1. Parts' = Parts => Kind
    <3> SUFFICES ASSUME Parts' = Parts PROVE Kind
      OBVIOUS
    <3>1. Bytes(Parts) \in Nat
      BY PartsFacts, BytesRemove DEF PartsSound
    <3>2. Lost = 0
      BY <3>1 DEF Lost
    <3> QED BY <3>2
  <2>2. ASSUME NEW l \in Layouts, Alloc(l) PROVE Kind
    BY <2>2, AllocLoses
  <2>3. ASSUME NEW l \in Layouts, AllocFails(l) PROVE Kind
    BY <2>1, <2>3 DEF AllocFails, Parts, Blocks, Regions
  <2>4. ASSUME NEW b \in live, Dealloc(b) PROVE Kind
    BY <2>1, <2>4, DeallocLoses
  <2> QED BY <2>2, <2>3, <2>4 DEF Next
<1> HIDE DEF Kind
<1>2. IInv /\ Finite /\ IInv' /\ Finite' /\ [Next]_vars
        => [LET lost == Bytes(Blocks \cup Regions) - Bytes(Blocks' \cup Regions')
            IN  /\ lost >= 0
                /\ lost > 0 => \E b \in live' \ live : lost < b.layout.align]_vars
  BY <1>1 DEF Kind, Lost, Parts
<1> QED
  BY <1>2, IInvHolds, FiniteAlways, PTL DEF Spec, LosesAlignmentOnly
=============================================================================
