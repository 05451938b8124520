--------------------------- MODULE SplitQueueProofs ---------------------------
(***************************************************************************)
(* Proofs about SplitQueue, for every accepted size and every width of the *)
(* indices: each descriptor is in one place, the device never sees one     *)
(* that is half written, and every step of the rings is one of             *)
(* RequestQueue, however often the indices wrap.                           *)
(***************************************************************************)
EXTENDS SplitQueueRefinement, FiniteSetTheorems, TLAPS

-----------------------------------------------------------------------------
(* Indices and slots *)

\* A remainder is the only one of its size.
LEMMA RemainderIs ==
    ASSUME NEW s \in Nat \ {0}, NEW k \in Int, NEW t \in 0 .. s - 1
    PROVE  (s * k + t) % s = t
  OBVIOUS

\* A number is a multiple and a remainder.
LEMMA Divided ==
    ASSUME NEW s \in Nat \ {0}, NEW x \in Int
    PROVE  \E k \in Int, t \in 0 .. s - 1 : x = s * k + t /\ t = x % s
<1>1. x \div s \in Int /\ x % s \in 0 .. s - 1 /\ x = s * (x \div s) + (x % s)
  OBVIOUS
<1> QED
  BY <1>1

\* A slot does not depend on whether the index has wrapped on the way.
LEMMA SlotOf ==
    ASSUME NEW s \in Nat \ {0}, IndexMod % s = 0, NEW x \in Nat
    PROVE  (x % IndexMod) % s = x % s
<1>0. IndexMod \in Nat \ {0}
  BY WidthAssumption
<1>1. PICK n \in Int : IndexMod = s * n
  <2>1. IndexMod \div s \in Int /\ IndexMod = s * (IndexMod \div s)
    BY <1>0
  <2> QED
    BY <2>1
<1>2. PICK k \in Int, r \in 0 .. IndexMod - 1 : x = IndexMod * k + r /\ r = x % IndexMod
  BY <1>0, Divided
<1>3. PICK m \in Int, t \in 0 .. s - 1 : r = s * m + t /\ t = r % s
  <2>1. r \in Int
    BY <1>0, <1>2
  <2> QED
    BY <2>1, Divided
<1>4. x = s * (n * k + m) + t
  <2>1. (s * n) * k = s * (n * k)
    BY <1>1, <1>2
  <2>2. s * (n * k + m) = s * (n * k) + s * m
    BY <1>1, <1>2, <1>3
  <2>3. IndexMod * k = s * (n * k)
    BY <1>1, <2>1
  <2>4. n * k \in Int /\ s * (n * k) \in Int /\ s * m \in Int
    BY <1>1, <1>2, <1>3
  <2>5. x = IndexMod * k + (s * m + t)
    BY <1>2, <1>3
  <2> QED
    BY <2>2, <2>3, <2>4, <2>5
<1>5. n * k + m \in Int
  BY <1>1, <1>2, <1>3
<1>6. x % s = t
  BY <1>4, <1>5, RemainderIs
<1> QED
  BY <1>2, <1>3, <1>6

\* Fewer than s indices in a row have slots of their own.
LEMMA SlotsDiffer ==
    ASSUME NEW s \in Nat \ {0}, NEW x \in Nat, NEW d \in 1 .. s - 1
    PROVE  x % s # (x + d) % s
<1>1. PICK k \in Int, t \in 0 .. s - 1 : x = s * k + t /\ t = x % s
  <2>1. x \in Int
    OBVIOUS
  <2> QED
    BY <2>1, Divided
<1>2. CASE t + d < s
  <2>1. t + d \in 0 .. s - 1 /\ x + d = s * k + (t + d)
    BY <1>1, <1>2
  <2>2. (x + d) % s = t + d
    BY <2>1, RemainderIs
  <2> QED
    BY <1>1, <2>2
<1>3. CASE t + d >= s
  <2>1. t + d - s \in 0 .. s - 1 /\ k + 1 \in Int
    BY <1>1, <1>3
  <2>2. s * (k + 1) = s * k + s
    BY <1>1
  <2>3. x + d = s * (k + 1) + (t + d - s)
    BY <1>1, <2>2
  <2>4. (x + d) % s = t + d - s
    BY <2>1, <2>3, RemainderIs
  <2> QED
    BY <1>1, <2>4
<1> QED
  BY <1>1, <1>2, <1>3

Index == 0 .. IndexMod - 1

\* How far one index is ahead of another, without the remainder.
LEMMA AheadIs ==
    ASSUME NEW a \in Index, NEW b \in Index
    PROVE  /\ Ahead16(a, b) = IF a <= b THEN b - a ELSE b - a + IndexMod
           /\ Ahead16(a, b) \in Index
           /\ Ahead16(a, b) = 0 <=> a = b
<1>1. IndexMod \in Nat \ {0}
  BY WidthAssumption
<1>2. CASE a <= b
  <2>1. b - a \in 0 .. IndexMod - 1 /\ b - a = IndexMod * 0 + (b - a)
    BY <1>1, <1>2 DEF Index
  <2>2. (b - a) % IndexMod = b - a
    BY <1>1, <2>1, RemainderIs
  <2> QED
    BY <1>1, <1>2, <2>2 DEF Ahead16, Index
<1>3. CASE a > b
  <2>1. b - a + IndexMod \in 0 .. IndexMod - 1 /\ b - a = IndexMod * (0 - 1) + (b - a + IndexMod)
    BY <1>1, <1>3 DEF Index
  <2>2. (b - a) % IndexMod = b - a + IndexMod
    BY <1>1, <2>1, RemainderIs
  <2> QED
    BY <1>1, <1>3, <2>2 DEF Ahead16, Index
<1> QED
  BY <1>2, <1>3 DEF Index

\* An index and the next one.
LEMMA NextIs ==
    ASSUME NEW a \in Index
    PROVE  /\ Next16(a) = IF a + 1 = IndexMod THEN 0 ELSE a + 1
           /\ Next16(a) \in Index
<1>1. IndexMod \in Nat \ {0}
  BY WidthAssumption
<1>2. CASE a + 1 = IndexMod
  <2>1. a + 1 = IndexMod * 1 + 0 /\ 0 \in 0 .. IndexMod - 1
    BY <1>1, <1>2 DEF Index
  <2> QED
    BY <1>1, <1>2, <2>1, RemainderIs DEF Next16, Index
<1>3. CASE a + 1 # IndexMod
  <2>1. a + 1 = IndexMod * 0 + (a + 1) /\ a + 1 \in 0 .. IndexMod - 1
    BY <1>1, <1>3 DEF Index
  <2>2. (a + 1) % IndexMod = a + 1
    BY <1>1, <2>1, RemainderIs
  <2> QED
    BY <1>1, <1>3, <2>1, <2>2 DEF Next16, Index
<1> QED
  BY <1>2, <1>3

-----------------------------------------------------------------------------
(* What a ring holds between two indices *)

Window(ring, a, b, s) == [k \in 1 .. Ahead16(a, b) |-> ring[((a + k - 1) % IndexMod) % s]]

Ring(s) == [0 .. s - 1 -> 0 .. s - 1]

\* The slot after the last one of a window is the one that is written next.
LEMMA SlotAfter ==
    ASSUME NEW s \in Nat \ {0}, IndexMod % s = 0, NEW a \in Index, NEW b \in Index
    PROVE  /\ ((a + Ahead16(a, b)) % IndexMod) % s = b % s
           /\ (a + Ahead16(a, b)) % s = b % s
<1>1. IndexMod \in Nat \ {0}
  BY WidthAssumption
<1>2. (a + Ahead16(a, b)) % IndexMod = b
  <2>1. CASE a <= b
    <3>1. a + Ahead16(a, b) = IndexMod * 0 + b /\ b \in 0 .. IndexMod - 1
      BY <2>1, <1>1, AheadIs DEF Index
    <3> QED
      BY <1>1, <3>1, RemainderIs
  <2>2. CASE a > b
    <3>1. a + Ahead16(a, b) = IndexMod * 1 + b /\ b \in 0 .. IndexMod - 1
      BY <2>2, <1>1, AheadIs DEF Index
    <3> QED
      BY <1>1, <3>1, RemainderIs
  <2> QED
    BY <2>1, <2>2 DEF Index
<1>3. a + Ahead16(a, b) \in Nat
  <2>1. a \in Nat /\ Ahead16(a, b) \in Nat
    BY <1>1, AheadIs DEF Index
  <2> QED
    BY <2>1
<1> QED
  BY <1>2, <1>3, SlotOf

\* A window is a sequence of what the ring holds.
LEMMA WindowIs ==
    ASSUME NEW s \in Nat \ {0}, IndexMod % s = 0, NEW a \in Index, NEW b \in Index,
           NEW ring \in Ring(s)
    PROVE  /\ Window(ring, a, b, s) \in Seq(0 .. s - 1)
           /\ Len(Window(ring, a, b, s)) = Ahead16(a, b)
           /\ \A k \in 1 .. Ahead16(a, b) : Window(ring, a, b, s)[k] = ring[(a + k - 1) % s]
<1>1. Ahead16(a, b) \in Nat
  BY AheadIs DEF Index
<1>2. \A k \in 1 .. Ahead16(a, b) :
         /\ ((a + k - 1) % IndexMod) % s = (a + k - 1) % s
         /\ (a + k - 1) % s \in 0 .. s - 1
  <2> SUFFICES ASSUME NEW k \in 1 .. Ahead16(a, b)
               PROVE  /\ ((a + k - 1) % IndexMod) % s = (a + k - 1) % s
                      /\ (a + k - 1) % s \in 0 .. s - 1
    OBVIOUS
  <2>1. a + k - 1 \in Nat
    BY <1>1 DEF Index
  <2> QED
    BY <2>1, SlotOf
<1> DEFINE n == Ahead16(a, b)
           w == Window(ring, a, b, s)
<1>3. w = [k \in 1 .. n |-> ring[((a + k - 1) % IndexMod) % s]]
  BY DEF Window
<1>4. \A k \in 1 .. n : w[k] = ring[(a + k - 1) % s] /\ w[k] \in 0 .. s - 1
  BY <1>2, <1>3 DEF Ring
<1> HIDE DEF n, w
<1>5. w \in Seq(0 .. s - 1) /\ Len(w) = n
  BY <1>1, <1>3, <1>4 DEF n
<1> QED
  BY <1>4, <1>5 DEF n, w

\* Its length is how far its end is ahead.
LEMMA WindowSeq ==
    ASSUME NEW s \in Nat \ {0}, IndexMod % s = 0, NEW a \in Index, NEW b \in Index,
           NEW ring \in Ring(s)
    PROVE  /\ Window(ring, a, b, s) \in Seq(0 .. s - 1)
           /\ Len(Window(ring, a, b, s)) = Ahead16(a, b)
  BY WindowIs

\* Writing the next slot leaves the window as it is, while there is room.
LEMMA WriteBehind ==
    ASSUME NEW s \in Nat \ {0}, IndexMod % s = 0, NEW a \in Index, NEW b \in Index,
           NEW ring \in Ring(s), NEW x \in 0 .. s - 1, Ahead16(a, b) < s
    PROVE  Window([ring EXCEPT ![b % s] = x], a, b, s) = Window(ring, a, b, s)
<1> DEFINE n == Ahead16(a, b)
           new == [ring EXCEPT ![b % s] = x]
<1>1. n \in Nat /\ a \in Nat /\ b \in Nat
  BY AheadIs DEF Index
<1>2. b % s \in 0 .. s - 1
  BY <1>1
<1>3. new \in Ring(s)
  BY <1>2 DEF Ring
<1>4. \A k \in 1 .. n : (a + k - 1) % s # b % s
  <2> SUFFICES ASSUME NEW k \in 1 .. n PROVE (a + k - 1) % s # b % s
    OBVIOUS
  <2>1. /\ n - k + 1 \in 1 .. s - 1
        /\ a + k - 1 \in Nat
        /\ (a + k - 1) + (n - k + 1) = a + n
    BY <1>1
  <2>2. (a + k - 1) % s # (a + n) % s
    BY <2>1, SlotsDiffer
  <2> QED
    BY <2>2, SlotAfter
<1>5. \A k \in 1 .. n : (a + k - 1) % s \in 0 .. s - 1
  BY <1>1
<1>6. \A k \in 1 .. n : new[(a + k - 1) % s] = ring[(a + k - 1) % s]
  BY <1>4, <1>5 DEF Ring
<1>7. \A k \in 1 .. n : Window(new, a, b, s)[k] = Window(ring, a, b, s)[k]
  <2>1. \A k \in 1 .. n : /\ Window(new, a, b, s)[k] = new[(a + k - 1) % s]
                           /\ Window(ring, a, b, s)[k] = ring[(a + k - 1) % s]
    <3> HIDE DEF new
    <3> QED
      BY <1>3, WindowIs
  <2> HIDE DEF n, new
  <2> QED
    BY <1>6, <2>1
<1> QED
  BY <1>7 DEF Window

\* Moving the end by one appends the slot that was written.
LEMMA MoveEnd ==
    ASSUME NEW s \in Nat \ {0}, IndexMod % s = 0, NEW a \in Index, NEW b \in Index,
           NEW ring \in Ring(s), Ahead16(a, b) < s, s <= MaxQueue
    PROVE  Window(ring, a, Next16(b), s) = Append(Window(ring, a, b, s), ring[b % s])
<1> DEFINE n == Ahead16(a, b)
           old == Window(ring, a, b, s)
           new == Window(ring, a, Next16(b), s)
<1>0. Next16(b) \in Index
  BY NextIs
<1>1. Ahead16(a, Next16(b)) = n + 1
  <2>1. /\ n = IF a <= b THEN b - a ELSE b - a + IndexMod
        /\ Next16(b) = IF b + 1 = IndexMod THEN 0 ELSE b + 1
        /\ Ahead16(a, Next16(b)) = IF a <= Next16(b) THEN Next16(b) - a ELSE Next16(b) - a + IndexMod
    BY <1>0, AheadIs, NextIs
  <2>2. a \in 0 .. IndexMod - 1 /\ b \in 0 .. IndexMod - 1
    BY DEF Index
  <2>3. n + 1 < IndexMod
    BY <2>1, <2>2, WidthAssumption
  <2> HIDE DEF n
  <2> QED
    BY <2>1, <2>2, <2>3, WidthAssumption
<1>2. n \in Nat /\ a \in Nat /\ b \in Nat
  BY AheadIs DEF Index
<1>3. /\ old \in Seq(0 .. s - 1) /\ Len(old) = n
      /\ new \in Seq(0 .. s - 1) /\ Len(new) = n + 1
      /\ \A k \in 1 .. n : old[k] = ring[(a + k - 1) % s]
      /\ \A k \in 1 .. n + 1 : new[k] = ring[(a + k - 1) % s]
  <2>1. /\ old \in Seq(0 .. s - 1) /\ Len(old) = n
        /\ \A k \in 1 .. n : old[k] = ring[(a + k - 1) % s]
    BY WindowIs
  <2>2. /\ new \in Seq(0 .. s - 1) /\ Len(new) = Ahead16(a, Next16(b))
        /\ \A k \in 1 .. Ahead16(a, Next16(b)) : new[k] = ring[(a + k - 1) % s]
    BY <1>0, WindowIs
  <2> HIDE DEF n, old, new
  <2> QED
    BY <1>1, <2>1, <2>2
<1>4. \A k \in 1 .. n : new[k] = old[k]
  <2> SUFFICES ASSUME NEW k \in 1 .. n PROVE new[k] = old[k]
    OBVIOUS
  <2>1. k \in 1 .. n + 1
    BY <1>2
  <2> HIDE DEF n, old, new
  <2> QED
    BY <1>3, <2>1
<1>5. new[n + 1] = ring[b % s]
  <2>1. new[n + 1] = ring[(a + (n + 1) - 1) % s]
    <3>1. n + 1 \in 1 .. n + 1
      BY <1>2
    <3> HIDE DEF n, new
    <3> QED
      BY <1>3, <3>1
  <2>2. a + (n + 1) - 1 = a + n
    BY <1>2
  <2> QED
    BY <2>1, <2>2, SlotAfter
<1> HIDE DEF n, old, new
<1>6. new = Append(old, ring[b % s])
  <2> DEFINE x == ring[b % s]
  <2>1. x \in 0 .. s - 1
    BY <1>2 DEF Ring
  <2>2. new[n + 1] = x
    BY <1>5
  <2> HIDE DEF x
  <2>3. /\ Append(old, x) \in Seq(0 .. s - 1) /\ Len(Append(old, x)) = n + 1
        /\ Append(old, x)[n + 1] = x
        /\ \A k \in 1 .. n : Append(old, x)[k] = old[k]
    BY <1>3, <2>1
  <2>4. \A k \in 1 .. n + 1 : new[k] = Append(old, x)[k]
    BY <1>2, <1>4, <2>2, <2>3
  <2>5. new = Append(old, x)
    BY <1>3, <2>3, <2>4
  <2> QED
    BY <2>5 DEF x
<1> QED
  BY <1>6 DEF new, old

\* Moving the start by one takes the first entry.
LEMMA MoveStart ==
    ASSUME NEW s \in Nat \ {0}, IndexMod % s = 0, NEW a \in Index, NEW b \in Index,
           NEW ring \in Ring(s), a # b
    PROVE  /\ Window(ring, a, b, s) # << >>
           /\ Head(Window(ring, a, b, s)) = ring[a % s]
           /\ Window(ring, Next16(a), b, s) = Tail(Window(ring, a, b, s))
<1> DEFINE n == Ahead16(a, b)
           old == Window(ring, a, b, s)
           new == Window(ring, Next16(a), b, s)
<1>0. Next16(a) \in Index
  BY NextIs
<1>1. Ahead16(Next16(a), b) = n - 1 /\ n >= 1
  <2>1. /\ n = IF a <= b THEN b - a ELSE b - a + IndexMod
        /\ Next16(a) = IF a + 1 = IndexMod THEN 0 ELSE a + 1
        /\ Ahead16(Next16(a), b) = IF Next16(a) <= b THEN b - Next16(a) ELSE b - Next16(a) + IndexMod
    BY <1>0, AheadIs, NextIs
  <2>2. a \in 0 .. IndexMod - 1 /\ b \in 0 .. IndexMod - 1
    BY DEF Index
  <2> HIDE DEF n
  <2> QED
    BY <2>1, <2>2, WidthAssumption
<1>2. n \in Nat /\ a \in Nat /\ b \in Nat
  BY AheadIs DEF Index
<1>3. /\ old \in Seq(0 .. s - 1) /\ Len(old) = n
      /\ new \in Seq(0 .. s - 1) /\ Len(new) = n - 1
  BY <1>0, <1>1, WindowIs
<1>4. \A k \in 1 .. n - 1 : new[k] = old[k + 1]
  <2> SUFFICES ASSUME NEW k \in 1 .. n - 1 PROVE new[k] = old[k + 1]
    OBVIOUS
  <2>1. new[k] = ring[(Next16(a) + k - 1) % s]
    BY <1>0, <1>1, WindowIs
  <2>2. k + 1 \in 1 .. n /\ old[k + 1] = ring[(a + (k + 1) - 1) % s]
    BY <1>1, <1>2, WindowIs
  <2>3. (Next16(a) + k - 1) % s = (a + k) % s
    <3>1. CASE a + 1 # IndexMod
      BY <3>1, <1>2, NextIs
    <3>2. CASE a + 1 = IndexMod
      <4>1. Next16(a) + k - 1 = k - 1 /\ a + k = IndexMod + (k - 1)
        BY <3>2, <1>2, NextIs
      <4>2. PICK m \in Int : IndexMod = s * m
        <5>1. IndexMod \in Int
          BY WidthAssumption
        <5>2. IndexMod \div s \in Int /\ IndexMod = s * (IndexMod \div s)
          BY <5>1
        <5> QED
          BY <5>2
      <4>3. PICK j \in Int, t \in 0 .. s - 1 : k - 1 = s * j + t /\ t = (k - 1) % s
        <5>1. k - 1 \in Int
          BY <1>2
        <5> QED
          BY <5>1, Divided
      <4>4. a + k = s * (m + j) + t /\ m + j \in Int
        BY <4>1, <4>2, <4>3
      <4>5. (a + k) % s = t
        BY <4>4, RemainderIs
      <4> QED
        BY <4>1, <4>3, <4>5
    <3> QED
      BY <3>1, <3>2
  <2>4. a + (k + 1) - 1 = a + k
    BY <1>2
  <2> QED
    BY <2>1, <2>2, <2>3, <2>4
<1>5. old[1] = ring[a % s]
  <2>1. a + 1 - 1 = a
    BY <1>2
  <2> QED
    BY <1>1, <1>2, <2>1, WindowIs
<1> HIDE DEF n, old, new
<1>6. old # << >> /\ Head(old) = ring[a % s]
  BY <1>1, <1>2, <1>3, <1>5
<1>7. new = Tail(old)
  <2>1. Len(Tail(old)) = n - 1 /\ Tail(old) \in Seq(0 .. s - 1)
    BY <1>1, <1>3, <1>6
  <2>2. \A k \in 1 .. n - 1 : Tail(old)[k] = old[k + 1]
    BY <1>1, <1>3, <1>6
  <2> QED
    BY <1>3, <1>4, <2>1, <2>2
<1> QED
  BY <1>6, <1>7 DEF new, old


-----------------------------------------------------------------------------
(* How often a descriptor occurs *)

\* The places of a value in a sequence are counted by a number.
LEMMA PlacesFinite ==
    ASSUME NEW S, NEW s \in Seq(S), NEW i
    PROVE  IsFiniteSet({k \in DOMAIN s : s[k] = i}) /\ Times(s, i) \in Nat
<1>1. DOMAIN s = 1 .. Len(s) /\ Len(s) \in Nat
  OBVIOUS
<1>2. IsFiniteSet(1 .. Len(s))
  BY <1>1, FS_Interval
<1>3. IsFiniteSet({k \in DOMAIN s : s[k] = i})
  BY <1>1, <1>2, FS_Subset
<1> QED
  BY <1>3, FS_CardinalityType DEF Times

\* Appending adds one occurrence.
LEMMA TimesAppend ==
    ASSUME NEW S, NEW s \in Seq(S), NEW x \in S, NEW i
    PROVE  Times(Append(s, x), i) = Times(s, i) + (IF x = i THEN 1 ELSE 0)
<1> DEFINE n == Len(s)
           old == {k \in DOMAIN s : s[k] = i}
           new == {k \in DOMAIN Append(s, x) : Append(s, x)[k] = i}
<1>1. /\ n \in Nat /\ DOMAIN s = 1 .. n /\ DOMAIN Append(s, x) = 1 .. n + 1
      /\ Append(s, x)[n + 1] = x
      /\ \A k \in 1 .. n : Append(s, x)[k] = s[k]
  OBVIOUS
<1>2. IsFiniteSet(old) /\ n + 1 \notin old
  <2>1. IsFiniteSet(old)
    BY PlacesFinite
  <2>2. n + 1 \notin old
    BY <1>1
  <2> QED
    BY <2>1, <2>2
<1>3. new = IF x = i THEN old \cup {n + 1} ELSE old
  BY <1>1
<1>4. Cardinality(new) = Cardinality(old) + (IF x = i THEN 1 ELSE 0)
  <2>1. Cardinality(old) \in Nat
    BY <1>2, FS_CardinalityType
  <2>2. CASE x = i
    <3>1. new = old \cup {n + 1}
      BY <1>3, <2>2
    <3> HIDE DEF new, old, n
    <3>2. Cardinality(new) = Cardinality(old) + 1
      BY <1>2, <3>1, FS_AddElement
    <3> QED
      BY <2>2, <3>2
  <2>3. CASE x # i
    <3>1. new = old
      BY <1>3, <2>3
    <3> HIDE DEF new, old, n
    <3> QED
      BY <2>1, <2>3, <3>1
  <2> QED
    BY <2>2, <2>3
<1> QED
  BY <1>4 DEF Times

\* Taking the last entry removes one.
LEMMA TimesFront ==
    ASSUME NEW S, NEW s \in Seq(S), s # << >>, NEW i
    PROVE  Times(SubSeq(s, 1, Len(s) - 1), i) = Times(s, i) - (IF s[Len(s)] = i THEN 1 ELSE 0)
<1> DEFINE front == SubSeq(s, 1, Len(s) - 1)
<1>1. front \in Seq(S) /\ s[Len(s)] \in S
  OBVIOUS
<1>2. s = Append(front, s[Len(s)])
  OBVIOUS
<1>3. Times(front, i) \in Nat
  BY <1>1, PlacesFinite
<1> HIDE DEF front
<1>4. Times(s, i) = Times(front, i) + (IF s[Len(s)] = i THEN 1 ELSE 0)
  <2>1. Times(Append(front, s[Len(s)]), i) = Times(front, i) + (IF s[Len(s)] = i THEN 1 ELSE 0)
    BY <1>1, TimesAppend
  <2> QED
    BY <1>2, <2>1, Zenon
<1> QED
  BY <1>3, <1>4 DEF front

\* Taking the first entry removes one.
LEMMA TimesTail ==
    ASSUME NEW S, NEW s \in Seq(S), s # << >>, NEW i
    PROVE  Times(Tail(s), i) = Times(s, i) - (IF Head(s) = i THEN 1 ELSE 0)
<1> DEFINE n == Len(s)
           old == {k \in DOMAIN s : s[k] = i}
           late == old \ {1}
           new == {k \in DOMAIN Tail(s) : Tail(s)[k] = i}
           shift == [k \in new |-> k + 1]
<1>1. /\ n \in Nat \ {0} /\ DOMAIN s = 1 .. n /\ DOMAIN Tail(s) = 1 .. n - 1
      /\ Head(s) = s[1] /\ Tail(s) \in Seq(S)
      /\ \A k \in 1 .. n - 1 : Tail(s)[k] = s[k + 1]
  OBVIOUS
<1>2. IsFiniteSet(old) /\ IsFiniteSet(new) /\ Cardinality(new) \in Nat
  <2>1. IsFiniteSet(old) /\ IsFiniteSet(new)
    BY <1>1, PlacesFinite
  <2> HIDE DEF new
  <2> QED
    BY <2>1, FS_CardinalityType
<1>3. shift \in Bijection(new, late)
  <2>1. \A k \in new : k + 1 \in late
    BY <1>1
  <2>2. \A k \in late : k - 1 \in new /\ shift[k - 1] = k
    BY <1>1
  <2>3. \A j, k \in new : shift[j] = shift[k] => j = k
    BY <1>1
  <2>4. shift \in [new -> late]
    BY <2>1
  <2> HIDE DEF new, late, shift
  <2>5. \A k \in late : \E j \in new : shift[j] = k
    BY <2>2
  <2> QED
    BY <2>3, <2>4, <2>5 DEF IsInjective, Bijection, Injection, Surjection
<1>4. Cardinality(late) = Cardinality(new)
  <2> HIDE DEF new, late, shift
  <2> QED
    BY <1>2, <1>3, FS_Bijection DEF ExistsBijection
<1>5. 1 \in old <=> Head(s) = i
  BY <1>1
<1>6. Cardinality(late) = IF 1 \in old THEN Cardinality(old) - 1 ELSE Cardinality(old)
  <2> HIDE DEF old
  <2> QED
    BY <1>2, FS_RemoveElement
<1>7. Cardinality(old) \in Nat
  BY <1>2, FS_CardinalityType
<1>8. Cardinality(new) = Cardinality(old) - (IF Head(s) = i THEN 1 ELSE 0)
  <2> HIDE DEF new, old, late
  <2> QED
    BY <1>4, <1>5, <1>6, <1>7
<1> QED
  BY <1>8 DEF Times

\* What occurs does so at least once, and nothing else does.
LEMMA TimesZero ==
    ASSUME NEW S, NEW s \in Seq(S), NEW i
    PROVE  Times(s, i) = 0 <=> \A k \in DOMAIN s : s[k] # i
<1> DEFINE places == {k \in DOMAIN s : s[k] = i}
<1>1. IsFiniteSet(places)
  BY PlacesFinite
<1>2. Cardinality(places) = 0 <=> places = {}
  <2> HIDE DEF places
  <2> QED
    BY <1>1, FS_EmptySet
<1> QED
  BY <1>2 DEF Times

\* A value that occurs at most once has one place.
LEMMA OncePlace ==
    ASSUME NEW S, NEW s \in Seq(S), NEW j \in DOMAIN s, NEW k \in DOMAIN s, s[j] = s[k],
           Times(s, s[j]) <= 1
    PROVE  j = k
<1> DEFINE places == {l \in DOMAIN s : s[l] = s[j]}
<1> SUFFICES ASSUME j # k PROVE FALSE
  OBVIOUS
<1>1. IsFiniteSet(places) /\ Cardinality(places) <= 1 /\ j \in places /\ k \in places
  BY PlacesFinite DEF Times
<1> HIDE DEF places
<1>2. /\ IsFiniteSet(places \ {j}) /\ Cardinality(places \ {j}) = Cardinality(places) - 1
      /\ Cardinality(places) \in Nat
  BY <1>1, FS_RemoveElement, FS_CardinalityType
<1>3. Cardinality(places \ {j}) = 0
  <2>1. Cardinality(places \ {j}) \in Nat
    BY <1>2, FS_CardinalityType
  <2> QED
    BY <1>1, <1>2, <2>1
<1>4. places \ {j} = {}
  BY <1>2, <1>3, FS_EmptySet
<1> QED
  BY <1>1, <1>4

\* A sequence of different slots that misses one is shorter than the ring.
LEMMA Room ==
    ASSUME NEW n \in Nat \ {0}, NEW s \in Seq(0 .. n - 1), NEW x \in 0 .. n - 1,
           Times(s, x) = 0, \A i \in 0 .. n - 1 : Times(s, i) <= 1
    PROVE  Len(s) < n
<1> DEFINE T == (0 .. n - 1) \ {x}
<1> SUFFICES ASSUME Len(s) >= n PROVE FALSE
  OBVIOUS
<1>1. Len(s) \in Nat /\ DOMAIN s = 1 .. Len(s)
  OBVIOUS
<1>2. IsFiniteSet(1 .. Len(s)) /\ Cardinality(1 .. Len(s)) = Len(s)
  <2>1. /\ IsFiniteSet(1 .. Len(s))
        /\ Cardinality(1 .. Len(s)) = IF 1 > Len(s) THEN 0 ELSE Len(s) - 1 + 1
    BY <1>1, FS_Interval
  <2> QED
    BY <1>1, <2>1
<1>3. IsFiniteSet(T) /\ Cardinality(T) = n - 1
  <2> DEFINE I == 0 .. n - 1
  <2>1. /\ IsFiniteSet(I)
        /\ Cardinality(I) = IF 0 > n - 1 THEN 0 ELSE (n - 1) - 0 + 1
    BY FS_Interval
  <2>2. Cardinality(I) = n /\ x \in I
    BY <2>1
  <2> HIDE DEF I
  <2>3. IsFiniteSet(I \ {x}) /\ Cardinality(I \ {x}) = n - 1
    BY <2>1, <2>2, FS_RemoveElement
  <2> QED
    BY <2>3 DEF I
<1>4. \A k \in 1 .. Len(s) : s[k] \in T
  BY <1>1, TimesZero
<1>5. s \in [1 .. Len(s) -> T]
  BY <1>1, <1>4
<1>6. PICK j \in 1 .. Len(s), k \in 1 .. Len(s) : j # k /\ s[j] = s[k]
  <2> DEFINE P == 1 .. Len(s)
  <2> HIDE DEF T
  <2>1. Cardinality(T) < Cardinality(P)
    BY <1>1, <1>2, <1>3
  <2>2. IsFiniteSet(P) /\ IsFiniteSet(T) /\ s \in [P -> T]
    BY <1>2, <1>3, <1>5
  <2> HIDE DEF P
  <2>3. \E a, b \in P : a # b /\ s[a] = s[b]
    BY <2>1, <2>2, FS_PigeonHole
  <2> QED
    BY <2>3 DEF P
<1>7. s[j] \in 0 .. n - 1
  BY <1>4
<1> QED
  BY <1>1, <1>6, <1>7, OncePlace

\* How many entries the device has of a descriptor.
With(S, i) == Cardinality({e \in S : e[1] = i})

\* It is a number, and zero if there is none.
LEMMA WithNat ==
    ASSUME NEW S, IsFiniteSet(S), NEW i
    PROVE  /\ With(S, i) \in Nat
           /\ With(S, i) = 0 <=> \A e \in S : e[1] # i
<1> DEFINE part == {e \in S : e[1] = i}
<1>1. IsFiniteSet(part)
  BY FS_Subset
<1>2. Cardinality(part) \in Nat /\ (Cardinality(part) = 0 <=> part = {})
  <2> HIDE DEF part
  <2> QED
    BY <1>1, FS_CardinalityType, FS_EmptySet
<1> QED
  BY <1>2 DEF With

\* The device takes one more ...
LEMMA WithAdd ==
    ASSUME NEW S, IsFiniteSet(S), NEW e, e \notin S, NEW i
    PROVE  With(S \cup {e}, i) = With(S, i) + (IF e[1] = i THEN 1 ELSE 0)
<1> DEFINE part == {f \in S : f[1] = i}
           more == {f \in S \cup {e} : f[1] = i}
<1>1. IsFiniteSet(part) /\ e \notin part
  BY FS_Subset
<1>2. more = IF e[1] = i THEN part \cup {e} ELSE part
  OBVIOUS
<1>3. Cardinality(more) = Cardinality(part) + (IF e[1] = i THEN 1 ELSE 0)
  <2> HIDE DEF part, more
  <2>1. Cardinality(part) \in Nat
    BY <1>1, FS_CardinalityType
  <2>2. CASE e[1] = i
    <3>1. more = part \cup {e}
      BY <1>2, <2>2
    <3>2. Cardinality(more) = Cardinality(part) + 1
      BY <1>1, <3>1, FS_AddElement
    <3> QED
      BY <2>2, <3>2
  <2>3. CASE e[1] # i
    BY <1>2, <2>1, <2>3
  <2> QED
    BY <2>2, <2>3
<1> QED
  BY <1>3 DEF With

\* ... and completes one.
LEMMA WithRemove ==
    ASSUME NEW S, IsFiniteSet(S), NEW e \in S, NEW i
    PROVE  With(S \ {e}, i) = With(S, i) - (IF e[1] = i THEN 1 ELSE 0)
<1>1. IsFiniteSet(S \ {e}) /\ e \notin S \ {e} /\ S = (S \ {e}) \cup {e}
  BY FS_RemoveElement
<1>2. With(S, i) = With(S \ {e}, i) + (IF e[1] = i THEN 1 ELSE 0)
  BY <1>1, WithAdd
<1>3. With(S \ {e}, i) \in Nat
  BY <1>1, WithNat
<1> QED
  BY <1>2, <1>3

-----------------------------------------------------------------------------
(* The invariant *)

Descriptors == [addr : Requests \cup {0}]

Queues(s) == [size : {s}, freelist : Seq(0 .. s - 1), desc : [0 .. s - 1 -> Descriptors],
              avail : Ring(s), availIdx : Index, used : Ring(s), usedIdx : Index,
              last_seen : Index]

Sized(s) == s \in Nat \ {0} /\ s <= MaxQueue /\ Accepted(s) /\ IndexMod % s = 0

Types ==
    /\ Sized(q.size) /\ q \in Queues(q.size)
    /\ seen \in Index
    /\ stage \in {"none", "allocated", "written", "listed"}
    /\ filling \in Slots
    /\ popped \subseteq Slots
    /\ inflight \subseteq Slots \X Descriptors
    /\ IsFiniteSet(inflight)

\* The ring entry is there before the index moves.
Listed == stage = "listed" => q.avail[q.availIdx % q.size] = filling

\* What is published, and what is about to be, is a request.
Written ==
    /\ stage \in {"written", "listed"} => q.desc[filling] # Nothing
    /\ \A k \in DOMAIN OfferedNow : q.desc[OfferedNow[k]] # Nothing
    /\ DeviceSeesRequest

IInv == Types /\ OnePlace /\ Listed /\ Written

Being(i) == IF stage # "none" /\ filling = i THEN 1 ELSE 0
Held(i) == IF i \in popped THEN 1 ELSE 0

\* Each of the six places has a descriptor once or not at all.
Counted(i) ==
    /\ {Times(q.freelist, i), Being(i), Times(OfferedNow, i), With(inflight, i),
        Times(UsedNow, i), Held(i)} \subseteq {0, 1}
    /\ Times(q.freelist, i) + Being(i) + Times(OfferedNow, i) + With(inflight, i)
         + Times(UsedNow, i) + Held(i) = 1

\* What is offered and what is used are windows of their rings.
LEMMA Windows ==
    /\ OfferedNow = Window(q.avail, seen, q.availIdx, q.size)
    /\ UsedNow = Window(q.used, q.last_seen, q.usedIdx, q.size)
  BY DEF OfferedNow, UsedNow, OfferedAt, Window

\* The same in the next state.
LEMMA WindowsNext ==
    /\ OfferedNow' = Window(q'.avail, seen', q'.availIdx, q'.size)
    /\ UsedNow' = Window(q'.used, q'.last_seen, q'.usedIdx, q'.size)
  BY DEF OfferedNow, UsedNow, OfferedAt, Window

\* The fields of the queue.
LEMMA Fields ==
    ASSUME IInv
    PROVE  /\ Sized(q.size) /\ Slots = 0 .. q.size - 1
           /\ q.freelist \in Seq(Slots) /\ q.desc \in [Slots -> Descriptors]
           /\ q.avail \in Ring(q.size) /\ q.used \in Ring(q.size)
           /\ q.availIdx \in Index /\ q.usedIdx \in Index /\ q.last_seen \in Index
           /\ seen \in Index
  BY DEF IInv, Types, Queues, Slots

\* Both windows are sequences of descriptors.
LEMMA Sequences ==
    ASSUME IInv
    PROVE  /\ OfferedNow \in Seq(Slots) /\ Len(OfferedNow) = Ahead16(seen, q.availIdx)
           /\ UsedNow \in Seq(Slots) /\ Len(UsedNow) = Ahead16(q.last_seen, q.usedIdx)
<1>1. /\ q.size \in Nat \ {0} /\ IndexMod % q.size = 0 /\ Slots = 0 .. q.size - 1
      /\ seen \in Index /\ q.availIdx \in Index /\ q.avail \in Ring(q.size)
      /\ q.last_seen \in Index /\ q.usedIdx \in Index /\ q.used \in Ring(q.size)
  BY Fields DEF Sized
<1>0. \A r, a, b, n : n \in Nat \ {0} /\ IndexMod % n = 0 /\ a \in Index /\ b \in Index /\ r \in Ring(n)
          => /\ Window(r, a, b, n) \in Seq(0 .. n - 1)
             /\ Len(Window(r, a, b, n)) = Ahead16(a, b)
  BY WindowSeq
<1>2. /\ Window(q.avail, seen, q.availIdx, q.size) \in Seq(0 .. q.size - 1)
      /\ Len(Window(q.avail, seen, q.availIdx, q.size)) = Ahead16(seen, q.availIdx)
  BY <1>0, <1>1
<1>3. /\ Window(q.used, q.last_seen, q.usedIdx, q.size) \in Seq(0 .. q.size - 1)
      /\ Len(Window(q.used, q.last_seen, q.usedIdx, q.size)) = Ahead16(q.last_seen, q.usedIdx)
  BY <1>0, <1>1
<1> QED
  BY <1>1, <1>2, <1>3, Windows

\* OnePlace, place by place.
LEMMA PlacesCounted ==
    ASSUME IInv
    PROVE  \A i \in Slots : Counted(i)
<1> SUFFICES ASSUME NEW i \in Slots PROVE Counted(i)
  OBVIOUS
<1>1. /\ Times(q.freelist, i) \in Nat /\ Times(OfferedNow, i) \in Nat
      /\ Times(UsedNow, i) \in Nat /\ With(inflight, i) \in Nat
  BY Fields, Sequences, PlacesFinite, WithNat DEF IInv, Types
<1>2. Times(q.freelist, i) + Being(i) + Times(OfferedNow, i) + With(inflight, i)
        + Times(UsedNow, i) + Held(i) = 1
  BY DEF IInv, OnePlace, Being, Held, With
<1>3. Being(i) \in {0, 1} /\ Held(i) \in {0, 1}
  BY DEF Being, Held
<1> QED
  BY <1>1, <1>2, <1>3 DEF Counted

\* OnePlace follows from the sums.
LEMMA OnePlaceNext ==
    ASSUME \A i \in Slots' : Times(q'.freelist, i) + Being(i)' + Times(OfferedNow', i)
                               + With(inflight', i) + Times(UsedNow', i) + Held(i)' = 1
    PROVE  OnePlace'
  BY DEF OnePlace, Being, Held, With, Times

-----------------------------------------------------------------------------
(* Steps *)

\* new: every descriptor is free.
LEMMA InitIInv == Init => IInv
<1> SUFFICES ASSUME Init PROVE IInv
  OBVIOUS
<1>1. PICK s \in Sizes : Accepted(s) /\ q = NewQueue(s)
  BY DEF Init
<1>2. Sized(s)
  BY <1>1, SizesAssumption, WidthAssumption DEF Sized, Accepted
<1>3. 0 \in 0 .. s - 1 /\ 0 \in Index
  BY <1>2, WidthAssumption DEF Sized, Index
<1>4. q \in Queues(s) /\ q.size = s
  <2>1. [i \in 1 .. s |-> i - 1] \in Seq(0 .. s - 1)
    BY <1>2 DEF Sized
  <2>2. Nothing \in Descriptors
    BY DEF Nothing, Descriptors
  <2> QED
    BY <1>1, <1>3, <2>1, <2>2 DEF NewQueue, Queues, Ring
<1>5. Types
  BY <1>2, <1>3, <1>4, FS_EmptySet DEF Init, Types, Slots
<1>6. OfferedNow = << >> /\ UsedNow = << >>
  <2>1. Ahead16(0, 0) = 0
    BY <1>3, AheadIs
  <2>2. q.availIdx = 0 /\ q.usedIdx = 0 /\ q.last_seen = 0 /\ seen = 0
    BY <1>1 DEF NewQueue, Init
  <2> QED
    BY <2>1, <2>2 DEF OfferedNow, UsedNow
<1>7. OnePlace
  <2> SUFFICES ASSUME NEW i \in Slots
               PROVE  Times(q.freelist, i)
                        + (IF stage # "none" /\ filling = i THEN 1 ELSE 0)
                        + Times(OfferedNow, i)
                        + Cardinality({e \in inflight : e[1] = i})
                        + Times(UsedNow, i)
                        + (IF i \in popped THEN 1 ELSE 0) = 1
    BY DEF OnePlace
  <2>1. Times(q.freelist, i) = 1
    <3>1. q.freelist = [k \in 1 .. s |-> k - 1] /\ i \in 0 .. s - 1 /\ s \in Nat
      BY <1>1, <1>2, <1>4 DEF NewQueue, Slots, Sized
    <3>2. {k \in DOMAIN q.freelist : q.freelist[k] = i} = {i + 1}
      BY <3>1
    <3> QED
      BY <3>2, FS_Singleton DEF Times
  <2>2. Times(<< >>, i) = 0
    <3>1. {k \in DOMAIN << >> : << >>[k] = i} = {}
      OBVIOUS
    <3> QED
      BY <3>1, FS_EmptySet DEF Times
  <2>3. Cardinality({e \in inflight : e[1] = i}) = 0
    <3>1. {e \in inflight : e[1] = i} = {}
      BY DEF Init
    <3> QED
      BY <3>1, FS_EmptySet
  <2> QED
    BY <1>6, <2>1, <2>2, <2>3 DEF Init
<1>8. Listed /\ Written
  BY <1>6 DEF Init, Listed, Written, DeviceSeesRequest
<1> QED
  BY <1>5, <1>7, <1>8 DEF IInv

\* Allocate: the last free descriptor is being filled.
LEMMA AllocateStep ==
    ASSUME IInv, Allocate
    PROVE  IInv' /\ OfferedNow' = OfferedNow /\ UsedNow' = UsedNow
<1> DEFINE f == q.freelist
           x == f[Len(f)]
<1>1. /\ f \in Seq(Slots) /\ f # << >> /\ x \in Slots /\ SubSeq(f, 1, Len(f) - 1) \in Seq(Slots)
  <2>1. f \in Seq(Slots) /\ f # << >>
    BY Fields DEF Allocate, CanAlloc
  <2> HIDE DEF f
  <2> QED
    BY <2>1
<1>2. /\ q' = [q EXCEPT !.freelist = SubSeq(f, 1, Len(f) - 1)]
      /\ filling' = x /\ stage = "none" /\ stage' = "allocated"
      /\ UNCHANGED <<popped, seen, inflight>>
  BY DEF Allocate, Allocated, alloc_descriptor
<1>3. /\ q' \in Queues(q.size) /\ q'.size = q.size /\ q'.desc = q.desc
      /\ q'.freelist = SubSeq(f, 1, Len(f) - 1)
      /\ q'.avail = q.avail /\ q'.availIdx = q.availIdx
      /\ q'.used = q.used /\ q'.usedIdx = q.usedIdx /\ q'.last_seen = q.last_seen
  BY <1>1, <1>2 DEF IInv, Types, Queues, Slots
<1>4. Slots' = Slots /\ OfferedNow' = OfferedNow /\ UsedNow' = UsedNow
  BY <1>2, <1>3, Windows, WindowsNext DEF Slots
<1>5. Types'
  BY <1>1, <1>2, <1>3, <1>4 DEF IInv, Types
<1>6. OnePlace'
  <2> SUFFICES ASSUME NEW i \in Slots
               PROVE  Times(q'.freelist, i) + Being(i)' + Times(OfferedNow', i)
                        + With(inflight', i) + Times(UsedNow', i) + Held(i)' = 1
    BY <1>4, OnePlaceNext
  <2>1. Times(q'.freelist, i) = Times(f, i) - (IF x = i THEN 1 ELSE 0)
    BY <1>1, <1>3, TimesFront
  <2>2. Being(i) = 0 /\ Being(i)' = (IF x = i THEN 1 ELSE 0) /\ Held(i)' = Held(i)
    BY <1>2 DEF Being, Held
  <2>3. Counted(i)
    BY PlacesCounted
  <2> HIDE DEF f, x
  <2>4. With(inflight', i) = With(inflight, i)
    BY <1>2
  <2> QED
    BY <1>4, <2>1, <2>2, <2>3, <2>4 DEF Counted, f
<1>7. (Listed /\ Written)'
  BY <1>2, <1>3, <1>4 DEF IInv, Listed, Written, DeviceSeesRequest
<1> QED
  BY <1>4, <1>5, <1>6, <1>7 DEF IInv

\* Write: only the descriptor that is being filled changes.
LEMMA WriteStep ==
    ASSUME IInv, NEW request \in Requests, Write(request)
    PROVE  IInv' /\ OfferedNow' = OfferedNow /\ UsedNow' = UsedNow
<1>1. [addr |-> request] \in Descriptors /\ [addr |-> request] # Nothing
  BY SizesAssumption DEF Descriptors, Nothing
<1>2. /\ q' = [q EXCEPT !.desc[filling] = [addr |-> request]]
      /\ stage = "allocated" /\ stage' = "written"
      /\ UNCHANGED <<filling, popped, seen, inflight>>
  BY DEF Write, WriteDescriptor
<1>3. /\ q' \in Queues(q.size) /\ q'.size = q.size /\ q'.freelist = q.freelist
      /\ q'.desc = [q.desc EXCEPT ![filling] = [addr |-> request]]
      /\ q'.avail = q.avail /\ q'.availIdx = q.availIdx
      /\ q'.used = q.used /\ q'.usedIdx = q.usedIdx /\ q'.last_seen = q.last_seen
  BY <1>1, <1>2 DEF IInv, Types, Queues, Slots
<1>4. Slots' = Slots /\ OfferedNow' = OfferedNow /\ UsedNow' = UsedNow
  BY <1>2, <1>3, Windows, WindowsNext DEF Slots
<1>5. Types'
  BY <1>2, <1>3, <1>4 DEF IInv, Types
<1>6. OnePlace'
  BY <1>2, <1>3, <1>4 DEF IInv, OnePlace
<1>7. filling \in Slots /\ Counted(filling) /\ Being(filling) = 1
  BY <1>2, PlacesCounted DEF IInv, Types, Being
<1>8. Times(OfferedNow, filling) = 0 /\ With(inflight, filling) = 0
  BY <1>7 DEF Counted
<1>9. /\ \A k \in DOMAIN OfferedNow : OfferedNow[k] # filling /\ OfferedNow[k] \in Slots
      /\ \A e \in inflight : e[1] # filling /\ e[1] \in Slots
  BY <1>8, Sequences, TimesZero, WithNat DEF IInv, Types
<1>10. (Listed /\ Written)'
  BY <1>1, <1>2, <1>3, <1>4, <1>7, <1>9, Fields DEF IInv, Listed, Written, DeviceSeesRequest
<1> QED
  BY <1>4, <1>5, <1>6, <1>10 DEF IInv

\* While a descriptor is being filled, the ring has room for it.
LEMMA RoomToList ==
    ASSUME IInv, stage # "none"
    PROVE  Ahead16(seen, q.availIdx) < q.size
<1>1. filling \in Slots /\ Counted(filling) /\ Being(filling) = 1
  BY PlacesCounted DEF IInv, Types, Being
<1>2. Times(OfferedNow, filling) = 0
  BY <1>1 DEF Counted
<1>3. \A i \in Slots : Times(OfferedNow, i) <= 1
  BY PlacesCounted DEF Counted
<1> QED
  <2>1. q.size \in Nat \ {0} /\ Slots = 0 .. q.size - 1
    BY Fields DEF Sized
  <2>2. OfferedNow \in Seq(0 .. q.size - 1) /\ Len(OfferedNow) = Ahead16(seen, q.availIdx)
    BY <2>1, Sequences
  <2>3. Len(OfferedNow) < q.size
    BY <1>1, <1>2, <1>3, <2>1, <2>2, Room
  <2> QED
    BY <2>2, <2>3

\* List: the slot that is written is behind the last one offered.
LEMMA ListStep ==
    ASSUME IInv, List
    PROVE  IInv' /\ OfferedNow' = OfferedNow /\ UsedNow' = UsedNow
<1> DEFINE slot == q.availIdx % q.size
<1>1. /\ q' = [q EXCEPT !.avail[slot] = filling]
      /\ stage = "written" /\ stage' = "listed"
      /\ UNCHANGED <<filling, popped, seen, inflight>>
  BY DEF List, PushRing
<1>2. slot \in 0 .. q.size - 1 /\ filling \in 0 .. q.size - 1
  <2>1. q.size \in Nat \ {0} /\ q.availIdx \in Nat
    BY Fields DEF Sized, Index
  <2> QED
    BY <2>1 DEF IInv, Types, Slots
<1> HIDE DEF slot
<1>3. [q.avail EXCEPT ![slot] = filling] \in Ring(q.size)
  BY <1>2, Fields DEF Ring
<1>4. /\ q' \in Queues(q.size) /\ q'.size = q.size /\ q'.freelist = q.freelist
      /\ q'.desc = q.desc
      /\ q'.avail = [q.avail EXCEPT ![slot] = filling] /\ q'.availIdx = q.availIdx
      /\ q'.used = q.used /\ q'.usedIdx = q.usedIdx /\ q'.last_seen = q.last_seen
  BY <1>1, <1>3 DEF IInv, Types, Queues
<1>5. Slots' = Slots /\ UsedNow' = UsedNow
  BY <1>1, <1>4, Windows, WindowsNext DEF Slots
<1>6. OfferedNow' = OfferedNow
  <2>1. Window(q'.avail, seen, q.availIdx, q.size) = Window(q.avail, seen, q.availIdx, q.size)
    <3>1. /\ q.size \in Nat \ {0} /\ IndexMod % q.size = 0
          /\ seen \in Index /\ q.availIdx \in Index /\ q.avail \in Ring(q.size)
      BY Fields DEF Sized
    <3>2. Ahead16(seen, q.availIdx) < q.size
      BY <1>1, RoomToList
    <3>3. Window([q.avail EXCEPT ![q.availIdx % q.size] = filling], seen, q.availIdx, q.size)
            = Window(q.avail, seen, q.availIdx, q.size)
      BY <1>2, <3>1, <3>2, WriteBehind
    <3> QED
      BY <1>4, <3>3 DEF slot
  <2> QED
    BY <1>1, <1>4, <2>1, Windows, WindowsNext
<1>7. Types'
  BY <1>1, <1>4, <1>5 DEF IInv, Types
<1>8. OnePlace'
  BY <1>1, <1>4, <1>5, <1>6 DEF IInv, OnePlace
<1>9. (Listed /\ Written)'
  <2>1. q'.avail[slot] = filling
    BY <1>2, <1>4, Fields DEF Ring
  <2> QED
    BY <1>1, <1>4, <1>6, <2>1 DEF IInv, Listed, Written, DeviceSeesRequest, slot
<1> QED
  BY <1>5, <1>6, <1>7, <1>8, <1>9 DEF IInv

\* Publish: the descriptor is the last one offered.
LEMMA PublishStep ==
    ASSUME IInv, Publish
    PROVE  IInv' /\ OfferedNow' = Append(OfferedNow, filling) /\ UsedNow' = UsedNow
<1>1. /\ q' = [q EXCEPT !.availIdx = Next16(q.availIdx)]
      /\ stage = "listed" /\ stage' = "none" /\ filling' = 0
      /\ UNCHANGED <<popped, seen, inflight>>
  BY DEF Publish, PushIndex
<1>2. /\ q' \in Queues(q.size) /\ q'.size = q.size /\ q'.freelist = q.freelist
      /\ q'.desc = q.desc
      /\ q'.avail = q.avail /\ q'.availIdx = Next16(q.availIdx)
      /\ q'.used = q.used /\ q'.usedIdx = q.usedIdx /\ q'.last_seen = q.last_seen
  BY <1>1, Fields, NextIs DEF IInv, Types, Queues
<1>3. Slots' = Slots /\ UsedNow' = UsedNow
  BY <1>1, <1>2, Windows, WindowsNext DEF Slots
<1>4. OfferedNow' = Append(OfferedNow, filling)
  <2>1. q.avail[q.availIdx % q.size] = filling
    BY <1>1 DEF IInv, Listed
  <2>2. Window(q.avail, seen, Next16(q.availIdx), q.size) =
          Append(Window(q.avail, seen, q.availIdx, q.size), q.avail[q.availIdx % q.size])
    BY <1>1, Fields, RoomToList, MoveEnd DEF Sized
  <2> QED
    BY <1>1, <1>2, <2>1, <2>2, Windows, WindowsNext
<1>5. Types'
  <2>1. 0 \in Slots
    BY Fields DEF Sized
  <2> QED
    BY <1>1, <1>2, <1>3, <2>1 DEF IInv, Types
<1>6. OnePlace'
  <2> SUFFICES ASSUME NEW i \in Slots
               PROVE  Times(q'.freelist, i) + Being(i)' + Times(OfferedNow', i)
                        + With(inflight', i) + Times(UsedNow', i) + Held(i)' = 1
    BY <1>3, OnePlaceNext
  <2>1. Times(Append(OfferedNow, filling), i) = Times(OfferedNow, i) + (IF filling = i THEN 1 ELSE 0)
    BY Sequences, TimesAppend DEF IInv, Types
  <2>2. Being(i) = (IF filling = i THEN 1 ELSE 0) /\ Being(i)' = 0 /\ Held(i)' = Held(i)
    BY <1>1 DEF Being, Held
  <2>3. Counted(i)
    BY PlacesCounted
  <2>4. /\ With(inflight', i) = With(inflight, i)
        /\ Times(q'.freelist, i) = Times(q.freelist, i)
        /\ Times(UsedNow', i) = Times(UsedNow, i)
        /\ Times(OfferedNow', i) = Times(OfferedNow, i) + (IF filling = i THEN 1 ELSE 0)
    BY <1>1, <1>2, <1>3, <1>4, <2>1
  <2> QED
    BY <2>2, <2>3, <2>4 DEF Counted
<1>7. (Listed /\ Written)'
  <2>1. \A k \in DOMAIN Append(OfferedNow, filling) :
           \/ k \in DOMAIN OfferedNow /\ Append(OfferedNow, filling)[k] = OfferedNow[k]
           \/ Append(OfferedNow, filling)[k] = filling
    BY Sequences
  <2> QED
    BY <1>1, <1>2, <1>4, <2>1 DEF IInv, Listed, Written, DeviceSeesRequest
<1> QED
  BY <1>3, <1>4, <1>5, <1>6, <1>7 DEF IInv

\* PopUsed: the first used descriptor is the driver's.
LEMMA PopUsedStep ==
    ASSUME IInv, PopUsed
    PROVE  /\ IInv' /\ OfferedNow' = OfferedNow
           /\ UsedNow # << >> /\ UsedNow' = Tail(UsedNow)
<1> DEFINE x == q.used[q.last_seen % q.size]
<1>1. /\ q' = [q EXCEPT !.last_seen = Next16(q.last_seen)]
      /\ popped' = popped \cup {x} /\ q.last_seen # q.usedIdx
      /\ UNCHANGED <<filling, stage, seen, inflight>>
  BY DEF PopUsed, Popped, Pop, HasUsed
<1>2. /\ q' \in Queues(q.size) /\ q'.size = q.size /\ q'.freelist = q.freelist
      /\ q'.desc = q.desc
      /\ q'.avail = q.avail /\ q'.availIdx = q.availIdx
      /\ q'.used = q.used /\ q'.usedIdx = q.usedIdx /\ q'.last_seen = Next16(q.last_seen)
  BY <1>1, Fields, NextIs DEF IInv, Types, Queues
<1>3. Slots' = Slots /\ OfferedNow' = OfferedNow
  BY <1>1, <1>2, Windows, WindowsNext DEF Slots
<1>4. UsedNow # << >> /\ Head(UsedNow) = x /\ UsedNow' = Tail(UsedNow)
  <2>1. LET w == Window(q.used, q.last_seen, q.usedIdx, q.size)
        IN  /\ w # << >> /\ Head(w) = x
            /\ Window(q.used, Next16(q.last_seen), q.usedIdx, q.size) = Tail(w)
    BY <1>1, Fields, MoveStart DEF Sized
  <2> QED
    BY <1>1, <1>2, <2>1, Windows, WindowsNext
<1> HIDE DEF x
<1>5. x \in Slots /\ Times(UsedNow, x) # 0
  <2>1. 1 \in DOMAIN UsedNow /\ UsedNow[1] = x /\ x \in Slots
    BY <1>4, Sequences
  <2> QED
    BY <2>1, Sequences, TimesZero
<1>6. Held(x) = 0
  BY <1>5, PlacesCounted DEF Counted
<1>7. Types'
  BY <1>1, <1>2, <1>3, <1>5 DEF IInv, Types
<1>8. OnePlace'
  <2> SUFFICES ASSUME NEW i \in Slots
               PROVE  Times(q'.freelist, i) + Being(i)' + Times(OfferedNow', i)
                        + With(inflight', i) + Times(UsedNow', i) + Held(i)' = 1
    BY <1>3, OnePlaceNext
  <2>1. Times(UsedNow', i) = Times(UsedNow, i) - (IF x = i THEN 1 ELSE 0)
    BY <1>4, Sequences, TimesTail
  <2>2. Being(i)' = Being(i) /\ Held(i)' = Held(i) + (IF x = i THEN 1 ELSE 0)
    BY <1>1, <1>6 DEF Being, Held
  <2>3. Counted(i)
    BY PlacesCounted
  <2>4. /\ With(inflight', i) = With(inflight, i)
        /\ Times(q'.freelist, i) = Times(q.freelist, i)
        /\ Times(OfferedNow', i) = Times(OfferedNow, i)
    BY <1>1, <1>2, <1>3
  <2> QED
    BY <2>1, <2>2, <2>3, <2>4 DEF Counted
<1>9. (Listed /\ Written)'
  BY <1>1, <1>2, <1>3 DEF IInv, Listed, Written, DeviceSeesRequest
<1> QED
  BY <1>3, <1>4, <1>7, <1>8, <1>9 DEF IInv

\* Release: a popped descriptor is free again.
LEMMA ReleaseStep ==
    ASSUME IInv, NEW x \in popped, Release(x)
    PROVE  IInv' /\ OfferedNow' = OfferedNow /\ UsedNow' = UsedNow
<1>0. x \in Slots /\ q.freelist \in Seq(Slots) /\ Append(q.freelist, x) \in Seq(Slots)
  <2>1. x \in Slots /\ q.freelist \in Seq(Slots)
    BY Fields DEF IInv, Types
  <2> QED
    BY <2>1
<1>1. /\ q' = [q EXCEPT !.freelist = Append(q.freelist, x)]
      /\ popped' = popped \ {x}
      /\ UNCHANGED <<filling, stage, seen, inflight>>
  BY DEF Release, free_descriptor
<1>2. /\ q' \in Queues(q.size) /\ q'.size = q.size /\ q'.freelist = Append(q.freelist, x)
      /\ q'.desc = q.desc
      /\ q'.avail = q.avail /\ q'.availIdx = q.availIdx
      /\ q'.used = q.used /\ q'.usedIdx = q.usedIdx /\ q'.last_seen = q.last_seen
  BY <1>0, <1>1 DEF IInv, Types, Queues, Slots
<1>3. Slots' = Slots /\ OfferedNow' = OfferedNow /\ UsedNow' = UsedNow
  BY <1>1, <1>2, Windows, WindowsNext DEF Slots
<1>4. Types'
  BY <1>1, <1>2, <1>3 DEF IInv, Types
<1>5. OnePlace'
  <2> SUFFICES ASSUME NEW i \in Slots
               PROVE  Times(q'.freelist, i) + Being(i)' + Times(OfferedNow', i)
                        + With(inflight', i) + Times(UsedNow', i) + Held(i)' = 1
    BY <1>3, OnePlaceNext
  <2>1. Times(q'.freelist, i) = Times(q.freelist, i) + (IF x = i THEN 1 ELSE 0)
    BY <1>0, <1>2, TimesAppend
  <2>2. Being(i)' = Being(i) /\ Held(i)' = Held(i) - (IF x = i THEN 1 ELSE 0)
    BY <1>1 DEF Being, Held
  <2>3. Counted(i)
    BY PlacesCounted
  <2>4. /\ With(inflight', i) = With(inflight, i)
        /\ Times(OfferedNow', i) = Times(OfferedNow, i)
        /\ Times(UsedNow', i) = Times(UsedNow, i)
    BY <1>1, <1>3
  <2> QED
    BY <2>1, <2>2, <2>3, <2>4 DEF Counted
<1>6. (Listed /\ Written)'
  BY <1>1, <1>2, <1>3 DEF IInv, Listed, Written, DeviceSeesRequest
<1> QED
  BY <1>3, <1>4, <1>5, <1>6 DEF IInv

\* DeviceTake: the first descriptor offered is the device's, as it was written.
LEMMA DeviceTakeStep ==
    ASSUME IInv, DeviceTake
    PROVE  /\ IInv' /\ UsedNow' = UsedNow
           /\ OfferedNow # << >> /\ OfferedNow' = Tail(OfferedNow)
           /\ inflight' = inflight \cup {<<Head(OfferedNow), q.desc[Head(OfferedNow)]>>}
<1> DEFINE x == q.avail[seen % q.size]
           e == <<x, q.desc[x]>>
<1>1. /\ inflight' = inflight \cup {e}
      /\ seen' = Next16(seen) /\ seen # q.availIdx
      /\ UNCHANGED <<q, filling, stage, popped>>
  BY DEF DeviceTake, Offered, OfferedAt
<1>2. Slots' = Slots /\ UsedNow' = UsedNow
  BY <1>1, Windows, WindowsNext DEF Slots
<1>3. OfferedNow # << >> /\ Head(OfferedNow) = x /\ OfferedNow' = Tail(OfferedNow)
  <2>1. LET w == Window(q.avail, seen, q.availIdx, q.size)
        IN  /\ w # << >> /\ Head(w) = x
            /\ Window(q.avail, Next16(seen), q.availIdx, q.size) = Tail(w)
    BY <1>1, Fields, MoveStart DEF Sized
  <2> QED
    BY <1>1, <2>1, Windows, WindowsNext
<1> HIDE DEF x
<1>4. 1 \in DOMAIN OfferedNow /\ OfferedNow[1] = x /\ x \in Slots
  BY <1>3, Sequences
<1>5. Times(OfferedNow, x) # 0
  BY <1>4, Sequences, TimesZero
<1>6. With(inflight, x) = 0
  BY <1>4, <1>5, PlacesCounted DEF Counted
<1>7. IsFiniteSet(inflight) /\ e \notin inflight /\ e[1] = x
  BY <1>6, WithNat DEF IInv, Types
<1>8. q.desc[x] \in Descriptors /\ q.desc[x] # Nothing
  BY <1>4, Fields DEF IInv, Written
<1>9. Types'
  <2>1. IsFiniteSet(inflight \cup {e})
    BY <1>7, FS_AddElement
  <2>2. seen' \in Index
    BY <1>1, Fields, NextIs
  <2> QED
    BY <1>1, <1>2, <1>4, <1>8, <2>1, <2>2 DEF IInv, Types
<1>10. OnePlace'
  <2> SUFFICES ASSUME NEW i \in Slots
               PROVE  Times(q'.freelist, i) + Being(i)' + Times(OfferedNow', i)
                        + With(inflight', i) + Times(UsedNow', i) + Held(i)' = 1
    BY <1>2, OnePlaceNext
  <2>1. Times(OfferedNow', i) = Times(OfferedNow, i) - (IF x = i THEN 1 ELSE 0)
    BY <1>3, Sequences, TimesTail
  <2>2. Being(i)' = Being(i) /\ Held(i)' = Held(i)
    BY <1>1 DEF Being, Held
  <2>3. Counted(i)
    BY PlacesCounted
  <2>4. With(inflight', i) = With(inflight, i) + (IF x = i THEN 1 ELSE 0)
    <3>1. With(inflight \cup {e}, i) = With(inflight, i) + (IF e[1] = i THEN 1 ELSE 0)
      <4> HIDE DEF e
      <4> QED
        BY <1>7, WithAdd
    <3> QED
      BY <1>1, <1>7, <3>1
  <2>5. /\ Times(q'.freelist, i) = Times(q.freelist, i)
        /\ Times(UsedNow', i) = Times(UsedNow, i)
    BY <1>1, <1>2
  <2> QED
    BY <2>1, <2>2, <2>3, <2>4, <2>5 DEF Counted
<1>11. (Listed /\ Written)'
  <2>1. \A k \in DOMAIN Tail(OfferedNow) :
           k + 1 \in DOMAIN OfferedNow /\ Tail(OfferedNow)[k] = OfferedNow[k + 1]
    BY <1>3, Sequences
  <2>2. \A k \in DOMAIN Tail(OfferedNow) : q.desc[Tail(OfferedNow)[k]] # Nothing
    BY <2>1 DEF IInv, Written
  <2>3. DeviceSeesRequest'
    BY <1>1, <1>8 DEF IInv, Written, DeviceSeesRequest
  <2> QED
    BY <1>1, <1>3, <2>2, <2>3 DEF IInv, Listed, Written
<1> QED
  BY <1>1, <1>2, <1>3, <1>9, <1>10, <1>11 DEF IInv

\* What the device works on is not in the used ring, which so has room for it.
LEMMA RoomToUse ==
    ASSUME IInv, NEW e \in inflight
    PROVE  Ahead16(q.last_seen, q.usedIdx) < q.size
<1>1. e[1] \in Slots /\ With(inflight, e[1]) # 0
  BY WithNat DEF IInv, Types
<1>2. Times(UsedNow, e[1]) = 0
  BY <1>1, PlacesCounted DEF Counted
<1>3. \A i \in Slots : Times(UsedNow, i) <= 1
  BY PlacesCounted DEF Counted
<1>4. q.size \in Nat \ {0} /\ Slots = 0 .. q.size - 1
  BY Fields DEF Sized
<1>5. UsedNow \in Seq(0 .. q.size - 1) /\ Len(UsedNow) = Ahead16(q.last_seen, q.usedIdx)
  BY <1>4, Sequences
<1>6. Len(UsedNow) < q.size
  BY <1>1, <1>2, <1>3, <1>4, <1>5, Room
<1> QED
  BY <1>5, <1>6

\* DeviceComplete: the descriptor is the last one used.
LEMMA DeviceCompleteStep ==
    ASSUME IInv, NEW e \in inflight, DeviceComplete(e)
    PROVE  /\ IInv' /\ OfferedNow' = OfferedNow /\ UsedNow' = Append(UsedNow, e[1])
           /\ inflight' = inflight \ {e}
<1> DEFINE slot == q.usedIdx % q.size
           x == e[1]
           ring == [q.used EXCEPT ![slot] = x]
<1>1. /\ q' = [q EXCEPT !.used[slot] = x, !.usedIdx = Next16(q.usedIdx)]
      /\ inflight' = inflight \ {e}
      /\ UNCHANGED <<filling, stage, popped, seen>>
  BY DEF DeviceComplete, Complete
<1>2. slot \in 0 .. q.size - 1 /\ x \in Slots /\ x \in 0 .. q.size - 1
  <2>1. q.size \in Nat \ {0} /\ q.usedIdx \in Nat
    BY Fields DEF Sized, Index
  <2> QED
    BY <2>1 DEF IInv, Types, Slots
<1> HIDE DEF slot, x
<1>3. ring \in Ring(q.size) /\ ring[slot] = x
  BY <1>2, Fields DEF Ring
<1>4. /\ q' \in Queues(q.size) /\ q'.size = q.size /\ q'.freelist = q.freelist
      /\ q'.desc = q.desc
      /\ q'.avail = q.avail /\ q'.availIdx = q.availIdx
      /\ q'.used = ring /\ q'.usedIdx = Next16(q.usedIdx) /\ q'.last_seen = q.last_seen
  BY <1>1, <1>3, Fields, NextIs DEF IInv, Types, Queues
<1>5. Slots' = Slots /\ OfferedNow' = OfferedNow
  BY <1>1, <1>4, Windows, WindowsNext DEF Slots
<1>6. UsedNow' = Append(UsedNow, x)
  <2>1. /\ q.size \in Nat \ {0} /\ IndexMod % q.size = 0 /\ q.size <= MaxQueue
        /\ q.last_seen \in Index /\ q.usedIdx \in Index /\ q.used \in Ring(q.size)
    BY Fields DEF Sized
  <2>2. Ahead16(q.last_seen, q.usedIdx) < q.size
    BY RoomToUse
  <2>3. Window(ring, q.last_seen, q.usedIdx, q.size) = Window(q.used, q.last_seen, q.usedIdx, q.size)
    BY <1>2, <2>1, <2>2, WriteBehind DEF slot
  <2>4. Window(ring, q.last_seen, Next16(q.usedIdx), q.size) =
          Append(Window(ring, q.last_seen, q.usedIdx, q.size), ring[slot])
    <3> HIDE DEF ring
    <3> QED
      BY <1>3, <2>1, <2>2, MoveEnd DEF slot
  <2> QED
    BY <1>3, <1>4, <2>3, <2>4, Windows, WindowsNext
<1> HIDE DEF ring
<1>7. IsFiniteSet(inflight) /\ IsFiniteSet(inflight \ {e})
  BY FS_RemoveElement DEF IInv, Types
<1>8. Types'
  BY <1>1, <1>4, <1>5, <1>7 DEF IInv, Types
<1>9. OnePlace'
  <2> SUFFICES ASSUME NEW i \in Slots
               PROVE  Times(q'.freelist, i) + Being(i)' + Times(OfferedNow', i)
                        + With(inflight', i) + Times(UsedNow', i) + Held(i)' = 1
    BY <1>5, OnePlaceNext
  <2>1. Times(UsedNow', i) = Times(UsedNow, i) + (IF x = i THEN 1 ELSE 0)
    BY <1>2, <1>6, Sequences, TimesAppend
  <2>2. Being(i)' = Being(i) /\ Held(i)' = Held(i)
    BY <1>1 DEF Being, Held
  <2>3. Counted(i)
    BY PlacesCounted
  <2>4. With(inflight', i) = With(inflight, i) - (IF x = i THEN 1 ELSE 0)
    BY <1>1, <1>7, WithRemove DEF x
  <2>5. /\ Times(q'.freelist, i) = Times(q.freelist, i)
        /\ Times(OfferedNow', i) = Times(OfferedNow, i)
    BY <1>4, <1>5
  <2> QED
    BY <2>1, <2>2, <2>3, <2>4, <2>5 DEF Counted
<1>10. (Listed /\ Written)'
  BY <1>1, <1>4, <1>5 DEF IInv, Listed, Written, DeviceSeesRequest
<1> QED
  BY <1>1, <1>5, <1>6, <1>8, <1>9, <1>10 DEF IInv, x

\* Every step of the driver and of the device preserves the invariant.
LEMMA NextIInv == IInv /\ [Next]_vars => IInv'
<1> SUFFICES ASSUME IInv, [Next]_vars PROVE IInv'
  OBVIOUS
<1>1. CASE UNCHANGED vars
  <2>1. OfferedNow' = OfferedNow /\ UsedNow' = UsedNow /\ Slots' = Slots
    BY <1>1, Windows, WindowsNext DEF vars, Slots
  <2> QED
    BY <1>1, <2>1
    DEF vars, IInv, Types, OnePlace, Listed, Written, DeviceSeesRequest
<1> QED
  BY <1>1, AllocateStep, WriteStep, ListStep, PublishStep, PopUsedStep, ReleaseStep,
     DeviceTakeStep, DeviceCompleteStep
  DEF Next

-----------------------------------------------------------------------------
(* The theorems *)

\* The inductive invariant: sizes and widths, every descriptor in one place, a
\* ring entry before its index, and requests in all that is offered.
THEOREM IInvHolds == Spec => []IInv
  BY InitIInv, NextIInv, PTL DEF Spec

\* alloc, free, push and pop lose no descriptor and double none, however often
\* the indices wrap, for every size that new accepts.
THEOREM QueueAlwaysSound == Spec => []QueueSound
<1>1. IInv => QueueSound
  BY Fields, WidthAssumption DEF IInv, Types, QueueSound, TypeOK, Sized, Index
<1> QED
  BY <1>1, IInvHolds, PTL

\* The device never works on a descriptor that is half written, or written again.
THEOREM DeviceAlwaysSeesRequest == Spec => []DeviceSeesRequest
<1>1. IInv => DeviceSeesRequest
  BY DEF IInv, Written
<1> QED
  BY <1>1, IInvHolds, PTL

-----------------------------------------------------------------------------
(* The refinement *)

Idle == {i \in Slots : \/ i \in popped
                       \/ stage # "none" /\ filling = i
                       \/ \E k \in DOMAIN q.freelist : q.freelist[k] = i}

\* What is in none of the device's places.
Unused == {i \in Slots : Times(OfferedNow, i) + With(inflight, i) + Times(UsedNow, i) = 0}

IdleIsUnused == Idle = Unused

\* A descriptor is idle when it is in none of the device's places.
LEMMA IdleIs == IInv => IdleIsUnused
<1> SUFFICES ASSUME IInv, NEW i \in Slots
             PROVE  (\/ i \in popped
                     \/ stage # "none" /\ filling = i
                     \/ \E k \in DOMAIN q.freelist : q.freelist[k] = i)
                      <=> Times(OfferedNow, i) + With(inflight, i) + Times(UsedNow, i) = 0
  BY DEF Idle, Unused, IdleIsUnused
<1>1. Counted(i)
  BY PlacesCounted
<1>2. Times(q.freelist, i) = 0 <=> ~ \E k \in DOMAIN q.freelist : q.freelist[k] = i
  BY Fields, TimesZero
<1>3. /\ Being(i) = (IF stage # "none" /\ filling = i THEN 1 ELSE 0)
      /\ Held(i) = (IF i \in popped THEN 1 ELSE 0)
  BY DEF Being, Held
<1> QED
  BY <1>1, <1>2, <1>3 DEF Counted

\* The same in the next state.
LEMMA IdleNext == IInv' => IdleIsUnused'
  BY IdleIs, PTL

\* Fresh queues are RequestQueue's: nothing is posted, all that is idle is a token.
LEMMA InitImplements == Init => Abstract!Init
<1> SUFFICES ASSUME Init PROVE Abstract!Init
  OBVIOUS
<1>1. IInv
  BY InitIInv
<1>2. Slots \subseteq 0 .. MaxQueue - 1
  BY <1>1, Fields, WidthAssumption DEF Sized
<1>3. PICK s \in Sizes : Accepted(s) /\ q = NewQueue(s)
  BY DEF Init
<1>4. q.availIdx = 0 /\ q.usedIdx = 0 /\ q.last_seen = 0 /\ seen = 0 /\ inflight = {}
  BY <1>3 DEF NewQueue, Init
<1>5. Len(OfferedNow) = 0 /\ Len(UsedNow) = 0
  BY <1>1, <1>4, Sequences, Fields, AheadIs
<1>6. OfferedNow = << >> /\ UsedNow = << >>
  BY <1>1, <1>5, Sequences
<1> QED
  BY <1>2, <1>4, <1>6 DEF Abstract!Init

\* What a step leaves of the three places of the device leaves the idle ones.
LEMMA SameIdle ==
    ASSUME IInv, IInv', Slots' = Slots,
           \A i \in Slots : Times(OfferedNow', i) + With(inflight', i) + Times(UsedNow', i)
                            = Times(OfferedNow, i) + With(inflight, i) + Times(UsedNow, i)
    PROVE  Idle' = Idle
  BY IdleIs, IdleNext DEF IdleIsUnused, Unused

\* Every step of the rings posts, takes, completes or collects a request, or is
\* the driver's own.
LEMMA NextImplements == IInv /\ [Next]_vars => [Abstract!Next]_(Abstract!vars)
<1> SUFFICES ASSUME IInv, [Next]_vars PROVE [Abstract!Next]_(Abstract!vars)
  OBVIOUS
<1>0. IInv'
  BY NextIInv
<1>1. CASE UNCHANGED vars
  BY <1>1, Windows, WindowsNext DEF vars, Slots, Abstract!vars
<1>2. ASSUME \/ Allocate
             \/ \E request \in Requests : Write(request)
             \/ List
             \/ \E x \in popped : Release(x)
      PROVE  UNCHANGED Abstract!vars
  <2>1. OfferedNow' = OfferedNow /\ UsedNow' = UsedNow
    BY <1>2, AllocateStep, WriteStep, ListStep, ReleaseStep
  <2>2. inflight' = inflight /\ Slots' = Slots
    BY <1>2 DEF Allocate, Write, List, Release, Slots, alloc_descriptor, WriteDescriptor,
                PushRing, free_descriptor, IInv, Types, Queues
  <2>3. Idle' = Idle
    BY <1>0, <2>1, <2>2, SameIdle
  <2> QED
    BY <2>1, <2>2, <2>3 DEF Abstract!vars, Idle
<1>3. ASSUME Publish PROVE Abstract!Post
  <2>1. OfferedNow' = Append(OfferedNow, filling) /\ UsedNow' = UsedNow
    BY <1>3, PublishStep
  <2>2. inflight' = inflight /\ Slots' = Slots /\ filling \in Idle
    BY <1>3 DEF Publish, Slots, PushIndex, IInv, Types, Queues, Idle
  <2>3. Idle' = Idle \ {filling}
    <3>1. \A i \in Slots : Times(OfferedNow', i) = Times(OfferedNow, i) + (IF filling = i THEN 1 ELSE 0)
      BY <2>1, Sequences, TimesAppend DEF IInv, Types
    <3>2. \A i \in Slots : Times(OfferedNow, i) \in Nat /\ With(inflight, i) \in Nat /\ Times(UsedNow, i) \in Nat
      BY PlacesCounted DEF Counted
    <3> QED
      BY <1>0, <2>1, <2>2, <3>1, <3>2, IdleIs, IdleNext DEF IdleIsUnused, Unused
  <2> QED
    BY <2>1, <2>2, <2>3 DEF Abstract!Post, Idle
<1>4. ASSUME DeviceTake PROVE Abstract!Take
  <2>1. /\ UsedNow' = UsedNow /\ OfferedNow # << >> /\ OfferedNow' = Tail(OfferedNow)
        /\ inflight' = inflight \cup {<<Head(OfferedNow), q.desc[Head(OfferedNow)]>>}
    BY <1>4, DeviceTakeStep
  <2>2. Idle' = Idle
    BY <1>4 DEF DeviceTake, Idle, Slots
  <2>3. {e[1] : e \in inflight'} = {e[1] : e \in inflight} \cup {Head(OfferedNow)}
    <3> DEFINE new == <<Head(OfferedNow), q.desc[Head(OfferedNow)]>>
    <3>1. inflight' = inflight \cup {new} /\ new[1] = Head(OfferedNow)
      BY <2>1
    <3> HIDE DEF new
    <3> QED
      BY <3>1
  <2> QED
    BY <2>1, <2>2, <2>3 DEF Abstract!Take, Idle
<1>5. ASSUME NEW e \in inflight, DeviceComplete(e) PROVE Abstract!Complete
  <2>1. /\ OfferedNow' = OfferedNow /\ UsedNow' = Append(UsedNow, e[1])
        /\ inflight' = inflight \ {e}
    BY <1>5, DeviceCompleteStep
  <2>2. Idle' = Idle
    BY <1>5 DEF DeviceComplete, Complete, Idle, Slots, IInv, Types, Queues
  <2>3. \A f \in inflight \ {e} : f[1] # e[1]
    <3>1. e[1] \in Slots /\ IsFiniteSet(inflight)
      BY DEF IInv, Types
    <3>2. With(inflight, e[1]) <= 1
      BY <3>1, PlacesCounted DEF Counted
    <3>3. With(inflight \ {e}, e[1]) = With(inflight, e[1]) - 1
      BY <3>1, WithRemove
    <3>4. IsFiniteSet(inflight \ {e})
      BY <3>1, FS_RemoveElement
    <3>5. With(inflight \ {e}, e[1]) = 0
      <4>1. With(inflight \ {e}, e[1]) \in Nat /\ With(inflight, e[1]) \in Nat
        BY <3>1, <3>4, WithNat
      <4> QED
        BY <3>2, <3>3, <4>1
    <3> QED
      BY <3>4, <3>5, WithNat
  <2>4. {f[1] : f \in inflight'} = {f[1] : f \in inflight} \ {e[1]}
    BY <2>1, <2>3
  <2> QED
    BY <2>1, <2>2, <2>4 DEF Abstract!Complete, Idle
<1>6. ASSUME PopUsed PROVE Abstract!Collect
  <2>1. OfferedNow' = OfferedNow /\ UsedNow # << >> /\ UsedNow' = Tail(UsedNow)
    BY <1>6, PopUsedStep
  <2>2. inflight' = inflight /\ Slots' = Slots
    BY <1>6 DEF PopUsed, Pop, Slots, IInv, Types, Queues
  <2>3. Head(UsedNow) \in Slots
    BY <2>1, Sequences
  <2>4. Idle' = Idle \cup {Head(UsedNow)}
    <3>1. \A i \in Slots : Times(UsedNow', i) = Times(UsedNow, i) - (IF Head(UsedNow) = i THEN 1 ELSE 0)
      BY <2>1, Sequences, TimesTail
    <3>2. \A i \in Slots : Counted(i)
      BY PlacesCounted
    <3>3. Times(UsedNow, Head(UsedNow)) # 0
      BY <2>1, Sequences, TimesZero
    <3> QED
      BY <1>0, <2>1, <2>2, <2>3, <3>1, <3>2, <3>3, IdleIs, IdleNext DEF IdleIsUnused, Unused, Counted
  <2> QED
    BY <2>1, <2>2, <2>4 DEF Abstract!Collect, Idle
<1> QED
  BY <1>1, <1>2, <1>3, <1>4, <1>5, <1>6 DEF Next, Abstract!Next

\* Whatever the driver and the device do, a request is posted once, taken in
\* order, completed once and collected in order: the safety of RequestQueue.
THEOREM ImplementsRequests == Spec => Abstract!Init /\ [][Abstract!Next]_(Abstract!vars)
  BY InitImplements, NextImplements, IInvHolds, PTL DEF Spec

=============================================================================
