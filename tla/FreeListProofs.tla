---------------------------- MODULE FreeListProofs ----------------------------
(***************************************************************************)
(* Theorems about FreeList, for every memory map and every bound.          *)
(***************************************************************************)
EXTENDS FreeListRefinement, FiniteSetTheorems, WellFoundedInduction, TLAPS

-----------------------------------------------------------------------------
(* Types *)

Usable == {Map[i] : i \in 1 .. Len(Map)}
Pushed == {Map[i] : i \in 1 .. boot}

\* The words an allocator that has not failed keeps in the list's links.
Links == Pages \cup {Nil, Junk}

\* pmm::init adds each frame of the map once, before anybody claims one.
Booting ==
    boot < Len(Map) =>
        /\ ~Searching
        /\ ~fault
        /\ \A p \in Pages : owners[p] = IF p \in Pushed THEN 0 ELSE 1

Linked ==
    ~fault =>
        /\ next \in [Pages -> Links]
        /\ prev \in [Pages -> Links]
        /\ boot > 0 => head \in Pages /\ tail \in Pages

Scans == [frames : Nat, align : Nat \ {0}, base : Words, current : Words,
          contiguous : Nat, left : Nat]

\* A search has counted its base, and an entry that extends it is a page.
Counting ==
    Searching =>
        /\ scan.frames # 1
        /\ scan.contiguous >= 1
        /\ scan.contiguous > 1 => scan.current \in Pages

\* TypeOK with what the steps of a search and a fault rest on.
TypeInv ==
    /\ TypeOK
    /\ scan \in Scans
    /\ Booting
    /\ Linked
    /\ Counting

LEMMA MapFacts ==
    /\ Len(Map) \in Nat \ {0}
    /\ \A i \in 1 .. Len(Map) : Map[i] \in Pages
    /\ \A i, j \in 1 .. Len(Map) : Map[i] = Map[j] => i = j
    /\ Usable \subseteq Pages
    /\ Pages \subseteq Nat \ {0}
    /\ Pages \subseteq Links
    /\ Links \subseteq Words
    /\ Nil \notin Pages /\ Junk \notin Pages
  BY MapAssumption DEF Usable, Links, Words, Nil, Junk

LEMMA LinksAreWords ==
    ASSUME NEW f \in [Pages -> Links]
    PROVE  f \in [Pages -> Words]
  BY MapFacts

LEMMA PagesAreWords == Pages \subseteq Words /\ Pages \subseteq Nat
  BY MapFacts DEF Words

LEMMA ReadFacts ==
    ASSUME NEW w \in Links, NEW n \in Read(w)
    PROVE  n \in Links
  BY MapFacts DEF Read, Links

LEMMA ScribbleFacts ==
    ASSUME NEW W, NEW f \in [Pages -> W], NEW S, Junk \in W
    PROVE  /\ Scribble(f, S) \in [Pages -> W]
           /\ \A p \in Pages : Scribble(f, S)[p] = IF p \in S THEN Junk ELSE f[p]
  BY DEF Scribble

LEMMA IdleType == Idle \in Scans
  BY DEF Idle, Scans, Words, Nil, Junk

LEMMA NewSearchType ==
    ASSUME TypeInv, boot > 0, ~fault, NEW n \in Sections, NEW a \in Aligns
    PROVE  /\ NewSearch(n, a) \in Scans
           /\ NewSearch(n, a).frames = n
           /\ NewSearch(n, a).contiguous = 1
           /\ NewSearch(n, a).left = len
  BY MapFacts, RequestAssumption, BoundsAssumption
     DEF NewSearch, Scans, TypeInv, TypeOK, Linked, Words

LEMMA StepType ==
    ASSUME NEW s \in Scans, s.left > 0, NEW n \in Links
    PROVE  /\ Extended(s, n) \in Scans
           /\ Extended(s, n).frames = s.frames
           /\ Extended(s, n).contiguous = s.contiguous + 1
           /\ Extended(s, n).current = n
           /\ Restarted(s, n) \in Scans
           /\ Restarted(s, n).frames = s.frames
           /\ Restarted(s, n).contiguous = 1
           /\ Restarted(s, n).current = n
  BY MapFacts DEF Extended, Restarted, Scans

LEMMA LenFacts ==
    ASSUME len \in 0 .. UsizeMod - 1, NEW n \in Nat
    PROVE  /\ Longer \in 0 .. UsizeMod - 1
           /\ Shorter(n) \in 0 .. UsizeMod - 1
  BY BoundsAssumption DEF Longer, Shorter

LEMMA ReadyFacts ==
    ASSUME TypeInv, Ready
    PROVE  /\ ~fault /\ ~Searching /\ boot = Len(Map)
           /\ head \in Pages /\ tail \in Pages
           /\ next \in [Pages -> Links] /\ prev \in [Pages -> Links]
           /\ len \in 0 .. UsizeMod - 1
           /\ owners \in [Pages -> Nat]
  BY MapFacts DEF TypeInv, TypeOK, Ready, Linked

LEMMA LookingFacts ==
    ASSUME TypeInv, Looking
    PROVE  /\ ~fault /\ Searching /\ boot = Len(Map)
           /\ head \in Pages /\ tail \in Pages
           /\ next \in [Pages -> Links] /\ prev \in [Pages -> Links]
           /\ len \in 0 .. UsizeMod - 1
           /\ owners \in [Pages -> Nat]
           /\ scan \in Scans
           /\ Found => scan.current \in Pages
  BY MapFacts DEF TypeInv, TypeOK, Looking, Linked, Booting, Counting, Found, Scans

\* A step that gives a page away or takes it back keeps the holders counted.
LEMMA HandFacts ==
    ASSUME owners \in [Pages -> Nat], NEW S, Hand(S)
    PROVE  /\ owners' \in [Pages -> Nat]
           /\ \A p \in Pages : owners'[p] = IF p \in S THEN owners[p] + 1 ELSE owners[p]
  BY DEF Hand

LEMMA GiveUpFacts ==
    ASSUME owners \in [Pages -> Nat], NEW q \in Pages, owners[q] = 1, GiveUp(q)
    PROVE  /\ owners' \in [Pages -> Nat]
           /\ \A p \in Pages : owners'[p] = IF p = q THEN 0 ELSE owners[p]
  BY DEF GiveUp

LEMMA TypeInit == Init => TypeInv
  <1> SUFFICES ASSUME Init PROVE TypeInv
    OBVIOUS
  <1> USE DEF Init
  <1>1. TypeOK
    <2>1. /\ 0 \in 0 .. UsizeMod - 1 /\ 0 \in 0 .. Len(Map)
          /\ Nil \in Words /\ Nil \in Nat /\ Junk \in Words
      BY MapFacts, BoundsAssumption DEF Words, Nil, Junk
    <2>2. Idle.current \in Words /\ Idle.left \in Nat
      BY <2>1 DEF Idle
    <2> QED
      BY <2>1, <2>2 DEF TypeOK
  <1>2. Pushed = {}
    BY DEF Pushed
  <1> QED
    BY <1>1, <1>2, IdleType DEF TypeInv, Booting, Linked, Counting, Searching, Links

LEMMA TypeBoot ==
    ASSUME TypeInv, InitList \/ Push
    PROVE  TypeInv'
  <1> DEFINE new == Map[boot + 1]
  <1>1. /\ boot \in 0 .. Len(Map) - 1
        /\ boot' = boot + 1
        /\ GiveUp(new)
        /\ new \in Pages
        /\ ~fault /\ ~Searching /\ scan \in Scans
        /\ UNCHANGED <<scan, fault>>
    BY MapFacts DEF InitList, Push, TypeInv, TypeOK, Booting
  <1>2. new \notin Pushed /\ Pushed' = Pushed \cup {new}
    BY <1>1, MapFacts DEF Pushed
  <1> HIDE DEF new
  <1>3. /\ owners' \in [Pages -> Nat]
        /\ \A p \in Pages : owners'[p] = IF p \in Pushed' THEN 0 ELSE 1
    <2>3. \A p \in Pages : owners[p] = IF p \in Pushed THEN 0 ELSE 1
      BY <1>1, MapFacts DEF TypeInv, Booting
    <2>1. owners[new] = 1 /\ owners \in [Pages -> Nat]
      BY <1>1, <1>2, <2>3 DEF TypeInv, TypeOK
    <2>2. /\ owners' \in [Pages -> Nat]
          /\ \A p \in Pages : owners'[p] = IF p = new THEN 0 ELSE owners[p]
      BY <1>1, <2>1, GiveUpFacts
    <2> QED
      BY <1>2, <2>2, <2>3
  <1>4. /\ next' \in [Pages -> Links] /\ prev' \in [Pages -> Links]
        /\ head' \in Pages /\ tail' \in Pages
        /\ len' \in 0 .. UsizeMod - 1
    <2>1. CASE InitList
      BY <2>1, <1>1, MapFacts, BoundsAssumption
         DEF InitList, TypeInv, Linked, Links, new
    <2>2. CASE Push
      <3>1. tail \in Pages /\ head \in Pages /\ len \in 0 .. UsizeMod - 1
            /\ next \in [Pages -> Links] /\ prev \in [Pages -> Links]
        BY <2>2, <1>1, MapFacts DEF Push, TypeInv, TypeOK, Linked
      <3> QED
        BY <2>2, <3>1, <1>1, LenFacts, MapFacts DEF Push, Links, new
    <2> QED
      BY <2>1, <2>2
  <1>5. TypeOK'
    <2>1. boot' \in 0 .. Len(Map) /\ fault' \in BOOLEAN
      BY <1>1, MapFacts DEF TypeOK, TypeInv
    <2>2. scan'.current \in Words /\ scan'.left \in Nat
      BY <1>1 DEF Scans
    <2> QED
      BY <1>3, <1>4, <2>1, <2>2, LinksAreWords, PagesAreWords DEF TypeOK
  <1> QED
    BY <1>1, <1>3, <1>4, <1>5 DEF TypeInv, Booting, Linked, Counting, Searching

LEMMA TypePull ==
    ASSUME TypeInv, NEW new \in Pages, Pull(new)
    PROVE  TypeInv'
  <1>1. /\ owners' \in [Pages -> Nat]
        /\ len' \in 0 .. UsizeMod - 1
    BY ReadyFacts, GiveUpFacts, LenFacts DEF Pull
  <1>2. /\ next' \in [Pages -> Links] /\ prev' \in [Pages -> Links]
        /\ head' \in Pages /\ tail' = tail
    BY ReadyFacts, MapFacts DEF Pull, LinkFirst, Links
  <1>3. /\ boot' = boot /\ boot = Len(Map) /\ UNCHANGED <<scan, fault>>
        /\ tail \in Pages /\ ~Searching /\ scan \in Scans
    BY ReadyFacts DEF Pull, TypeInv
  <1>4. TypeOK'
    BY <1>1, <1>2, <1>3, MapFacts DEF TypeOK, TypeInv, Scans
  <1> QED
    BY <1>1, <1>2, <1>3, <1>4, MapFacts
       DEF TypeInv, Booting, Linked, Counting, Searching

LEMMA TypeClaim ==
    ASSUME TypeInv, Claim
    PROVE  TypeInv'
  <1>1. /\ owners' \in [Pages -> Nat]
        /\ len' \in 0 .. UsizeMod - 1
    BY ReadyFacts, HandFacts, LenFacts DEF Claim
  <1>2. /\ next' \in [Pages -> Links] /\ prev' \in [Pages -> Links]
        /\ head' \in Pages /\ tail' = tail
    <2>1. PICK n \in Read(next[head]) :
            /\ Second(n) \in Pages
            /\ next' = Scribble(next, {head})
            /\ prev' = Scribble([prev EXCEPT ![Second(n)] = Nil], {head})
            /\ head' = Second(n)
      BY DEF Claim
    <2>2. [prev EXCEPT ![Second(n)] = Nil] \in [Pages -> Links]
      BY ReadyFacts DEF Claim, Links
    <2>3. Junk \in Links /\ next \in [Pages -> Links]
      BY ReadyFacts DEF Claim, Links
    <2> QED
      BY <2>1, <2>2, <2>3, ScribbleFacts DEF Claim
  <1>3. /\ boot' = boot /\ boot = Len(Map) /\ UNCHANGED <<scan, fault>>
        /\ tail \in Pages /\ ~Searching /\ scan \in Scans
    BY ReadyFacts DEF Claim, TypeInv
  <1>4. TypeOK'
    BY <1>1, <1>2, <1>3, MapFacts DEF TypeOK, TypeInv, Scans
  <1> QED
    BY <1>1, <1>2, <1>3, <1>4, MapFacts
       DEF TypeInv, Booting, Linked, Counting, Searching

LEMMA TypeSearch ==
    ASSUME TypeInv, NEW n \in Sections, NEW a \in Aligns, Search(n, a)
    PROVE  TypeInv'
  <1>1. /\ scan' = NewSearch(n, a) /\ n # 1
        /\ boot = Len(Map) /\ ~fault
        /\ UNCHANGED <<next, prev, head, tail, len, boot, owners, fault>>
    BY ReadyFacts DEF Search
  <1>2. /\ scan' \in Scans /\ scan'.frames = n /\ scan'.contiguous = 1
    BY <1>1, NewSearchType, MapFacts
  <1>3. TypeOK'
    BY <1>1, <1>2 DEF TypeOK, TypeInv, Scans
  <1> QED
    BY <1>1, <1>2, <1>3, MapFacts DEF TypeInv, Booting, Linked, Counting, Links

LEMMA TypeStep ==
    ASSUME TypeInv, Step
    PROVE  TypeInv'
  <1>1. PICK n \in Read(next[scan.current]) :
          scan' = IF Extends(n) THEN Extended(scan, n) ELSE Restarted(scan, n)
    BY DEF Step
  <1>2. /\ scan \in Scans /\ scan.current \in Pages /\ scan.left > 0
        /\ n \in Links /\ boot = Len(Map) /\ ~fault
        /\ scan.frames # 1 /\ scan.contiguous >= 1 /\ Searching
        /\ UNCHANGED <<next, prev, head, tail, len, boot, owners, fault>>
    BY LookingFacts, ReadFacts DEF Step, Looking, TypeInv, Counting
  <1>3. Extends(n) => n \in Pages
    <2> DEFINE c == scan.current
    <2>0. c \in Nat
      BY <1>2, PagesAreWords
    <2> HIDE DEF c
    <2>2. c + 1 # 0 /\ c + 1 # -1
      BY <2>0
    <2>1. n = scan.current + 1 => n # Nil /\ n # Junk
      BY <2>2 DEF Nil, Junk, c
    <2> QED
      BY <1>2, <2>1 DEF Extends, Links
  <1>4. /\ scan' \in Scans /\ scan'.frames = scan.frames
        /\ scan'.contiguous >= 1
        /\ scan'.contiguous > 1 => scan'.current \in Pages
    BY <1>1, <1>2, <1>3, StepType DEF Scans
  <1>5. TypeOK'
    BY <1>2, <1>4 DEF TypeOK, TypeInv, Scans
  <1> QED
    BY <1>2, <1>4, <1>5, MapFacts DEF TypeInv, Booting, Linked, Counting

LEMMA TypeTake ==
    ASSUME TypeInv, Take
    PROVE  TypeInv'
  <1>1. scan.frames \in Nat /\ boot = Len(Map) /\ tail \in Pages /\ ~fault
    BY LookingFacts DEF Take, Scans
  <1>2. /\ owners' \in [Pages -> Nat]
        /\ len' \in 0 .. UsizeMod - 1
    BY <1>1, LookingFacts, HandFacts, LenFacts DEF Take
  <1>3. /\ scan' = Idle /\ UNCHANGED <<tail, boot, fault>>
    BY DEF Take
  <1>4. /\ next' \in [Pages -> Links] /\ prev' \in [Pages -> Links]
        /\ head' \in Pages
    <2> DEFINE section == Section(scan.base, scan.frames)
    <2>1. PICK before \in Read(prev[scan.base]), behind \in Read(next[scan.current]) :
            /\ before \in Pages \cup {Nil}
            /\ behind \in Pages
            /\ prev' = Scribble([prev EXCEPT ![behind] = before], section)
            /\ IF before = Nil
                 THEN /\ head' = behind
                      /\ next' = Scribble(next, section)
                 ELSE /\ head' = head
                      /\ next' = Scribble([next EXCEPT ![before] = behind], section)
      BY DEF Take
    <2>2. /\ [prev EXCEPT ![behind] = before] \in [Pages -> Links]
          /\ [next EXCEPT ![before] = behind] \in [Pages -> Links]
          /\ next \in [Pages -> Links] /\ Junk \in Links /\ head \in Pages
      BY <2>1, LookingFacts, MapFacts DEF Take, Links
    <2> HIDE DEF section
    <2>3. \A f \in [Pages -> Links] : Scribble(f, section) \in [Pages -> Links]
      BY <2>2, ScribbleFacts
    <2>4. CASE before = Nil
      BY <2>1, <2>2, <2>3, <2>4
    <2>5. CASE before # Nil
      BY <2>1, <2>2, <2>3, <2>5
    <2> QED
      BY <2>4, <2>5
  <1>5. scan' \in Scans /\ ~Searching'
    BY <1>3, IdleType DEF Searching
  <1>6. TypeOK'
    BY <1>1, <1>2, <1>3, <1>4, <1>5, MapFacts DEF TypeOK, TypeInv, Scans
  <1> QED
    BY <1>1, <1>2, <1>3, <1>4, <1>5, <1>6, MapFacts
       DEF TypeInv, Booting, Linked, Counting

LEMMA TypeRefuse ==
    ASSUME TypeInv, Refuse
    PROVE  TypeInv'
  <1>1. /\ UNCHANGED <<next, prev, head, tail, len, boot, owners, fault>>
        /\ scan' = Idle /\ scan' \in Scans /\ ~Searching'
    BY IdleType DEF Refuse, Searching
  <1>2. boot = Len(Map) /\ ~fault
    BY MapFacts DEF Refuse, TypeInv, TypeOK, Booting
  <1>3. TypeOK'
    BY <1>1 DEF TypeOK, TypeInv, Scans
  <1> QED
    BY <1>1, <1>2, <1>3 DEF TypeInv, Booting, Linked, Counting

LEMMA TypeFault ==
    ASSUME TypeInv, ClaimFault \/ StepFault \/ TakeFault
    PROVE  TypeInv'
  <1>1. /\ fault' = TRUE /\ UNCHANGED <<tail, len, boot, owners, scan>>
        /\ boot = Len(Map) /\ head \in Pages
        /\ next \in [Pages -> Links] /\ prev \in [Pages -> Links]
    BY ReadyFacts, LookingFacts
       DEF ClaimFault, StepFault, TakeFault, Fault
  <1>2. /\ next' \in [Pages -> Words] /\ prev' \in [Pages -> Words]
        /\ head' \in Words
    <2>1. CASE ClaimFault
      <3>1. PICK n \in Read(next[head]) :
              next' = [next EXCEPT ![head] = Second(n)]
        BY <2>1 DEF ClaimFault
      <3>2. Second(n) \in Words
        <4>1. n \in Words /\ head \in Nat
          BY <1>1, ReadFacts, MapFacts
        <4> QED
          BY <4>1 DEF Second, Words
      <3> QED
        BY <2>1, <3>1, <3>2, <1>1, MapFacts DEF ClaimFault
    <2>2. CASE StepFault
      BY <2>2, <1>1, MapFacts DEF StepFault
    <2>3. CASE TakeFault
      <3>1. PICK before \in Read(prev[scan.base]), behind \in Read(next[scan.current]) :
              /\ head' = IF before = Nil THEN behind ELSE head
              /\ next' = IF before \in Pages THEN [next EXCEPT ![before] = behind]
                                             ELSE next
              /\ prev' = prev
        BY <2>3 DEF TakeFault
      <3>2. behind \in Words
        BY <1>1, <3>1, <2>3, LookingFacts, ReadFacts, MapFacts DEF TakeFault
      <3> QED
        BY <3>1, <3>2, <1>1, MapFacts
    <2> QED
      BY <2>1, <2>2, <2>3
  <1>3. TypeOK'
    BY <1>1, <1>2 DEF TypeOK, TypeInv
  <1> QED
    BY <1>1, <1>3 DEF TypeInv, Booting, Linked, Counting, Searching

LEMMA TypeNext == TypeInv /\ [Next]_vars => TypeInv'
  <1> SUFFICES ASSUME TypeInv, [Next]_vars PROVE TypeInv'
    OBVIOUS
  <1>1. CASE UNCHANGED vars
    BY <1>1 DEF vars, TypeInv, TypeOK, Booting, Linked, Counting, Searching, Pushed
  <1>2. CASE Next
    BY <1>2, TypeBoot, TypePull, TypeClaim, TypeSearch, TypeStep, TypeTake,
       TypeRefuse, TypeFault DEF Next
  <1> QED
    BY <1>1, <1>2

\* The state keeps its type whatever is claimed, searched for and given back:
\* also when claims run the list out, len wraps and links are read from pages
\* others have written (claim, claim_continuous, pull).
THEOREM TypeCorrect == Spec => []TypeOK
  <1>1. TypeInv => TypeOK
    BY DEF TypeInv
  <1> QED
    BY <1>1, TypeInit, TypeNext, PTL DEF Spec

-----------------------------------------------------------------------------
(* Lists: s enumerates the free frames F in the order of the links *)

Chain(s, n, h, nx, pv, F) ==
    /\ s \in [1 .. n -> Pages]
    /\ \A p \in F : \E i \in 1 .. n : s[i] = p
    /\ \A i \in 1 .. n : s[i] \in F
    /\ \A i, j \in 1 .. n : s[i] = s[j] => i = j
    /\ n > 0 => s[1] = h /\ pv[h] = Nil /\ nx[s[n]] = Nil
    /\ \A i \in 1 .. n - 1 : nx[s[i]] = s[i + 1] /\ pv[s[i + 1]] = s[i]

LinksPrepended(h, q, nx, pv, nx2, pv2) ==
    /\ \A p \in Pages : nx2[p] = IF p = q THEN h ELSE nx[p]
    /\ \A p \in Pages :
          pv2[p] = IF p = h THEN q ELSE IF p = q THEN Nil ELSE pv[p]

\* FreeList::pull: a frame in front of the head.
LEMMA PrependChain ==
    ASSUME NEW n \in Nat \ {0}, NEW h, NEW nx, NEW pv, NEW F \in SUBSET Pages,
           NEW s, Chain(s, n, h, nx, pv, F),
           NEW q \in Pages \ F, NEW nx2, NEW pv2,
           LinksPrepended(h, q, nx, pv, nx2, pv2)
    PROVE  \E t : Chain(t, n + 1, q, nx2, pv2, F \cup {q})
  <1> USE DEF LinksPrepended
  <1> DEFINE t == [i \in 1 .. n + 1 |-> IF i = 1 THEN q ELSE s[i - 1]]
  <1>1. /\ t[1] = q
        /\ \A i \in 1 .. n : t[i + 1] = s[i]
        /\ \A i \in 1 .. n + 1 : i = 1 \/ (i - 1 \in 1 .. n /\ t[i] = s[i - 1])
        /\ t \in [1 .. n + 1 -> Pages]
    <2>1. \A i \in 1 .. n + 1 : i = 1 \/ i - 1 \in 1 .. n
      OBVIOUS
    <2>3. 1 \in 1 .. n + 1
      OBVIOUS
    <2>4. \A i \in 1 .. n + 1 : t[i] = IF i = 1 THEN q ELSE s[i - 1]
      OBVIOUS
    <2>5. s \in [1 .. n -> Pages]
      BY DEF Chain
    <2>6. t \in [1 .. n + 1 -> Pages]
      BY <2>1, <2>5
    <2> HIDE DEF t
    <2> QED
      <3>1. ASSUME NEW i \in 1 .. n PROVE t[i + 1] = s[i]
        <4>1. i + 1 \in 1 .. n + 1 /\ i + 1 # 1 /\ i + 1 - 1 = i
          OBVIOUS
        <4> QED
          BY <2>4, <4>1
      <3>2. t[1] = q
        BY <2>3, <2>4
      <3>3. ASSUME NEW i \in 1 .. n + 1 PROVE i = 1 \/ (i - 1 \in 1 .. n /\ t[i] = s[i - 1])
        BY <2>1, <2>4
      <3> QED
        BY <2>6, <3>1, <3>2, <3>3
  <1> HIDE DEF t
  <1>2. /\ \A i \in 1 .. n : s[i] \in F /\ s[i] \in Pages /\ s[i] # q
        /\ s[1] = h /\ h \in F
    BY DEF Chain
  <1>3. \A p \in F \cup {q} : \E i \in 1 .. n + 1 : t[i] = p
    <2>1. 1 \in 1 .. n + 1 /\ n + 1 \in 1 .. n + 1
      OBVIOUS
    <2>2. ASSUME NEW p \in F PROVE \E i \in 1 .. n + 1 : t[i] = p
      <3>1. PICK i \in 1 .. n : s[i] = p
        BY DEF Chain
      <3>2. i \in 1 .. n + 1 /\ i + 1 \in 1 .. n + 1
        OBVIOUS
      <3> QED
        BY <1>1, <3>1, <3>2
    <2> QED
      BY <1>1, <2>1, <2>2
  <1>4. \A i \in 1 .. n + 1 : t[i] \in F \cup {q}
    BY <1>1, <1>2
  <1>5. \A i, j \in 1 .. n + 1 : t[i] = t[j] => i = j
    <2> SUFFICES ASSUME NEW i \in 1 .. n + 1, NEW j \in 1 .. n + 1, t[i] = t[j]
                 PROVE  i = j
      OBVIOUS
    <2>1. CASE i = 1 \/ j = 1
      <3>1. \A k \in 1 .. n + 1 : k # 1 => t[k] # q
        <4> SUFFICES ASSUME NEW k \in 1 .. n + 1, k # 1 PROVE t[k] # q
          OBVIOUS
        <4>1. k - 1 \in 1 .. n /\ t[k] = s[k - 1]
          BY <1>1
        <4> QED
          BY <1>2, <4>1
      <3> QED
        BY <1>1, <2>1, <3>1
    <2>2. CASE i # 1 /\ j # 1
      <3>1. s[i - 1] = s[j - 1] /\ i - 1 \in 1 .. n /\ j - 1 \in 1 .. n
        BY <1>1, <2>2
      <3> QED
        BY <3>1 DEF Chain
    <2> QED
      BY <2>1, <2>2
  <1>6. pv2[q] = Nil /\ nx2[t[n + 1]] = Nil
    BY <1>1, <1>2 DEF Chain
  <1>7. \A i \in 1 .. n + 1 - 1 : nx2[t[i]] = t[i + 1] /\ pv2[t[i + 1]] = t[i]
    <2> SUFFICES ASSUME NEW i \in 1 .. n
                 PROVE  nx2[t[i]] = t[i + 1] /\ pv2[t[i + 1]] = t[i]
      OBVIOUS
    <2>1. CASE i = 1
      BY <1>1, <1>2, <2>1
    <2>2. CASE i # 1
      <3>1. /\ t[i] = s[i - 1] /\ t[i + 1] = s[i]
            /\ i - 1 \in 1 .. n - 1 /\ i - 1 \in 1 .. n /\ i - 1 + 1 = i
        BY <1>1, <2>2
      <3>2. nx[s[i - 1]] = s[i] /\ pv[s[i]] = s[i - 1]
        BY <3>1 DEF Chain
      <3>3. s[i] # h
        BY <1>2, <2>2 DEF Chain
      <3> QED
        BY <1>2, <3>1, <3>2, <3>3
    <2> QED
      BY <2>1, <2>2
  <1> QED
    <2>1. Chain(t, n + 1, q, nx2, pv2, F \cup {q})
      BY <1>1, <1>3, <1>4, <1>5, <1>6, <1>7 DEF Chain
    <2> QED
      BY <2>1

EndsAt(s, n, p) == s[n] = p

LinksAppended(e, q, nx, pv, nx2, pv2) ==
    /\ \A p \in Pages : nx2[p] = IF p = e THEN q ELSE IF p = q THEN Nil ELSE nx[p]
    /\ \A p \in Pages : pv2[p] = IF p = q THEN e ELSE pv[p]

\* FreeList::push: a frame behind the last entry.
LEMMA AppendChain ==
    ASSUME NEW n \in Nat \ {0}, NEW h, NEW nx, NEW pv, NEW F \in SUBSET Pages,
           NEW s, Chain(s, n, h, nx, pv, F),
           NEW q \in Pages \ F, NEW nx2, NEW pv2,
           NEW e, EndsAt(s, n, e),
           LinksAppended(e, q, nx, pv, nx2, pv2)
    PROVE  \E t : Chain(t, n + 1, h, nx2, pv2, F \cup {q}) /\ EndsAt(t, n + 1, q)
  <1> USE DEF LinksAppended, EndsAt
  <1> DEFINE t == [i \in 1 .. n + 1 |-> IF i = n + 1 THEN q ELSE s[i]]
  <1>1. /\ t[n + 1] = q
        /\ \A i \in 1 .. n : t[i] = s[i]
        /\ \A i \in 1 .. n + 1 : i = n + 1 \/ i \in 1 .. n
        /\ t \in [1 .. n + 1 -> Pages]
    BY DEF Chain
  <1> HIDE DEF t
  <1>2. /\ \A i \in 1 .. n : s[i] \in F /\ s[i] \in Pages /\ s[i] # q
        /\ s[1] = h /\ h \in F
    BY DEF Chain
  <1>3. \A p \in F \cup {q} : \E i \in 1 .. n + 1 : t[i] = p
    <2>1. 1 \in 1 .. n + 1 /\ n + 1 \in 1 .. n + 1
      OBVIOUS
    <2>2. ASSUME NEW p \in F PROVE \E i \in 1 .. n + 1 : t[i] = p
      <3>1. PICK i \in 1 .. n : s[i] = p
        BY DEF Chain
      <3>2. i \in 1 .. n + 1 /\ i + 1 \in 1 .. n + 1
        OBVIOUS
      <3> QED
        BY <1>1, <3>1, <3>2
    <2> QED
      BY <1>1, <2>1, <2>2
  <1>4. \A i \in 1 .. n + 1 : t[i] \in F \cup {q}
    BY <1>1, <1>2
  <1>5. \A i, j \in 1 .. n + 1 : t[i] = t[j] => i = j
    <2> SUFFICES ASSUME NEW i \in 1 .. n + 1, NEW j \in 1 .. n + 1, t[i] = t[j]
                 PROVE  i = j
      OBVIOUS
    <2>1. CASE i = n + 1 \/ j = n + 1
      BY <1>1, <1>2, <2>1
    <2>2. CASE i # n + 1 /\ j # n + 1
      BY <1>1, <2>2 DEF Chain
    <2> QED
      BY <2>1, <2>2
  <1>6. t[1] = h /\ pv2[h] = Nil /\ nx2[t[n + 1]] = Nil
    BY <1>1, <1>2 DEF Chain
  <1>7. \A i \in 1 .. n + 1 - 1 : nx2[t[i]] = t[i + 1] /\ pv2[t[i + 1]] = t[i]
    <2> SUFFICES ASSUME NEW i \in 1 .. n
                 PROVE  nx2[t[i]] = t[i + 1] /\ pv2[t[i + 1]] = t[i]
      OBVIOUS
    <2>1. CASE i = n
      BY <1>1, <1>2, <2>1
    <2>2. CASE i # n
      <3>1. i \in 1 .. n - 1 /\ i + 1 \in 1 .. n /\ t[i] = s[i] /\ t[i + 1] = s[i + 1]
        BY <1>1, <2>2
      <3>2. s[i] # s[n]
        BY <2>2 DEF Chain
      <3>3. nx[s[i]] = s[i + 1] /\ pv[s[i + 1]] = s[i]
        BY <3>1 DEF Chain
      <3> QED
        BY <1>2, <3>1, <3>2, <3>3
    <2> QED
      BY <2>1, <2>2
  <1> QED
    <2>1. Chain(t, n + 1, h, nx2, pv2, F \cup {q})
      BY <1>1, <1>3, <1>4, <1>5, <1>6, <1>7 DEF Chain
    <2> QED
      BY <1>1, <2>1

\* The c entries from the b-th on
Cut(s, b, c) == {s[i] : i \in b .. b + c - 1}

LinksCut(s, b, c, h, h2, nx, pv, nx2, pv2) ==
    /\ h2 = IF b = 1 THEN s[b + c] ELSE h
    /\ \A p \in Pages \ Cut(s, b, c) :
          nx2[p] = IF b > 1 /\ p = s[b - 1] THEN s[b + c] ELSE nx[p]
    /\ \A p \in Pages \ Cut(s, b, c) :
          pv2[p] = IF p = s[b + c] THEN IF b = 1 THEN Nil ELSE s[b - 1] ELSE pv[p]

\* claim, and the end of claim_continuous and claim_aligned: c entries from the
\* b-th on are cut out, and something is left behind them.
LEMMA CutChain ==
    ASSUME NEW n \in Nat \ {0}, NEW h, NEW nx, NEW pv, NEW F \in SUBSET Pages,
           NEW s, Chain(s, n, h, nx, pv, F),
           NEW b \in 1 .. n, NEW c \in Nat \ {0}, b + c <= n,
           NEW nx2, NEW pv2, NEW h2,
           LinksCut(s, b, c, h, h2, nx, pv, nx2, pv2)
    PROVE  \E t : Chain(t, n - c, h2, nx2, pv2, F \ Cut(s, b, c))
  <1> DEFINE ix(i) == IF i < b THEN i ELSE i + c
             G == Cut(s, b, c)
             t == [i \in 1 .. n - c |-> s[ix(i)]]
  <1>1. \A i \in 1 .. n - c :
          /\ ix(i) \in 1 .. n
          /\ ix(i) \notin b .. b + c - 1
          /\ \A j \in 1 .. n - c : ix(i) = ix(j) => i = j
    OBVIOUS
  <1>2. \A k \in 1 .. n : k \notin b .. b + c - 1 => \E i \in 1 .. n - c : ix(i) = k
    <2> SUFFICES ASSUME NEW k \in 1 .. n, k \notin b .. b + c - 1
                 PROVE  \E i \in 1 .. n - c : ix(i) = k
      OBVIOUS
    <2>1. CASE k < b
      <3>1. k \in 1 .. n - c /\ ix(k) = k
        BY <2>1
      <3> QED
        BY <3>1
    <2>2. CASE k >= b + c
      <3>1. k - c \in 1 .. n - c /\ ix(k - c) = k
        BY <2>2
      <3> QED
        BY <3>1
    <2> QED
      BY <2>1, <2>2
  <1>3. \A i \in 1 .. n - c : t[i] = s[ix(i)]
    OBVIOUS
  <1>4. /\ s \in [1 .. n -> Pages]
        /\ \A k \in 1 .. n : s[k] \in F
        /\ \A k, m \in 1 .. n : s[k] = s[m] => k = m
        /\ \A k \in 1 .. n - 1 : nx[s[k]] = s[k + 1] /\ pv[s[k + 1]] = s[k]
        /\ s[1] = h /\ pv[h] = Nil /\ nx[s[n]] = Nil
    BY DEF Chain
  <1>5. \A k \in 1 .. n : s[k] \in G <=> k \in b .. b + c - 1
    <2>1. b .. b + c - 1 \subseteq 1 .. n
      OBVIOUS
    <2> QED
      BY <1>4, <2>1 DEF Cut
  <1>6. t \in [1 .. n - c -> Pages]
    BY <1>1, <1>4
  <1>0. /\ h2 = IF b = 1 THEN s[b + c] ELSE h
        /\ \A p \in Pages \ G :
              nx2[p] = IF b > 1 /\ p = s[b - 1] THEN s[b + c] ELSE nx[p]
        /\ \A p \in Pages \ G :
              pv2[p] = IF p = s[b + c] THEN IF b = 1 THEN Nil ELSE s[b - 1] ELSE pv[p]
    BY DEF LinksCut
  <1> HIDE DEF t, ix, G
  <1>7. \A i \in 1 .. n - c : t[i] \in F \ G
    BY <1>1, <1>3, <1>4, <1>5
  <1>8. \A p \in F \ G : \E i \in 1 .. n - c : t[i] = p
    <2> SUFFICES ASSUME NEW p \in F \ G PROVE \E i \in 1 .. n - c : t[i] = p
      OBVIOUS
    <2>1. PICK k \in 1 .. n : s[k] = p
      BY DEF Chain
    <2>2. PICK i \in 1 .. n - c : ix(i) = k
      BY <1>2, <1>5, <2>1
    <2> QED
      BY <1>3, <2>1, <2>2
  <1>9. \A i, j \in 1 .. n - c : t[i] = t[j] => i = j
    BY <1>1, <1>3, <1>4
  <1>10. t[1] = h2 /\ pv2[h2] = Nil
    <2>0. 1 \in 1 .. n - c /\ 1 \in 1 .. n /\ b + c \in 1 .. n
      OBVIOUS
    <2>1. CASE b = 1
      <3>1. ix(1) = b + c
        BY <1>0, <2>1 DEF ix
      <3>2. s[b + c] \in Pages \ G
        BY <1>0, <1>4, <1>5, <2>0
      <3> QED
        BY <1>0, <1>3, <2>0, <2>1, <3>1, <3>2
    <2>2. CASE b # 1
      <3>1. ix(1) = 1 /\ 1 \notin b .. b + c - 1 /\ 1 # b + c
        BY <2>2 DEF ix
      <3>2. s[1] \in Pages \ G /\ s[1] # s[b + c]
        BY <1>0, <1>4, <1>5, <2>0, <3>1
      <3> QED
        <4>1. t[1] = s[1] /\ h2 = h /\ s[1] = h
          BY <1>0, <1>3, <1>4, <2>0, <2>2, <3>1
        <4>2. pv2[s[1]] = pv[s[1]]
          BY <1>0, <3>2
        <4> QED
          BY <1>0, <1>4, <4>1, <4>2
    <2> QED
      BY <2>1, <2>2
  <1>11. nx2[t[n - c]] = Nil
    <2>1. /\ n - c \in 1 .. n - c /\ ix(n - c) = n /\ n \in 1 .. n
          /\ n \notin b .. b + c - 1
          /\ b > 1 => b - 1 \in 1 .. n /\ b - 1 # n
      BY DEF ix
    <2>2. t[n - c] = s[n] /\ s[n] \in Pages \ G /\ (b > 1 => s[n] # s[b - 1])
      BY <1>3, <1>4, <1>5, <2>1
    <2> QED
      BY <1>0, <1>4, <2>2
  <1>12. \A i \in 1 .. n - c - 1 : nx2[t[i]] = t[i + 1] /\ pv2[t[i + 1]] = t[i]
    <2> SUFFICES ASSUME NEW i \in 1 .. n - c - 1
                 PROVE  nx2[t[i]] = t[i + 1] /\ pv2[t[i + 1]] = t[i]
      OBVIOUS
    <2>1. /\ i \in 1 .. n - c /\ i + 1 \in 1 .. n - c
          /\ t[i] = s[ix(i)] /\ t[i + 1] = s[ix(i + 1)]
      BY <1>0, <1>3
    <2>2. s[ix(i)] \in Pages \ G /\ s[ix(i + 1)] \in Pages \ G
      BY <1>0, <1>1, <1>4, <1>5, <2>1
    <2>3. CASE i + 1 = b
      <3>1. ix(i) = b - 1 /\ ix(i + 1) = b + c /\ b > 1
        BY <1>0, <2>3 DEF ix
      <3> QED
        BY <1>0, <2>1, <2>2, <3>1
    <2>4. CASE i + 1 # b
      <3>1. /\ ix(i) \in 1 .. n - 1 /\ ix(i + 1) = ix(i) + 1 /\ ix(i) \in 1 .. n
            /\ ix(i) # b - 1 /\ ix(i) + 1 # b + c /\ ix(i) + 1 \in 1 .. n
            /\ b + c \in 1 .. n /\ (b > 1 => b - 1 \in 1 .. n)
        BY <1>0, <2>4 DEF ix
      <3>2. /\ b > 1 => s[ix(i)] # s[b - 1]
            /\ s[ix(i) + 1] # s[b + c]
        BY <1>4, <3>1
      <3>3. nx[s[ix(i)]] = s[ix(i) + 1] /\ pv[s[ix(i) + 1]] = s[ix(i)]
        BY <1>4, <3>1
      <3> QED
        BY <1>0, <2>1, <2>2, <3>1, <3>2, <3>3
    <2> QED
      BY <2>3, <2>4
  <1> QED
    <2>1. Chain(t, n - c, h2, nx2, pv2, F \ G)
      BY <1>6, <1>7, <1>8, <1>9, <1>10, <1>11, <1>12 DEF Chain
    <2> QED
      BY <2>1 DEF G

\* A list of usable frames is no longer than the memory map, and shorter than
\* that while one of them is not on it: len does not wrap.
LEMMA ChainLength ==
    ASSUME NEW n \in Nat, NEW h, NEW nx, NEW pv, NEW F \in SUBSET Usable,
           NEW s, Chain(s, n, h, nx, pv, F)
    PROVE  n <= Len(Map)
  <1> SUFFICES ASSUME n > Len(Map) PROVE FALSE
    BY MapFacts
  <1> DEFINE at == [i \in 1 .. n |-> CHOOSE j \in 1 .. Len(Map) : Map[j] = s[i]]
  <1>1. \A i \in 1 .. n : at[i] \in 1 .. Len(Map) /\ Map[at[i]] = s[i]
    <2> SUFFICES ASSUME NEW i \in 1 .. n
                 PROVE  at[i] \in 1 .. Len(Map) /\ Map[at[i]] = s[i]
      OBVIOUS
    <2>1. \E j \in 1 .. Len(Map) : Map[j] = s[i]
      BY DEF Chain, Usable
    <2> QED
      BY <2>1
  <1>2. at \in [1 .. n -> 1 .. Len(Map)]
    BY <1>1
  <1> HIDE DEF at
  <1>3. /\ IsFiniteSet(1 .. n) /\ IsFiniteSet(1 .. Len(Map))
        /\ Cardinality(1 .. n) = n /\ Cardinality(1 .. Len(Map)) = Len(Map)
    <2>1. /\ IsFiniteSet(1 .. n)
          /\ Cardinality(1 .. n) = IF 1 > n THEN 0 ELSE n - 1 + 1
      BY FS_Interval
    <2>2. /\ IsFiniteSet(1 .. Len(Map))
          /\ Cardinality(1 .. Len(Map)) = IF 1 > Len(Map) THEN 0 ELSE Len(Map) - 1 + 1
      BY FS_Interval, MapFacts
    <2> QED
      BY <2>1, <2>2, MapFacts
  <1>4. PICK i, j \in 1 .. n : i # j /\ at[i] = at[j]
    BY <1>2, <1>3, FS_PigeonHole
  <1> QED
    <2>1. s[i] = s[j]
      BY <1>1, <1>4
    <2> QED
      BY <1>4, <2>1 DEF Chain

-----------------------------------------------------------------------------
(* The list is sound while claims leave an entry behind *)

\* The entry the search is at is the k-th, and the ones before it that it has
\* counted are its neighbours below.
RunTo(r, s, k) ==
    /\ r.current = s[k]
    /\ r.base = r.current - r.contiguous + 1
    /\ \A j \in 0 .. r.contiguous - 1 : s[k - j] = r.current - j

ScanAt(s) ==
    Searching =>
        /\ scan.left <= len
        /\ scan.contiguous <= len - scan.left + 1
        /\ scan.contiguous > 1 => scan.base % scan.align = 0
        /\ scan.left > 0 => RunTo(scan, s, len - scan.left + 1)

OnList(s) ==
    /\ Chain(s, len, head, next, prev, Free)
    /\ boot < Len(Map) => EndsAt(s, len, tail)
    /\ ScanAt(s)

Lists ==
    /\ owners \in [Pages -> {0, 1}]
    /\ Free \subseteq Usable
    /\ boot > 0 => len > 0
    /\ boot > 0 /\ ~fault => \E s : OnList(s)

ListInv == TypeInv /\ Lists

LEMMA HandFree ==
    ASSUME owners \in [Pages -> {0, 1}], NEW S \in SUBSET Free, Hand(S)
    PROVE  owners' \in [Pages -> {0, 1}] /\ Free' = Free \ S
  BY DEF Hand, Free

LEMMA GiveUpFree ==
    ASSUME owners \in [Pages -> {0, 1}], NEW q \in Pages, owners[q] = 1, GiveUp(q)
    PROVE  owners' \in [Pages -> {0, 1}] /\ Free' = Free \cup {q} /\ q \notin Free
  BY DEF GiveUp, Free

\* What the code reads from the links of a sound list.
Reads(s, n, F) ==
    /\ \A i \in 1 .. n : s[i] \in Pages /\ s[i] \in F
    /\ \A i \in 1 .. n : Read(next[s[i]]) = {IF i = n THEN Nil ELSE s[i + 1]}
    /\ \A i \in 1 .. n : Read(prev[s[i]]) = {IF i = 1 THEN Nil ELSE s[i - 1]}

LEMMA ChainReads ==
    ASSUME NEW n \in Nat \ {0}, NEW h, NEW F, NEW s,
           Chain(s, n, h, next, prev, F)
    PROVE  Reads(s, n, F)
  <1>1. \A i \in 1 .. n : s[i] \in Pages /\ s[i] \in F
    BY DEF Chain
  <1>2. ASSUME NEW i \in 1 .. n
        PROVE  Read(next[s[i]]) = {IF i = n THEN Nil ELSE s[i + 1]}
    <2>1. CASE i = n
      <3>1. next[s[i]] = Nil
        BY <2>1 DEF Chain
      <3> QED
        BY <2>1, <3>1 DEF Read, Nil, Junk
    <2>2. CASE i # n
      <3>1. i \in 1 .. n - 1 /\ i + 1 \in 1 .. n
        BY <2>2
      <3>2. next[s[i]] = s[i + 1] /\ s[i + 1] # Junk
        BY <1>1, <3>1, MapFacts DEF Chain
      <3> QED
        BY <2>2, <3>2 DEF Read
    <2> QED
      BY <2>1, <2>2
  <1>3. ASSUME NEW i \in 1 .. n
        PROVE  Read(prev[s[i]]) = {IF i = 1 THEN Nil ELSE s[i - 1]}
    <2>1. CASE i = 1
      <3>1. prev[s[i]] = Nil
        BY <2>1 DEF Chain
      <3> QED
        BY <2>1, <3>1 DEF Read, Nil, Junk
    <2>2. CASE i # 1
      <3>1. i - 1 \in 1 .. n - 1 /\ i - 1 \in 1 .. n /\ i - 1 + 1 = i
        BY <2>2
      <3>2. prev[s[i]] = s[i - 1] /\ s[i - 1] # Junk
        BY <1>1, <3>1, MapFacts DEF Chain
      <3> QED
        BY <2>2, <3>2 DEF Read
    <2> QED
      BY <2>1, <2>2
  <1> QED
    BY <1>1, <1>2, <1>3 DEF Reads

LEMMA InitListed == Init => Lists
  <1> SUFFICES ASSUME Init PROVE Lists
    OBVIOUS
  <1>1. /\ owners = [p \in Pages |-> 1]
        /\ boot = 0
    BY DEF Init
  <1> QED
    BY <1>1 DEF Lists, Free

LEMMA InitListListed ==
    ASSUME ListInv, InitList
    PROVE  Lists'
  <1> DEFINE q == Map[1]
             t == [i \in 1 .. 1 |-> q]
  <1>1. /\ next' = [next EXCEPT ![q] = Nil]
        /\ prev' = [prev EXCEPT ![q] = Nil]
        /\ head' = q /\ tail' = q /\ len' = 1 /\ boot' = 1
        /\ GiveUp(q) /\ UNCHANGED <<scan, fault>> /\ boot = 0
    BY DEF InitList
  <1>2. q \in Pages /\ q \in Usable
    BY MapFacts DEF Usable
  <1>3. Free = {} /\ ~Searching
    <2>1. Pushed = {}
      BY <1>1 DEF Pushed
    <2>2. boot < Len(Map)
      BY <1>1, MapFacts
    <2> QED
      BY <2>1, <2>2 DEF ListInv, TypeInv, Booting, Free
  <1>4. next \in [Pages -> Words] /\ prev \in [Pages -> Words]
    BY DEF ListInv, TypeInv, TypeOK
  <1>5. owners[q] = 1 /\ owners \in [Pages -> {0, 1}]
    BY <1>2, <1>3 DEF ListInv, Lists, Free
  <1> HIDE DEF q
  <1>6. owners' \in [Pages -> {0, 1}] /\ Free' = {q}
    BY <1>1, <1>2, <1>3, <1>5, GiveUpFree
  <1>7. Chain(t, 1, q, next', prev', {q})
    BY <1>1, <1>2, <1>4 DEF Chain
  <1>8. OnList(t)'
    <2>1. Chain(t, len, head, next, prev, Free)'
      BY <1>1, <1>6, <1>7
    <2>2. EndsAt(t, len, tail)'
      BY <1>1 DEF EndsAt
    <2>3. ~Searching'
      BY <1>1, <1>3 DEF Searching
    <2> QED
      BY <2>1, <2>2, <2>3 DEF OnList, ScanAt
  <1> HIDE DEF t
  <1> QED
    BY <1>1, <1>2, <1>6, <1>8 DEF Lists

\* One more free frame on a list of usable frames does not make len wrap.
LEMMA NoWrap ==
    ASSUME len \in Nat, NEW h, NEW nx, NEW pv, NEW F \in SUBSET Usable,
           NEW s, Chain(s, len + 1, h, nx, pv, F)
    PROVE  Longer = len + 1
  <1>1. len + 1 <= Len(Map)
    BY ChainLength
  <1> QED
    BY <1>1, MapFacts, BoundsAssumption DEF Longer

LEMMA PushListed ==
    ASSUME ListInv, Push
    PROVE  Lists'
  <1> DEFINE q == Map[boot + 1]
  <1>1. /\ next' = [next EXCEPT ![q] = Nil, ![tail] = q]
        /\ prev' = [prev EXCEPT ![q] = tail]
        /\ head' = head /\ tail' = q /\ len' = Longer /\ boot' = boot + 1
        /\ GiveUp(q) /\ UNCHANGED <<scan, fault>>
        /\ boot \in 1 .. Len(Map) - 1
    BY DEF Push
  <1>2. q \in Pages /\ q \in Usable /\ q \notin Pushed
    BY <1>1, MapFacts DEF Usable, Pushed
  <1>3. /\ ~Searching /\ ~fault
        /\ \A p \in Pages : owners[p] = IF p \in Pushed THEN 0 ELSE 1
    BY <1>1, MapFacts DEF ListInv, TypeInv, Booting
  <1>4. /\ next \in [Pages -> Words] /\ prev \in [Pages -> Words]
        /\ len \in Nat \ {0} /\ owners \in [Pages -> {0, 1}]
        /\ Free \in SUBSET Pages /\ Free \subseteq Usable
    BY <1>1, BoundsAssumption DEF ListInv, TypeInv, TypeOK, Lists, Free
  <1>5. PICK s : OnList(s)
    BY <1>1, <1>3 DEF ListInv, Lists
  <1>6. Chain(s, len, head, next, prev, Free) /\ EndsAt(s, len, tail)
    BY <1>1, <1>5 DEF OnList
  <1> HIDE DEF q
  <1>7. owners[q] = 1 /\ q \in Pages \ Free
    BY <1>2, <1>3 DEF Free
  <1>8. owners' \in [Pages -> {0, 1}] /\ Free' = Free \cup {q}
    BY <1>1, <1>2, <1>4, <1>7, GiveUpFree
  <1>9. PICK t : Chain(t, len + 1, head, next', prev', Free \cup {q}) /\ EndsAt(t, len + 1, q)
    <2>1. tail \in Pages /\ tail # q
      BY <1>4, <1>6, <1>7 DEF Chain, EndsAt
    <2>2. LinksAppended(tail, q, next, prev, next', prev')
      BY <1>1, <1>2, <1>4, <2>1 DEF LinksAppended
    <2> QED
      BY <1>4, <1>6, <1>7, <2>2, AppendChain
  <1>10. len' = len + 1
    <2>1. Free \cup {q} \in SUBSET Usable
      BY <1>2, <1>4
    <2> QED
      BY <1>1, <1>4, <1>9, <2>1, NoWrap
  <1>11. OnList(t)'
    <2>1. ~Searching'
      BY <1>1, <1>3 DEF Searching
    <2> QED
      BY <1>1, <1>8, <1>9, <1>10, <2>1 DEF OnList, ScanAt
  <1> QED
    BY <1>2, <1>4, <1>8, <1>10, <1>11 DEF Lists

LEMMA PullListed ==
    ASSUME ListInv, NEW q \in Pages, Pull(q)
    PROVE  Lists'
  <1>1. /\ prev' = [prev EXCEPT ![q] = Nil, ![head] = q]
        /\ next' = [next EXCEPT ![q] = head]
        /\ head' = q /\ len' = Longer /\ owners[q] = 1
        /\ GiveUp(q) /\ UNCHANGED <<tail, boot, scan, fault>>
        /\ Ready
    BY DEF Pull, LinkFirst
  <1>2. q \in Usable /\ q \in Pages \ Free
    <2>1. DOMAIN Map = 1 .. Len(Map)
      BY MapAssumption
    <2> QED
      BY <1>1, <2>1 DEF Pull, Usable, Free
  <1>3. /\ next \in [Pages -> Words] /\ prev \in [Pages -> Words]
        /\ len \in Nat \ {0} /\ owners \in [Pages -> {0, 1}]
        /\ Free \in SUBSET Pages /\ Free \subseteq Usable
        /\ head \in Pages
    BY <1>1, MapFacts, BoundsAssumption, ReadyFacts
       DEF ListInv, TypeInv, TypeOK, Lists, Free
  <1>4. boot = Len(Map) /\ boot > 0 /\ ~fault /\ ~Searching
    BY <1>1, MapFacts DEF Ready
  <1>5. PICK s : OnList(s)
    BY <1>4 DEF ListInv, Lists
  <1>6. Chain(s, len, head, next, prev, Free)
    BY <1>5 DEF OnList
  <1>7. owners' \in [Pages -> {0, 1}] /\ Free' = Free \cup {q}
    BY <1>1, <1>2, <1>3, GiveUpFree
  <1>8. PICK t : Chain(t, len + 1, q, next', prev', Free \cup {q})
    <2>1. head # q
      BY <1>2, <1>3, <1>6 DEF Chain
    <2>2. \A p \in Pages : next'[p] = IF p = q THEN head ELSE next[p]
      BY <1>1, <1>3
    <2>3. \A p \in Pages :
            prev'[p] = IF p = head THEN q ELSE IF p = q THEN Nil ELSE prev[p]
      BY <1>1, <1>3, <2>1
    <2>4. LinksPrepended(head, q, next, prev, next', prev')
      BY <2>2, <2>3 DEF LinksPrepended
    <2> QED
      BY <1>2, <1>3, <1>6, <2>4, PrependChain
  <1>9. len' = len + 1
    <2>1. Free \cup {q} \in SUBSET Usable
      BY <1>2, <1>3
    <2> QED
      BY <1>1, <1>3, <1>8, <2>1, NoWrap
  <1>10. OnList(t)'
    <2>1. ~Searching' /\ ~(boot' < Len(Map))
      BY <1>1, <1>4, MapFacts DEF Searching
    <2> QED
      BY <1>1, <1>7, <1>8, <1>9, <2>1 DEF OnList, ScanAt
  <1> QED
    BY <1>2, <1>3, <1>7, <1>9, <1>10 DEF Lists

\* The head has a next entry, so what claim makes the new head is on the list.
LEMMA ClaimListed ==
    ASSUME ListInv, Claim, Reserve >= 2
    PROVE  Lists'
  <1>1. PICK n \in Read(next[head]) :
          /\ Second(n) \in Pages
          /\ next' = Scribble(next, {head})
          /\ prev' = Scribble([prev EXCEPT ![Second(n)] = Nil], {head})
          /\ head' = Second(n)
    BY DEF Claim
  <1>2. /\ len' = Shorter(1) /\ Hand({head}) /\ Ready /\ len >= 2
        /\ UNCHANGED <<tail, boot, scan, fault>>
    BY BoundsAssumption DEF Claim, ListInv, TypeInv, TypeOK
  <1>3. /\ next \in [Pages -> Links] /\ prev \in [Pages -> Links]
        /\ len \in Nat \ {0} /\ len < UsizeMod /\ owners \in [Pages -> {0, 1}]
        /\ Free \in SUBSET Pages /\ Free \subseteq Usable
        /\ head \in Pages
    BY <1>2, MapFacts, BoundsAssumption, ReadyFacts
       DEF ListInv, TypeInv, TypeOK, Lists, Free
  <1>4. boot = Len(Map) /\ boot > 0 /\ ~fault /\ ~Searching
    BY <1>2, MapFacts DEF Ready
  <1>5. PICK s : OnList(s)
    BY <1>4 DEF ListInv, Lists
  <1>6. Chain(s, len, head, next, prev, Free)
    BY <1>5 DEF OnList
  <1>7. /\ s[1] = head /\ head \in Free /\ s[2] \in Pages
        /\ n = s[2] /\ Second(n) = s[2]
    <2>1. 1 \in 1 .. len /\ 2 \in 1 .. len /\ 1 # len
      BY <1>2, <1>3
    <2>2. s[1] = head
      BY <1>3, <1>6 DEF Chain
    <2>3. /\ s[1] \in Free /\ s[2] \in Pages
          /\ Read(next[s[1]]) = {IF 1 = len THEN Nil ELSE s[1 + 1]}
      <3>1. /\ \A i \in 1 .. len : s[i] \in Pages /\ s[i] \in Free
            /\ \A i \in 1 .. len : Read(next[s[i]]) = {IF i = len THEN Nil ELSE s[i + 1]}
        <4>1. Reads(s, len, Free)
          BY <1>3, <1>6, ChainReads
        <4> QED
          BY <4>1 DEF Reads
      <3> QED
        BY <2>1, <3>1
    <2>4. n = s[2] /\ n # Nil
      BY <1>1, <2>1, <2>2, <2>3, MapFacts
    <2> QED
      BY <2>2, <2>3, <2>4 DEF Second
  <1>8. owners' \in [Pages -> {0, 1}] /\ Free' = Free \ {head}
    BY <1>2, <1>3, <1>7, HandFree
  <1>9. PICK t : Chain(t, len - 1, s[2], next', prev', Free \ {head})
    <2>1. /\ 1 \in 1 .. len /\ 1 \in Nat \ {0} /\ 1 + 1 <= len /\ 1 + 1 = 2
          /\ len \in Nat \ {0}
      BY <1>2, <1>3
    <2>2. Cut(s, 1, 1) = {head}
      BY <1>7 DEF Cut
    <2>3. Junk \in Links /\ [prev EXCEPT ![s[2]] = Nil] \in [Pages -> Links]
      BY <1>3, <1>7 DEF Links
    <2>4. \A p \in Pages \ {head} :
            next'[p] = IF 1 > 1 /\ p = s[1 - 1] THEN s[1 + 1] ELSE next[p]
      BY <1>1, <1>3, <2>3, ScribbleFacts
    <2>5. \A p \in Pages \ {head} :
            prev'[p] = IF p = s[1 + 1] THEN IF 1 = 1 THEN Nil ELSE s[1 - 1] ELSE prev[p]
      <3> DEFINE f == [prev EXCEPT ![s[2]] = Nil]
      <3>1. /\ f \in [Pages -> Links]
            /\ \A p \in Pages : f[p] = IF p = s[2] THEN Nil ELSE prev[p]
        BY <1>3, <2>3
      <3>2. prev' = Scribble(f, {head})
        BY <1>1, <1>7
      <3> HIDE DEF f
      <3>3. \A p \in Pages \ {head} : prev'[p] = f[p]
        BY <2>3, <3>1, <3>2, ScribbleFacts
      <3> QED
        BY <2>1, <3>1, <3>3
    <2>6. s[2] = IF 1 = 1 THEN s[1 + 1] ELSE head
      BY <2>1
    <2>7. LinksCut(s, 1, 1, head, s[2], next, prev, next', prev')
      BY <2>2, <2>4, <2>5, <2>6 DEF LinksCut
    <2>8. \E t : Chain(t, len - 1, s[2], next', prev', Free \ Cut(s, 1, 1))
      <3>1. PICK b, c : b = 1 /\ c = 1
        OBVIOUS
      <3>2. \E t : Chain(t, len - c, s[2], next', prev', Free \ Cut(s, b, c))
        <4>1. b \in 1 .. len /\ c \in Nat \ {0} /\ b + c <= len
          BY <2>1, <3>1
        <4>2. LinksCut(s, b, c, head, s[2], next, prev, next', prev')
          BY <2>7, <3>1
        <4> HIDE <3>1, <2>1, <2>7
        <4> QED
          BY <1>3, <1>6, <4>1, <4>2, CutChain
      <3> QED
        BY <3>1, <3>2
    <2> QED
      BY <2>2, <2>8
  <1>10. len' = len - 1
    BY <1>2, <1>3, BoundsAssumption DEF Shorter
  <1>11. OnList(t)'
    <2>1. ~Searching' /\ ~(boot' < Len(Map))
      BY <1>2, <1>4, MapFacts DEF Searching
    <2> QED
      BY <1>1, <1>7, <1>8, <1>9, <1>10, <2>1 DEF OnList, ScanAt
  <1> QED
    BY <1>2, <1>3, <1>8, <1>10, <1>11 DEF Lists

\* What the steps of a search may use of a sound list.
LEMMA SearchFacts ==
    ASSUME ListInv, Searching, ~fault
    PROVE  /\ boot = Len(Map) /\ boot > 0 /\ len \in Nat \ {0} /\ len < UsizeMod
           /\ scan \in Scans /\ scan.frames # 1
           /\ scan.contiguous \in Nat \ {0}
           /\ \E s : Chain(s, len, head, next, prev, Free) /\ ScanAt(s)
  <1>1. boot = Len(Map) /\ boot > 0
    BY MapFacts DEF ListInv, TypeInv, TypeOK, Booting
  <1>2. len \in Nat \ {0} /\ len < UsizeMod
    BY <1>1, BoundsAssumption DEF ListInv, Lists, TypeInv, TypeOK
  <1>3. scan \in Scans /\ scan.frames # 1 /\ scan.contiguous \in Nat \ {0}
    BY DEF ListInv, TypeInv, Counting, Scans
  <1> QED
    BY <1>1, <1>2, <1>3 DEF ListInv, Lists, OnList

\* Lists' for the steps that leave the list alone.
LEMMA SameList ==
    ASSUME ListInv, UNCHANGED <<next, prev, head, tail, len, boot, owners, fault>>,
           boot > 0 /\ ~fault =>
              \E s : OnList(s) /\ ScanAt(s)'
    PROVE  Lists'
  <1>1. /\ owners' \in [Pages -> {0, 1}] /\ Free' = Free /\ Free' \subseteq Usable
        /\ boot' > 0 => len' > 0
    BY DEF ListInv, Lists, Free
  <1>2. ASSUME boot' > 0 /\ ~fault' PROVE \E s : OnList(s)'
    <2>1. PICK s : OnList(s) /\ ScanAt(s)'
      BY <1>2
    <2>2. OnList(s)'
      BY <1>1, <2>1 DEF OnList
    <2> QED
      BY <2>2
  <1> QED
    BY <1>1, <1>2 DEF Lists

LEMMA SearchListed ==
    ASSUME ListInv, NEW n \in Sections, NEW a \in Aligns, Search(n, a)
    PROVE  Lists'
  <1>1. /\ scan' = NewSearch(n, a) /\ Ready
        /\ UNCHANGED <<next, prev, head, tail, len, boot, owners, fault>>
    BY DEF Search
  <1>2. boot > 0 /\ len \in Nat \ {0}
    BY <1>1, MapFacts, BoundsAssumption, ReadyFacts DEF ListInv, Lists, TypeInv, TypeOK
  <1>3. /\ NewSearch(n, a).base = head /\ NewSearch(n, a).current = head
        /\ NewSearch(n, a).contiguous = 1 /\ NewSearch(n, a).left = len
    BY DEF NewSearch
  <1>4. head \in Nat
    BY <1>1, ReadyFacts, PagesAreWords DEF ListInv
  <1>5. PICK s : OnList(s)
    BY <1>1, <1>2 DEF ListInv, Lists, Ready
  <1>6. s[1] = head
    BY <1>2, <1>5 DEF OnList, Chain
  <1>7. ScanAt(s)'
    <2>1. len - len + 1 = 1 /\ head = head - 1 + 1 /\ 0 .. 1 - 1 = {0} /\ head = head - 0
      BY <1>2, <1>4
    <2>2. RunTo(scan', s, 1)
      BY <1>1, <1>3, <1>6, <2>1 DEF RunTo
    <2> QED
      BY <1>1, <1>2, <1>3, <2>1, <2>2 DEF ScanAt
  <1> QED
    BY <1>1, <1>5, <1>7, SameList

\* One iteration of the loop, with and without a neighbour behind the entry.
LEMMA ExtendRun ==
    ASSUME NEW r \in Scans, NEW s, NEW k \in Nat, RunTo(r, s, k), NEW n \in Nat,
           r.contiguous \in Nat \ {0}, r.current \in Nat,
           n = s[k + 1], n = r.current + 1
    PROVE  RunTo(Extended(r, n), s, k + 1)
  <1> DEFINE c == r.contiguous
  <1>1. /\ Extended(r, n).current = n /\ Extended(r, n).base = r.base
        /\ Extended(r, n).contiguous = c + 1
    BY DEF Extended
  <1>2. /\ r.base = r.current - c + 1
        /\ \A j \in 0 .. c - 1 : s[k - j] = r.current - j
    BY DEF RunTo
  <1>3. c \in Nat /\ c + 1 - 1 = c
    OBVIOUS
  <1> HIDE DEF c
  <1>4. ASSUME NEW j \in 0 .. c PROVE s[k + 1 - j] = n - j
    <2>1. CASE j = 0
      <3>1. k + 1 - j = k + 1 /\ n - j = n
        BY <2>1
      <3> QED
        BY <3>1
    <2>2. CASE j # 0
      <3>1. j - 1 \in 0 .. c - 1 /\ k - (j - 1) = k + 1 - j
        BY <1>3, <2>2
      <3>2. s[k + 1 - j] = r.current - (j - 1)
        BY <1>2, <3>1
      <3> QED
        BY <1>3, <3>2
    <2> QED
      BY <2>1, <2>2
  <1>5. r.base = n - (c + 1) + 1
    BY <1>2, <1>3
  <1>6. \A j \in 0 .. (c + 1) - 1 : s[k + 1 - j] = n - j
    BY <1>3, <1>4
  <1> QED
    BY <1>1, <1>5, <1>6 DEF RunTo

LEMMA RestartRun ==
    ASSUME NEW r, NEW s, NEW k \in Nat, NEW n \in Nat, n = s[k + 1]
    PROVE  RunTo(Restarted(r, n), s, k + 1)
  <1>1. /\ Restarted(r, n).current = n /\ Restarted(r, n).base = n
        /\ Restarted(r, n).contiguous = 1
    BY DEF Restarted
  <1>2. ASSUME NEW j \in 0 .. 1 - 1 PROVE s[k + 1 - j] = n - j
    OBVIOUS
  <1> QED
    BY <1>1, <1>2 DEF RunTo

LEMMA StepListed ==
    ASSUME ListInv, Step
    PROVE  Lists'
  <1>1. PICK n \in Read(next[scan.current]) :
          scan' = IF Extends(n) THEN Extended(scan, n) ELSE Restarted(scan, n)
    BY DEF Step
  <1>2. /\ Searching /\ ~fault /\ scan.left > 0
        /\ UNCHANGED <<next, prev, head, tail, len, boot, owners, fault>>
    BY DEF Step, Looking
  <1>3. PICK s : OnList(s)
    BY <1>2, SearchFacts DEF ListInv, Lists
  <1>4. Chain(s, len, head, next, prev, Free) /\ ScanAt(s)
    BY <1>3 DEF OnList
  <1>0. PICK k, c : k = len - scan.left + 1 /\ c = scan.contiguous
    OBVIOUS
  <1>5. /\ len \in Nat \ {0} /\ scan \in Scans /\ c \in Nat \ {0}
        /\ scan.left \in Nat \ {0} /\ scan.left <= len /\ c <= k
        /\ RunTo(scan, s, k) /\ k \in 1 .. len
    <2>1. len \in Nat \ {0} /\ scan \in Scans /\ c \in Nat \ {0}
      BY <1>0, <1>2, SearchFacts
    <2>2. scan.left \in Nat \ {0}
      BY <1>2, <2>1 DEF Scans
    <2>3. scan.left <= len /\ c <= k /\ RunTo(scan, s, k)
      BY <1>0, <1>2, <1>4 DEF ScanAt
    <2> QED
      BY <1>0, <2>1, <2>2, <2>3
  <1>6. n = (IF k = len THEN Nil ELSE s[k + 1]) /\ scan.current \in Nat /\ n \in Nat
    <2>1. /\ \A i \in 1 .. len : s[i] \in Pages
          /\ \A i \in 1 .. len : Read(next[s[i]]) = {IF i = len THEN Nil ELSE s[i + 1]}
      <3>1. Reads(s, len, Free)
        BY <1>4, <1>5, ChainReads
      <3> QED
        BY <3>1 DEF Reads
    <2>2. scan.current = s[k]
      BY <1>5 DEF RunTo
    <2>3. n = IF k = len THEN Nil ELSE s[k + 1]
      BY <1>1, <1>5, <2>1, <2>2
    <2>4. k # len => k + 1 \in 1 .. len
      BY <1>5
    <2> QED
      BY <1>5, <2>1, <2>2, <2>3, <2>4, PagesAreWords DEF Nil
  <1>7. ScanAt(s)'
    <2>1. CASE Extends(n)
      <3>0. scan' = Extended(scan, n)
        BY <1>1, <2>1
      <3>1. /\ scan'.base = scan.base /\ scan'.align = scan.align
            /\ scan'.current = n /\ scan'.contiguous = c + 1
            /\ scan'.left = scan.left - 1
        BY <1>0, <1>1, <2>1 DEF Extended
      <3>2. n = scan.current + 1 /\ scan.base % scan.align = 0
        BY <2>1 DEF Extends
      <3>3. ASSUME scan.left - 1 > 0 PROVE RunTo(scan', s, k + 1)
        <4>1. n = s[k + 1] /\ k \in Nat
          BY <1>0, <1>5, <1>6, <3>3
        <4> QED
          BY <1>0, <1>5, <1>6, <3>0, <3>2, <4>1, ExtendRun
      <3>4. len' = len /\ len - (scan.left - 1) + 1 = k + 1 /\ c + 1 <= k + 1
            /\ scan.left - 1 <= len
        BY <1>0, <1>2, <1>5
      <3> QED
        BY <3>1, <3>2, <3>3, <3>4 DEF ScanAt
    <2>2. CASE ~Extends(n)
      <3>0. scan' = Restarted(scan, n)
        BY <1>1, <2>2
      <3>1. /\ scan'.base = n /\ scan'.current = n
            /\ scan'.contiguous = 1 /\ scan'.left = scan.left - 1
        BY <1>1, <2>2 DEF Restarted
      <3>2. ASSUME scan.left - 1 > 0 PROVE RunTo(scan', s, k + 1)
        <4>1. n = s[k + 1] /\ k \in Nat
          BY <1>0, <1>5, <1>6, <3>2
        <4> QED
          BY <1>6, <3>0, <4>1, RestartRun
      <3>3. len' = len /\ len - (scan.left - 1) + 1 = k + 1 /\ 1 <= k + 1
            /\ scan.left - 1 <= len
        BY <1>0, <1>2, <1>5
      <3> QED
        BY <3>1, <3>2, <3>3 DEF ScanAt
    <2> QED
      BY <2>1, <2>2
  <1> QED
    BY <1>2, <1>3, <1>7, SameList

LEMMA RefuseListed ==
    ASSUME ListInv, Refuse
    PROVE  Lists'
  <1>1. /\ scan' = Idle /\ Searching /\ ~fault
        /\ UNCHANGED <<next, prev, head, tail, len, boot, owners, fault>>
    BY DEF Refuse
  <1>2. PICK s : OnList(s)
    BY <1>1, SearchFacts DEF ListInv, Lists
  <1>3. ScanAt(s)'
    BY <1>1 DEF ScanAt, Searching
  <1> QED
    BY <1>1, <1>2, <1>3, SameList

LEMMA FaultListed ==
    ASSUME ListInv, ClaimFault \/ StepFault \/ TakeFault
    PROVE  Lists'
  <1>1. fault' = TRUE /\ UNCHANGED <<len, boot, owners>>
    BY DEF ClaimFault, StepFault, TakeFault, Fault
  <1> QED
    BY <1>1 DEF ListInv, Lists, Free

\* The section that Take cuts out stands on the list from the b-th entry on,
\* and what the code finds before and behind it are its neighbours there.
LEMMA FoundRun ==
    ASSUME ListInv, Looking, Found
    PROVE  /\ scan.frames \in Nat \ {0, 1} /\ scan.base % scan.align = 0
           /\ \E s, b :
                /\ Chain(s, len, head, next, prev, Free)
                /\ b \in 1 .. len /\ b + scan.frames - 1 <= len
                /\ Cut(s, b, scan.frames) = Section(scan.base, scan.frames)
                /\ Section(scan.base, scan.frames) \subseteq Free
                /\ Read(prev[scan.base]) = {IF b = 1 THEN Nil ELSE s[b - 1]}
                /\ Read(next[scan.current]) =
                     {IF b + scan.frames - 1 = len THEN Nil ELSE s[b + scan.frames]}
  <1>1. Searching /\ ~fault /\ scan.left > 0 /\ scan.contiguous = scan.frames
    BY DEF Looking, Found
  <1>2. /\ len \in Nat \ {0} /\ scan \in Scans
        /\ scan.frames # 1 /\ scan.contiguous \in Nat \ {0}
    BY <1>1, SearchFacts
  <1>3. PICK s : Chain(s, len, head, next, prev, Free) /\ ScanAt(s)
    BY <1>1, SearchFacts
  <1>4. PICK k, c : k = len - scan.left + 1 /\ c = scan.frames
    OBVIOUS
  <1>5. /\ c \in Nat \ {0, 1} /\ k \in 1 .. len /\ c <= k
        /\ scan.base % scan.align = 0
        /\ RunTo(scan, s, k)
    <2>1. scan.left \in Nat \ {0}
      BY <1>1, <1>2 DEF Scans
    <2> QED
      BY <1>1, <1>2, <1>3, <1>4, <2>1 DEF ScanAt
  <1>6. /\ scan.current = s[k]
        /\ scan.base = scan.current - c + 1
        /\ \A j \in 0 .. c - 1 : s[k - j] = scan.current - j
    BY <1>1, <1>4, <1>5 DEF RunTo
  <1>7. /\ \A i \in 1 .. len : s[i] \in Pages /\ s[i] \in Free
        /\ \A i \in 1 .. len : Read(next[s[i]]) = {IF i = len THEN Nil ELSE s[i + 1]}
        /\ \A i \in 1 .. len : Read(prev[s[i]]) = {IF i = 1 THEN Nil ELSE s[i - 1]}
    <2>1. len \in Nat \ {0} /\ Chain(s, len, head, next, prev, Free)
      BY <1>2, <1>3
    <2>2. Reads(s, len, Free)
      BY <2>1, ChainReads
    <2> QED
      BY <2>2 DEF Reads
  <1>8. PICK b : b = k - c + 1
    OBVIOUS
  <1>9. /\ b \in 1 .. len /\ b + c - 1 = k /\ b + c = k + 1 /\ k \in 1 .. len
        /\ b + c - 1 <= len
    BY <1>2, <1>5, <1>8
  <1>10. scan.current \in Nat
    BY <1>6, <1>7, <1>9, PagesAreWords
  <1>11. s[b] = scan.base
    <2>1. c - 1 \in 0 .. c - 1 /\ k - (c - 1) = b
      BY <1>5, <1>8, <1>9
    <2> QED
      BY <1>5, <1>6, <1>10, <2>1
  <1>12. Cut(s, b, c) = Section(scan.base, c)
    <2>1. ASSUME NEW i \in b .. b + c - 1
          PROVE  s[i] \in scan.base .. scan.base + c - 1
      <3>1. k - i \in 0 .. c - 1 /\ k - (k - i) = i
        BY <1>5, <1>9
      <3>2. s[i] = scan.current - (k - i)
        BY <1>6, <3>1
      <3> QED
        BY <1>5, <1>6, <1>9, <1>10, <3>1, <3>2
    <2>2. ASSUME NEW p \in scan.base .. scan.base + c - 1
          PROVE  \E i \in b .. b + c - 1 : s[i] = p
      <3>1. /\ scan.current - p \in 0 .. c - 1
            /\ k - (scan.current - p) \in b .. b + c - 1
            /\ scan.current - (scan.current - p) = p
        BY <1>5, <1>6, <1>9, <1>10
      <3> QED
        BY <1>6, <3>1
    <2> QED
      BY <2>1, <2>2 DEF Cut, Section
  <1>13. Cut(s, b, c) \subseteq Free
    <2>1. b .. b + c - 1 \subseteq 1 .. len
      BY <1>2, <1>5, <1>9
    <2> QED
      BY <1>7, <2>1 DEF Cut
  <1>14. Read(prev[scan.base]) = {IF b = 1 THEN Nil ELSE s[b - 1]}
    BY <1>7, <1>9, <1>11
  <1>15. Read(next[scan.current]) = {IF b + c - 1 = len THEN Nil ELSE s[b + c]}
    BY <1>6, <1>7, <1>9
  <1> QED
    BY <1>3, <1>4, <1>5, <1>9, <1>12, <1>13, <1>14, <1>15

LEMMA TakeListed ==
    ASSUME ListInv, Take
    PROVE  Lists'
  <1>1. Looking /\ Found /\ Searching /\ ~fault
    BY DEF Take, Looking
  <1>2. PICK s, b :
          /\ Chain(s, len, head, next, prev, Free)
          /\ b \in 1 .. len /\ b + scan.frames - 1 <= len
          /\ Cut(s, b, scan.frames) = Section(scan.base, scan.frames)
          /\ Section(scan.base, scan.frames) \subseteq Free
          /\ Read(prev[scan.base]) = {IF b = 1 THEN Nil ELSE s[b - 1]}
          /\ Read(next[scan.current]) =
               {IF b + scan.frames - 1 = len THEN Nil ELSE s[b + scan.frames]}
    BY <1>1, FoundRun
  <1>3. PICK c : c = scan.frames
    OBVIOUS
  <1>4. c \in Nat \ {0, 1}
    BY <1>1, <1>3, FoundRun
  <1>5. /\ boot = Len(Map) /\ boot > 0 /\ len \in Nat \ {0} /\ len < UsizeMod
        /\ next \in [Pages -> Links] /\ prev \in [Pages -> Links]
        /\ owners \in [Pages -> {0, 1}] /\ Free \in SUBSET Pages
        /\ Free \subseteq Usable
    BY <1>1, SearchFacts, LookingFacts DEF ListInv, Lists, Free
  <1>6. PICK before \in Read(prev[scan.base]), behind \in Read(next[scan.current]) :
          /\ behind \in Pages
          /\ prev' = Scribble([prev EXCEPT ![behind] = before], Section(scan.base, c))
          /\ IF before = Nil
               THEN /\ head' = behind
                    /\ next' = Scribble(next, Section(scan.base, c))
               ELSE /\ head' = head
                    /\ next' = Scribble([next EXCEPT ![before] = behind],
                                        Section(scan.base, c))
    BY <1>3 DEF Take
  <1>7. /\ len' = Shorter(c) /\ Hand(Section(scan.base, c))
        /\ scan' = Idle /\ UNCHANGED <<boot, fault, tail>>
    BY <1>3 DEF Take
  <1>8. \A i \in 1 .. len : s[i] \in Pages
    BY <1>2 DEF Chain
  <1>9. /\ b \in 1 .. len /\ b + c <= len /\ behind = s[b + c]
        /\ before = IF b = 1 THEN Nil ELSE s[b - 1]
    <2>1. behind = IF b + c - 1 = len THEN Nil ELSE s[b + c]
      BY <1>2, <1>3, <1>6
    <2>2. b + c - 1 # len
      BY <1>6, <2>1, MapFacts
    <2>3. b + c <= len
      BY <1>2, <1>3, <1>4, <1>5, <2>2
    <2> QED
      BY <1>2, <1>6, <2>1, <2>2, <2>3
  <1>10. owners' \in [Pages -> {0, 1}] /\ Free' = Free \ Cut(s, b, c)
    BY <1>2, <1>3, <1>5, <1>7, HandFree
  <1>11. LinksCut(s, b, c, head, head', next, prev, next', prev')
    <2> DEFINE G == Cut(s, b, c)
               f == [prev EXCEPT ![behind] = before]
               g == [next EXCEPT ![before] = behind]
    <2>1. before \in Links /\ (b # 1 => before \in Pages /\ before # Nil) /\ Junk \in Links
      <3>1. b # 1 => b - 1 \in 1 .. len
        BY <1>5, <1>9
      <3> QED
        BY <1>8, <1>9, <3>1, MapFacts DEF Links
    <2>2. /\ f \in [Pages -> Links]
          /\ \A p \in Pages : f[p] = IF p = behind THEN before ELSE prev[p]
          /\ g \in [Pages -> Links]
          /\ b # 1 => \A p \in Pages : g[p] = IF p = before THEN behind ELSE next[p]
      BY <1>5, <1>6, <2>1, MapFacts
    <2>3. /\ prev' = Scribble(f, G)
          /\ b = 1 => head' = behind /\ next' = Scribble(next, G)
          /\ b # 1 => head' = head /\ next' = Scribble(g, G)
      BY <1>2, <1>3, <1>6, <1>9, <2>1
    <2> HIDE DEF f, g, G
    <2>4. \A p \in Pages \ G :
            /\ prev'[p] = f[p]
            /\ b = 1 => next'[p] = next[p]
            /\ b # 1 => next'[p] = g[p]
      BY <1>5, <2>1, <2>2, <2>3, ScribbleFacts
    <2>5. head' = IF b = 1 THEN s[b + c] ELSE head
      BY <1>9, <2>3
    <2>6. \A p \in Pages \ G :
            next'[p] = IF b > 1 /\ p = s[b - 1] THEN s[b + c] ELSE next[p]
      <3>1. CASE b = 1
        BY <2>4, <3>1
      <3>2. CASE b # 1
        <4>1. b > 1 /\ before = s[b - 1]
          BY <1>9, <3>2
        <4> QED
          BY <1>9, <2>2, <2>4, <3>2, <4>1
      <3> QED
        BY <3>1, <3>2
    <2>7. \A p \in Pages \ G :
            prev'[p] = IF p = s[b + c] THEN IF b = 1 THEN Nil ELSE s[b - 1] ELSE prev[p]
      BY <1>9, <2>2, <2>4
    <2> QED
      BY <2>5, <2>6, <2>7 DEF LinksCut, G
  <1>12. PICK t : Chain(t, len - c, head', next', prev', Free \ Cut(s, b, c))
    <2>1. c \in Nat \ {0}
      BY <1>4
    <2> QED
      BY <1>2, <1>5, <1>9, <1>11, <2>1, CutChain
  <1>13. len' = len - c /\ len' > 0
    BY <1>4, <1>5, <1>7, <1>9, BoundsAssumption DEF Shorter
  <1>14. OnList(t)'
    <2>1. ~Searching' /\ ~(boot' < Len(Map))
      BY <1>5, <1>7, MapFacts DEF Searching
    <2> QED
      BY <1>10, <1>12, <1>13, <2>1 DEF OnList, ScanAt
  <1> QED
    BY <1>5, <1>10, <1>13, <1>14 DEF Lists

-----------------------------------------------------------------------------
(* Theorems *)

LEMMA ListInit == Init => ListInv
  BY TypeInit, InitListed DEF ListInv

LEMMA ListNext ==
    ASSUME Reserve >= 2
    PROVE  ListInv /\ [Next]_vars => ListInv'
  <1> SUFFICES ASSUME ListInv, [Next]_vars PROVE ListInv'
    OBVIOUS
  <1>1. TypeInv'
    BY TypeNext DEF ListInv
  <1>2. Lists'
    <2>1. CASE UNCHANGED vars
      <3>1. UNCHANGED <<next, prev, head, tail, len, boot, owners, scan, fault>>
        BY <2>1 DEF vars
      <3>2. \A s : ScanAt(s) => ScanAt(s)'
        BY <3>1 DEF ScanAt, Searching
      <3> QED
        BY <3>1, <3>2, SameList DEF ListInv, Lists, OnList
    <2>2. CASE Next
      BY <2>2, InitListListed, PushListed, PullListed, ClaimListed, SearchListed,
         StepListed, TakeListed, RefuseListed, FaultListed DEF Next
    <2> QED
      BY <2>1, <2>2
  <1> QED
    BY <1>1, <1>2 DEF ListInv

\* While every claim leaves a frame on the list, no sequence of claims,
\* searches and frees hands a frame out that somebody holds, nor a page that
\* is not usable memory (claim, claim_continuous, claim_aligned, pull).
THEOREM NeverHandedOutTwice ==
    ASSUME Reserve >= 2
    PROVE  Spec => []Exclusive
  <1>1. ListInv => Exclusive
    BY DEF ListInv, Lists, Exclusive
  <1> QED
    BY <1>1, ListInit, ListNext, PTL DEF Spec

\* What a search is about to cut out is free and aligned (claim_aligned).
THEOREM SectionAlwaysFree ==
    ASSUME Reserve >= 2
    PROVE  Spec => []SectionFree
  <1>1. ListInv => SectionFree
    <2> SUFFICES ASSUME ListInv, Looking, Found
                 PROVE  /\ Section(scan.base, scan.frames) \subseteq Free
                        /\ scan.base % scan.align = 0
      BY DEF SectionFree
    <2> QED
      BY FoundRun
  <1> QED
    BY <1>1, ListInit, ListNext, PTL DEF Spec

\* The loop over len entries, which tests no link, never leaves the list.
THEOREM SearchStaysOnList ==
    ASSUME Reserve >= 2
    PROVE  Spec => []SearchOnList
  <1>1. ListInv => SearchOnList
    <2> SUFFICES ASSUME ListInv, Searching, ~fault, scan.left > 0
                 PROVE  scan.current \in Free
      BY DEF SearchOnList
    <2>1. /\ len \in Nat \ {0} /\ scan \in Scans
      BY SearchFacts
    <2>2. PICK s : Chain(s, len, head, next, prev, Free) /\ ScanAt(s)
      BY SearchFacts
    <2>3. scan.current = s[len - scan.left + 1] /\ scan.left <= len
      BY <2>2 DEF ScanAt, RunTo
    <2>4. len - scan.left + 1 \in 1 .. len
      BY <2>1, <2>3 DEF Scans
    <2> QED
      BY <2>2, <2>3, <2>4 DEF Chain
  <1> QED
    BY <1>1, ListInit, ListNext, PTL DEF Spec

-----------------------------------------------------------------------------
(* What a step writes, and what it hands out *)

SparesHeld ==
    \A p \in Pages :
        owners[p] > 0 /\ owners'[p] > 0 => next'[p] = next[p] /\ prev'[p] = prev[p]

\* The head, and the entries next to it, are free.
LEMMA HeadFree ==
    ASSUME ListInv, boot > 0, ~fault
    PROVE  /\ head \in Free /\ head \in Pages /\ len \in Nat \ {0}
           /\ next \in [Pages -> Links] /\ prev \in [Pages -> Links]
           /\ owners \in [Pages -> {0, 1}]
           /\ \A n \in Read(next[head]) : n \in Free \/ n = Nil
           /\ boot < Len(Map) => tail \in Free
  <1>1. /\ len \in Nat \ {0} /\ next \in [Pages -> Links] /\ prev \in [Pages -> Links]
        /\ owners \in [Pages -> {0, 1}]
    BY BoundsAssumption DEF ListInv, Lists, TypeInv, TypeOK, Linked
  <1>2. PICK s : OnList(s)
    BY DEF ListInv, Lists
  <1>3. Chain(s, len, head, next, prev, Free)
    BY <1>2 DEF OnList
  <1>4. s[1] = head /\ 1 \in 1 .. len /\ len \in 1 .. len
    BY <1>1, <1>3 DEF Chain
  <1>5. /\ \A i \in 1 .. len : s[i] \in Pages /\ s[i] \in Free
        /\ \A i \in 1 .. len : Read(next[s[i]]) = {IF i = len THEN Nil ELSE s[i + 1]}
    <2>1. len \in Nat \ {0}
      BY <1>1
    <2>2. Reads(s, len, Free)
      BY <1>3, <2>1, ChainReads
    <2> QED
      BY <2>2 DEF Reads
  <1>6. \A n \in Read(next[head]) : n \in Free \/ n = Nil
    <2>1. Read(next[head]) = {IF 1 = len THEN Nil ELSE s[1 + 1]}
      BY <1>4, <1>5
    <2>2. 1 # len => 1 + 1 \in 1 .. len
      BY <1>1
    <2> QED
      BY <1>5, <2>1, <2>2
  <1>7. boot < Len(Map) => tail \in Free
    BY <1>2, <1>4, <1>5 DEF OnList, EndsAt
  <1> QED
    BY <1>1, <1>4, <1>5, <1>6, <1>7

LEMMA BootSpares ==
    ASSUME ListInv, InitList \/ Push
    PROVE  SparesHeld
  <1> DEFINE q == Map[boot + 1]
  <1>1. q \in Pages /\ boot \in Nat /\ boot < Len(Map)
    BY MapFacts DEF InitList, Push
  <1>2. GiveUp(q)
    BY DEF InitList, Push
  <1>3. next \in [Pages -> Words] /\ prev \in [Pages -> Words]
        /\ owners \in [Pages -> {0, 1}] /\ ~fault
    BY <1>1 DEF ListInv, Lists, TypeInv, TypeOK, Booting
  <1>4. ~(owners'[q] > 0)
    BY <1>1, <1>2, <1>3 DEF GiveUp
  <1>5. CASE InitList
    <2>1. \A p \in Pages \ {q} : next'[p] = next[p] /\ prev'[p] = prev[p]
      BY <1>3, <1>5 DEF InitList
    <2> QED
      BY <1>4, <2>1 DEF SparesHeld
  <1>6. CASE Push
    <2>1. tail \in Free
      BY <1>1, <1>3, <1>6, HeadFree DEF Push
    <2>2. \A p \in Pages \ {q, tail} : next'[p] = next[p] /\ prev'[p] = prev[p]
      BY <1>3, <1>6 DEF Push
    <2> QED
      BY <1>4, <2>1, <2>2 DEF SparesHeld, Free
  <1> QED
    BY <1>5, <1>6

LEMMA PullSpares ==
    ASSUME ListInv, NEW q \in Pages, Pull(q)
    PROVE  SparesHeld
  <1>1. Ready /\ GiveUp(q) /\ owners[q] = 1
        /\ prev' = [prev EXCEPT ![q] = Nil, ![head] = q]
        /\ next' = [next EXCEPT ![q] = head]
    BY DEF Pull, LinkFirst
  <1>2. head \in Free /\ next \in [Pages -> Links] /\ prev \in [Pages -> Links]
        /\ owners \in [Pages -> {0, 1}]
    BY <1>1, HeadFree, MapFacts DEF Ready
  <1>3. owners'[q] = 0
    BY <1>1, <1>2 DEF GiveUp
  <1>4. \A p \in Pages \ {q, head} : next'[p] = next[p] /\ prev'[p] = prev[p]
    BY <1>1, <1>2
  <1> QED
    BY <1>2, <1>3, <1>4 DEF SparesHeld, Free

LEMMA ClaimSpares ==
    ASSUME ListInv, Claim, Reserve >= 2
    PROVE  SparesHeld
  <1>1. PICK n \in Read(next[head]) :
          /\ Second(n) \in Pages
          /\ next' = Scribble(next, {head})
          /\ prev' = Scribble([prev EXCEPT ![Second(n)] = Nil], {head})
    BY DEF Claim
  <1>2. Ready /\ len >= 2
    BY BoundsAssumption DEF Claim, ListInv, TypeInv, TypeOK
  <1>3. head \in Free /\ next \in [Pages -> Links] /\ prev \in [Pages -> Links]
        /\ len \in Nat \ {0} /\ boot > 0 /\ ~fault
    BY <1>2, HeadFree, MapFacts DEF Ready
  <1>4. n \in Free /\ Second(n) = n
    <2>1. PICK s : Chain(s, len, head, next, prev, Free)
      BY <1>3 DEF ListInv, Lists, OnList
    <2>2. 1 \in 1 .. len /\ 1 \in 1 .. len - 1 /\ 1 + 1 \in 1 .. len /\ 1 # len
      BY <1>2, <1>3
    <2>3. s[1] = head
      BY <1>3, <2>1 DEF Chain
    <2>4. /\ \A i \in 1 .. len : s[i] \in Pages /\ s[i] \in Free
          /\ \A i \in 1 .. len : Read(next[s[i]]) = {IF i = len THEN Nil ELSE s[i + 1]}
      <3>1. len \in Nat \ {0}
        BY <1>3
      <3>2. Reads(s, len, Free)
        BY <2>1, <3>1, ChainReads
      <3> QED
        BY <3>2 DEF Reads
    <2>5. n = s[1 + 1]
      BY <1>1, <2>2, <2>3, <2>4
    <2> QED
      BY <2>2, <2>4, <2>5, MapFacts DEF Second
  <1> DEFINE f == [prev EXCEPT ![Second(n)] = Nil]
  <1>5. /\ f \in [Pages -> Links] /\ Junk \in Links
        /\ \A p \in Pages \ {n} : f[p] = prev[p]
    BY <1>3, <1>4 DEF Links
  <1>6. prev' = Scribble(f, {head})
    BY <1>1
  <1> HIDE DEF f
  <1>7. \A p \in Pages \ {n, head} : next'[p] = next[p] /\ prev'[p] = prev[p]
    BY <1>1, <1>3, <1>5, <1>6, ScribbleFacts
  <1> QED
    BY <1>3, <1>4, <1>7 DEF SparesHeld, Free

\* What stands before and behind a section on the list is free.
LEMMA NeighboursFree ==
    ASSUME ListInv, Looking, Found
    PROVE  /\ Section(scan.base, scan.frames) \subseteq Free
           /\ \A p \in Read(prev[scan.base]) : p \in Free \/ p = Nil
           /\ \A p \in Read(next[scan.current]) : p \in Free \/ p = Nil
  <1>1. PICK s, b :
          /\ Chain(s, len, head, next, prev, Free)
          /\ b \in 1 .. len /\ b + scan.frames - 1 <= len
          /\ Section(scan.base, scan.frames) \subseteq Free
          /\ Read(prev[scan.base]) = {IF b = 1 THEN Nil ELSE s[b - 1]}
          /\ Read(next[scan.current]) =
               {IF b + scan.frames - 1 = len THEN Nil ELSE s[b + scan.frames]}
    BY FoundRun
  <1>2. PICK c : c = scan.frames
    OBVIOUS
  <1>3. len \in Nat \ {0} /\ c \in Nat \ {0, 1}
    BY <1>2, FoundRun, SearchFacts DEF Looking
  <1>4. /\ b # 1 => b - 1 \in 1 .. len
        /\ b + c - 1 # len => b + c \in 1 .. len
    BY <1>1, <1>2, <1>3
  <1>5. \A i \in 1 .. len : s[i] \in Free
    BY <1>1 DEF Chain
  <1> QED
    BY <1>1, <1>2, <1>4, <1>5

LEMMA TakeSpares ==
    ASSUME ListInv, Take
    PROVE  SparesHeld
  <1> DEFINE G == Section(scan.base, scan.frames)
  <1>1. PICK before \in Read(prev[scan.base]), behind \in Read(next[scan.current]) :
          /\ before \in Pages \cup {Nil} /\ behind \in Pages
          /\ prev' = Scribble([prev EXCEPT ![behind] = before], G)
          /\ IF before = Nil
               THEN next' = Scribble(next, G)
               ELSE next' = Scribble([next EXCEPT ![before] = behind], G)
    BY DEF Take
  <1>2. G \subseteq Free /\ behind \in Free /\ (before # Nil => before \in Free)
    <2>1. Looking /\ Found
      BY DEF Take
    <2> HIDE DEF G
    <2>2. /\ \A p \in Read(prev[scan.base]) : p \in Free \/ p = Nil
          /\ \A p \in Read(next[scan.current]) : p \in Free \/ p = Nil
      BY <2>1, NeighboursFree
    <2>3. G \subseteq Free
      BY <2>1, NeighboursFree DEF G
    <2> QED
      BY <1>1, <2>2, <2>3, MapFacts
  <1>3. next \in [Pages -> Links] /\ prev \in [Pages -> Links]
    BY LookingFacts DEF Take, ListInv
  <1> DEFINE f == [prev EXCEPT ![behind] = before]
             g == [next EXCEPT ![before] = behind]
  <1>4. /\ f \in [Pages -> Links] /\ g \in [Pages -> Links] /\ Junk \in Links
        /\ \A p \in Pages \ {behind} : f[p] = prev[p]
        /\ \A p \in Pages \ {before} : g[p] = next[p]
    BY <1>1, <1>3, MapFacts DEF Links
  <1>5. /\ prev' = Scribble(f, G)
        /\ next' = Scribble(next, G) \/ next' = Scribble(g, G)
    BY <1>1
  <1> HIDE DEF f, g, G
  <1>6. \A p \in Pages \ G : prev'[p] = f[p] /\ next'[p] \in {next[p], g[p]}
    BY <1>3, <1>4, <1>5, ScribbleFacts
  <1>7. \A p \in Pages : owners[p] > 0 => p \notin Free
    BY DEF Free
  <1>8. before = Nil => before \notin Pages
    BY MapFacts
  <1> QED
    BY <1>2, <1>4, <1>6, <1>7, <1>8 DEF SparesHeld

LEMMA FaultSpares ==
    ASSUME ListInv, ClaimFault \/ StepFault \/ TakeFault
    PROVE  SparesHeld
  <1>1. next \in [Pages -> Links] /\ prev' = prev
    BY ReadyFacts, LookingFacts DEF ListInv, ClaimFault, StepFault, TakeFault
  <1>2. CASE ClaimFault
    <2>1. head \in Free
      BY <1>2, HeadFree, MapFacts DEF ClaimFault, Ready
    <2>2. \A p \in Pages \ {head} : next'[p] = next[p]
      BY <1>1, <1>2 DEF ClaimFault
    <2> QED
      BY <1>1, <2>1, <2>2 DEF SparesHeld, Free
  <1>3. CASE StepFault
    BY <1>3 DEF StepFault, SparesHeld
  <1>4. CASE TakeFault
    <2>1. PICK before \in Read(prev[scan.base]), behind \in Read(next[scan.current]) :
            next' = IF before \in Pages THEN [next EXCEPT ![before] = behind]
                                        ELSE next
      BY <1>4 DEF TakeFault
    <2>2. before \in Pages => before \in Free
      BY <1>4, <2>1, NeighboursFree, MapFacts DEF TakeFault
    <2>3. \A p \in Pages : p # before => next'[p] = next[p]
      BY <1>1, <2>1
    <2> QED
      BY <1>1, <2>2, <2>3 DEF SparesHeld, Free
  <1> QED
    BY <1>2, <1>3, <1>4

\* The allocator never writes into a page that somebody holds before and after
\* the step: not through a stale link, and not at the ends of a section.
THEOREM HeldNeverWritten ==
    ASSUME Reserve >= 2
    PROVE  Spec => HeldUntouched
  <1>1. ListInv /\ [Next]_vars => [SparesHeld]_vars
    <2> SUFFICES ASSUME ListInv, Next PROVE SparesHeld
      OBVIOUS
    <2>1. ASSUME UNCHANGED <<next, prev>> PROVE SparesHeld
      BY <2>1 DEF SparesHeld
    <2> QED
      BY <2>1, BootSpares, PullSpares, ClaimSpares, TakeSpares, FaultSpares
         DEF Next, Search, Step, Refuse
  <1> QED
    BY <1>1, ListInit, ListNext, PTL DEF Spec, HeldUntouched, SparesHeld

-----------------------------------------------------------------------------
(* The list implements the allocator *)

asked == IF Searching THEN <<scan.frames, scan.align>> ELSE << >>

LEMMA AskedFacts ==
    /\ Searching => asked = <<scan.frames, scan.align>> /\ asked # << >>
    /\ ~Searching => asked = << >>
  BY DEF asked

LEMMA RefinesBoot ==
    ASSUME ListInv, InitList \/ Push
    PROVE  Allocator!Next
  <1> DEFINE q == Map[boot + 1]
  <1>1. q \in Usable /\ q \in Pages /\ boot \in Nat /\ boot < Len(Map) /\ q \notin Pushed
    BY MapFacts DEF InitList, Push, Usable, Pushed
  <1>2. GiveUp(q) /\ UNCHANGED <<scan, fault>>
    BY DEF InitList, Push
  <1>3. /\ ~Searching /\ ~fault /\ owners \in [Pages -> {0, 1}]
        /\ owners[q] = 1
    BY <1>1 DEF ListInv, Lists, TypeInv, Booting
  <1> HIDE DEF q
  <1>4. Free' = Free \cup {q} /\ q \notin Free
    BY <1>1, <1>2, <1>3, GiveUpFree
  <1>5. asked = << >> /\ asked' = asked
    BY <1>2, <1>3 DEF asked, Searching
  <1>6. q \in {Map[i] : i \in DOMAIN Map}
    BY <1>1, MapAssumption DEF Usable
  <1> QED
    BY <1>2, <1>3, <1>4, <1>5, <1>6 DEF Allocator!Next, Allocator!Add, asked

LEMMA RefinesPull ==
    ASSUME ListInv, NEW q \in Pages, Pull(q)
    PROVE  Allocator!Next
  <1>1. /\ Ready /\ GiveUp(q) /\ owners[q] = 1 /\ UNCHANGED <<scan, fault>>
        /\ q \in {Map[i] : i \in DOMAIN Map}
    BY DEF Pull
  <1>2. ~Searching /\ ~fault /\ owners \in [Pages -> {0, 1}]
    BY <1>1 DEF ListInv, Lists, Ready
  <1>3. Free' = Free \cup {q} /\ q \notin Free
    BY <1>1, <1>2, GiveUpFree
  <1>4. asked = << >> /\ asked' = asked
    BY <1>1, <1>2 DEF asked, Searching
  <1> QED
    BY <1>1, <1>2, <1>3, <1>4 DEF Allocator!Next, Allocator!Add, asked

LEMMA RefinesClaim ==
    ASSUME ListInv, Claim
    PROVE  Allocator!Next
  <1>1. Ready /\ Hand({head}) /\ UNCHANGED <<scan, fault>>
    BY DEF Claim
  <1>2. ~Searching /\ ~fault /\ boot > 0
    BY <1>1, MapFacts DEF Ready
  <1>3. head \in Free /\ owners \in [Pages -> {0, 1}]
    BY <1>2, HeadFree
  <1>4. Free' = Free \ {head}
    BY <1>1, <1>3, HandFree
  <1>5. asked = << >> /\ asked' = asked
    BY <1>1, <1>2 DEF asked, Searching
  <1> QED
    BY <1>1, <1>2, <1>3, <1>4, <1>5 DEF Allocator!Next, Allocator!One, asked

LEMMA RefinesSearch ==
    ASSUME ListInv, NEW n \in Sections, NEW a \in Aligns, Search(n, a)
    PROVE  Allocator!Next
  <1>1. Ready /\ scan' = NewSearch(n, a) /\ UNCHANGED <<owners, fault>>
    BY DEF Search
  <1>2. /\ NewSearch(n, a).frames = n /\ NewSearch(n, a).align = a
        /\ NewSearch(n, a).contiguous = 1 /\ Idle.contiguous = 0
    BY DEF NewSearch, Idle
  <1>3. Searching'
    BY <1>1, <1>2 DEF Searching
  <1>4. n \in Nat \ {1} /\ a \in Nat \ {0}
    BY RequestAssumption
  <1>5. asked = << >> /\ asked' = <<n, a>>
    BY <1>1, <1>2, <1>3 DEF asked, Ready
  <1>6. asked' \in (Nat \ {1}) \X (Nat \ {0})
    BY <1>4, <1>5
  <1>7. Free' = Free /\ ~fault
    BY <1>1 DEF Free, Ready
  <1> QED
    BY <1>1, <1>5, <1>6, <1>7 DEF Allocator!Next, Allocator!Ask, asked

LEMMA RefinesStep ==
    ASSUME ListInv, Step
    PROVE  UNCHANGED Allocator!vars
  <1>1. /\ \E n : scan' = IF Extends(n) THEN Extended(scan, n) ELSE Restarted(scan, n)
        /\ Searching /\ UNCHANGED <<owners, fault>> /\ scan.contiguous \in Nat \ {0}
    BY SearchFacts DEF Step, Looking
  <1>2. /\ scan'.frames = scan.frames /\ scan'.align = scan.align
        /\ scan'.contiguous # 0
    BY <1>1 DEF Extended, Restarted
  <1>3. Searching'
    BY <1>2 DEF Searching, Idle
  <1>4. asked' = asked
    BY <1>1, <1>2, <1>3 DEF asked
  <1>5. Free' = Free
    BY <1>1 DEF Free
  <1> QED
    BY <1>1, <1>4, <1>5 DEF Allocator!vars, asked

LEMMA RefinesTake ==
    ASSUME ListInv, Take
    PROVE  Allocator!Next
  <1>1. /\ Looking /\ Found /\ Searching /\ ~fault
        /\ Hand(Section(scan.base, scan.frames))
        /\ scan' = Idle /\ UNCHANGED fault
    BY DEF Take, Looking
  <1>2. /\ scan.frames \in Nat \ {0, 1} /\ scan.base % scan.align = 0
        /\ Section(scan.base, scan.frames) \subseteq Free
    BY <1>1, FoundRun
  <1>3. scan.base \in Section(scan.base, scan.frames)
    <2>1. scan.base \in Int
      BY <1>1, LookingFacts DEF ListInv, Scans, Words, Junk
    <2> QED
      BY <1>2, <2>1 DEF Section
  <1>4. Free' = Free \ Section(scan.base, scan.frames)
    BY <1>1, <1>2, HandFree DEF ListInv, Lists
  <1>5. asked # << >> /\ asked[1] = scan.frames /\ asked[2] = scan.align
    BY <1>1, AskedFacts
  <1>6. asked' = << >>
    BY <1>1 DEF asked, Searching
  <1>7. Section(scan.base, scan.frames) = scan.base .. scan.base + asked[1] - 1
    BY <1>5 DEF Section
  <1>8. Allocator!Grant
    BY <1>1, <1>2, <1>3, <1>4, <1>5, <1>6, <1>7 DEF Allocator!Grant, asked
  <1> QED
    BY <1>1, <1>8 DEF Allocator!Next

LEMMA RefinesRefuse ==
    ASSUME ListInv, Refuse
    PROVE  Allocator!Next
  <1>1. Searching /\ ~fault /\ scan' = Idle /\ UNCHANGED <<owners, fault>>
    BY DEF Refuse
  <1>2. asked # << >> /\ asked' = << >>
    BY <1>1, AskedFacts DEF asked, Searching
  <1>3. Free' = Free
    BY <1>1 DEF Free
  <1> QED
    BY <1>1, <1>2, <1>3 DEF Allocator!Next, Allocator!Refuse, asked

LEMMA RefinesFault ==
    ASSUME ListInv, ClaimFault \/ StepFault \/ TakeFault
    PROVE  Allocator!Next
  <1>1. ~fault /\ fault' = TRUE /\ UNCHANGED <<owners, scan>>
    BY DEF ClaimFault, StepFault, TakeFault, Fault, Ready, Looking
  <1>2. Free' = Free /\ asked' = asked
    BY <1>1 DEF Free, asked, Searching
  <1> QED
    BY <1>1, <1>2 DEF Allocator!Next, Allocator!Halt, asked

\* Each claim takes one free frame, each search exactly the aligned section
\* that was asked for or nothing, and each freed frame can be claimed again.
THEOREM ImplementsFrameAllocator ==
    ASSUME Reserve >= 2
    PROVE  Spec => ImplementsAllocator
  <1>1. Init => Allocator!Init
    <2> SUFFICES ASSUME Init PROVE Allocator!Init
      OBVIOUS
    <2>1. Free = {} /\ ~Searching /\ ~fault
      BY DEF Init, Free, Searching
    <2> QED
      BY <2>1 DEF Allocator!Init
  <1>2. ListInv /\ [Next]_vars => [Allocator!Next]_(Allocator!vars)
    <2> SUFFICES ASSUME ListInv, [Next]_vars
                 PROVE  Allocator!Next \/ UNCHANGED Allocator!vars
      OBVIOUS
    <2>1. CASE UNCHANGED vars
      BY <2>1 DEF vars, Allocator!vars, Free, Searching
    <2>2. CASE Next
      BY <2>2, RefinesBoot, RefinesPull, RefinesClaim, RefinesSearch, RefinesStep,
         RefinesTake, RefinesRefuse, RefinesFault DEF Next
    <2> QED
      BY <2>1, <2>2
  <1> QED
    BY <1>1, <1>2, ListInit, ListNext, PTL DEF Spec, ImplementsAllocator, Allocator!Spec

-----------------------------------------------------------------------------
(* The order the list is walked in *)

\* A set of naturals that is not empty has a least element.
LEMMA LeastOf ==
    ASSUME NEW T \in SUBSET Nat, T # {}
    PROVE  \E x \in T : \A y \in T : x <= y
  <1> DEFINE R == {pair \in Nat \X Nat : pair[1] < pair[2]}
  <1>1. IsWellFoundedOn(R, Nat)
    BY NatLessThanWellFounded DEF OpToRel
  <1>2. \A x, y \in Nat : <<x, y>> \in R <=> x < y
    OBVIOUS
  <1> HIDE DEF R
  <1>3. PICK x \in T : \A y \in T : ~(<<y, x>> \in R)
    BY <1>1, WFMin
  <1>4. \A y \in T : ~(y < x)
    BY <1>2, <1>3, Zenon
  <1> QED
    BY <1>4

\* The function that defines Order from itself.
Walk(f) == [i \in 1 .. len |-> IF i = 1 THEN head ELSE Follow(f[i - 1])]

\* Following the links is well defined: a list that the links enumerate is the
\* only function that does.
LEMMA WalkUnique ==
    ASSUME NEW s, NEW t, len \in Nat, s = Walk(s), t = Walk(t)
    PROVE  s = t
  <1> DEFINE T == {i \in 1 .. len : s[i] # t[i]}
  <1>1. T = {}
    <2> SUFFICES ASSUME T # {} PROVE FALSE
      OBVIOUS
    <2>0. T \in SUBSET Nat
      OBVIOUS
    <2> HIDE DEF T
    <2>1. PICK x \in T : \A y \in T : x <= y
      BY <2>0, LeastOf
    <2> USE DEF T
    <2>2. /\ s[x] = IF x = 1 THEN head ELSE Follow(s[x - 1])
          /\ t[x] = IF x = 1 THEN head ELSE Follow(t[x - 1])
      BY <2>1 DEF Walk
    <2>3. x # 1 => x - 1 \in 1 .. len /\ x - 1 \notin T
      BY <2>1
    <2>4. x # 1 => s[x - 1] = t[x - 1]
      BY <2>3
    <2> QED
      BY <2>1, <2>2, <2>4
  <1>2. \A i \in 1 .. len : s[i] = t[i]
    BY <1>1
  <1>3. DOMAIN s = 1 .. len /\ DOMAIN t = 1 .. len
    BY DEF Walk
  <1>4. s = [i \in 1 .. len |-> s[i]] /\ t = [i \in 1 .. len |-> t[i]]
    BY <1>3 DEF Walk
  <1> QED
    BY <1>2, <1>4

\* A list of the free frames is the order in which the links are followed.
LEMMA ListedOrder ==
    ASSUME NEW s, len \in Nat, Chain(s, len, head, next, prev, Free)
    PROVE  s = Order
  <1>1. s = Walk(s)
    <2>1. s = [i \in 1 .. len |-> s[i]] /\ \A i \in 1 .. len : s[i] \in Pages
      BY DEF Chain
    <2>2. ASSUME NEW i \in 1 .. len
          PROVE  s[i] = IF i = 1 THEN head ELSE Follow(s[i - 1])
      <3>1. CASE i = 1
        BY <3>1 DEF Chain
      <3>2. CASE i # 1
        <4>1. i - 1 \in 1 .. len - 1 /\ i - 1 \in 1 .. len /\ i - 1 + 1 = i
          BY <3>2
        <4>2. next[s[i - 1]] = s[i] /\ s[i - 1] \in Pages
          BY <4>1 DEF Chain
        <4> QED
          BY <3>2, <4>2 DEF Follow
      <3> QED
        BY <3>1, <3>2
    <2> QED
      BY <2>1, <2>2 DEF Walk
  <1>2. Order = CHOOSE f : f = Walk(f)
    BY DEF Order, Walk
  <1>3. Order = Walk(Order)
    BY <1>1, <1>2
  <1> QED
    BY <1>1, <1>3, WalkUnique

\* No other sequence enumerates the free frames along the links.
EveryListOrder ==
    \A s : len \in Nat /\ Chain(s, len, head, next, prev, Free) => s = Order

LEMMA OrderListed == EveryListOrder
  BY ListedOrder DEF EveryListOrder

\* Steps that leave head, links and owners alone leave the order alone.
LEMMA SameOrder ==
    ASSUME NEW s, len \in Nat, Chain(s, len, head, next, prev, Free),
           UNCHANGED <<next, prev, head, len, owners>>
    PROVE  s = Order /\ Order' = Order
  <1>1. EveryListOrder
    BY OrderListed
  <1>2. EveryListOrder'
    BY OrderListed, PTL
  <1>3. Free' = Free
    BY DEF Free
  <1>4. s = Order
    BY <1>1 DEF EveryListOrder
  <1>5. len' \in Nat /\ Chain(s, len', head', next', prev', Free')
    BY <1>3
  <1>6. s = Order'
    BY <1>2, <1>5 DEF EveryListOrder
  <1> QED
    BY <1>4, <1>6

\* There is no list before pmm::init, and no frame to list.
EmptyAtBoot == boot = 0 => len = 0

\* Every entry below the base of the run a search has counted was tried as the
\* base of a section and is none.
Covered ==
    Searching /\ ~fault /\ scan.frames > 0 =>
        /\ scan.contiguous <= scan.frames
        /\ scan.left = 0 => scan.contiguous = 1
        /\ \A i \in 1 .. len - scan.left + 1 - scan.contiguous : ~RunAt(Order, i)

SearchInv == ListInv /\ EmptyAtBoot /\ Covered

\* A run that is broken off, or whose base is not aligned, holds no section at
\* any of its entries.
LEMMA NoRunWithin ==
    ASSUME NEW s, NEW k \in Nat, NEW c \in Nat \ {0}, len \in Nat \ {0}, k <= len, c <= k,
           scan \in Scans, scan.contiguous = c, c < scan.frames, RunTo(scan, s, k),
           c > 1 => scan.base % scan.align = 0,
           \A i \in 1 .. len : s[i] \in Nat,
           ~ (k < len /\ s[k + 1] = scan.current + 1 /\ scan.base % scan.align = 0),
           NEW i \in Nat, k - c < i, i <= k
    PROVE  ~RunAt(s, i)
  <1> DEFINE fr == scan.frames
             al == scan.align
  <1>0. fr \in Nat /\ al \in Nat /\ c < fr
    BY DEF Scans
  <1> SUFFICES ASSUME RunAt(s, i) PROVE FALSE
    OBVIOUS
  <1>1. /\ i + fr - 1 <= len /\ s[i] % al = 0
        /\ \A j \in 1 .. fr - 1 : s[i + j] = s[i] + j
    BY DEF RunAt
  <1>2. /\ scan.current = s[k]
        /\ scan.base = s[k] - c + 1
        /\ \A j \in 0 .. c - 1 : s[k - j] = s[k] - j
    BY DEF RunTo
  <1> HIDE DEF fr, al
  <1>3. k < len /\ k + 1 - i \in 1 .. fr - 1
    BY <1>0, <1>1
  <1>4. s[k + 1] = s[i] + (k + 1 - i)
    <2>1. i + (k + 1 - i) = k + 1
      BY <1>3
    <2> QED
      BY <1>1, <1>3, <2>1
  <1>5. s[i] = s[k] - (k - i)
    <2>1. k - i \in 0 .. c - 1 /\ k - (k - i) = i
      OBVIOUS
    <2> QED
      BY <1>2, <2>1
  <1>6. s[k] \in Nat /\ s[i] \in Nat /\ s[k + 1] \in Nat
    <2>1. k \in 1 .. len /\ i \in 1 .. len /\ k + 1 \in 1 .. len
      BY <1>3
    <2> QED
      BY <2>1
  <1>7. s[k + 1] = scan.current + 1
    BY <1>2, <1>4, <1>5, <1>6
  <1>8. scan.base % scan.align = 0
    <2>1. CASE c > 1
      BY <2>1
    <2>2. CASE c = 1
      <3>1. i = k /\ scan.base = s[i]
        BY <1>2, <1>6, <2>2
      <3> QED
        BY <1>1, <3>1 DEF al
    <2> QED
      BY <2>1, <2>2
  <1> QED
    BY <1>3, <1>7, <1>8

LEMMA CoveredSearch ==
    ASSUME SearchInv, NEW n \in Sections, NEW a \in Aligns, Search(n, a)
    PROVE  Covered'
  <1>1. /\ scan' = NewSearch(n, a) /\ Ready /\ n # 1
        /\ UNCHANGED <<next, prev, head, tail, len, boot, owners, fault>>
    BY DEF Search
  <1>2. boot > 0 /\ len \in Nat \ {0}
    BY <1>1, MapFacts, BoundsAssumption, ReadyFacts
       DEF SearchInv, ListInv, Lists, TypeInv, TypeOK
  <1>3. /\ scan'.frames = n /\ scan'.contiguous = 1 /\ scan'.left = len
    BY <1>1 DEF NewSearch
  <1>4. n \in Nat
    BY RequestAssumption
  <1>5. len' - scan'.left + 1 - scan'.contiguous = 0
    BY <1>1, <1>2, <1>3
  <1> QED
    BY <1>1, <1>2, <1>3, <1>4, <1>5 DEF Covered

LEMMA CoveredStep ==
    ASSUME SearchInv, Step
    PROVE  Covered'
  <1>0. ListInv
    BY DEF SearchInv
  <1>1. PICK n \in Read(next[scan.current]) :
          scan' = IF Extends(n) THEN Extended(scan, n) ELSE Restarted(scan, n)
    BY DEF Step
  <1>2. /\ Searching /\ ~fault /\ scan.left > 0 /\ ~Found
        /\ UNCHANGED <<next, prev, head, tail, len, boot, owners, fault>>
    BY DEF Step, Looking
  <1>3. PICK s : Chain(s, len, head, next, prev, Free) /\ ScanAt(s)
    BY <1>0, <1>2, SearchFacts
  <1>4. PICK k, c : k = len - scan.left + 1 /\ c = scan.contiguous
    OBVIOUS
  <1>5. /\ len \in Nat \ {0} /\ scan \in Scans /\ c \in Nat \ {0}
        /\ scan.left \in Nat \ {0} /\ scan.left <= len /\ c <= k
        /\ RunTo(scan, s, k) /\ k \in 1 .. len /\ k \in Nat
        /\ c > 1 => scan.base % scan.align = 0
    <2>1. len \in Nat \ {0} /\ scan \in Scans /\ c \in Nat \ {0}
      BY <1>0, <1>2, <1>4, SearchFacts
    <2>2. scan.left \in Nat \ {0}
      BY <1>2, <2>1 DEF Scans
    <2>3. scan.left <= len /\ c <= k /\ RunTo(scan, s, k)
          /\ (c > 1 => scan.base % scan.align = 0)
      BY <1>2, <1>3, <1>4 DEF ScanAt
    <2> QED
      BY <1>4, <2>1, <2>2, <2>3
  <1>6. /\ n = (IF k = len THEN Nil ELSE s[k + 1]) /\ scan.current \in Nat \ {0}
        /\ \A i \in 1 .. len : s[i] \in Nat
    <2>1. /\ \A i \in 1 .. len : s[i] \in Pages
          /\ \A i \in 1 .. len : Read(next[s[i]]) = {IF i = len THEN Nil ELSE s[i + 1]}
      <3>1. Reads(s, len, Free)
        BY <1>3, <1>5, ChainReads
      <3> QED
        BY <3>1 DEF Reads
    <2>2. scan.current = s[k]
      BY <1>5 DEF RunTo
    <2>3. n = IF k = len THEN Nil ELSE s[k + 1]
      BY <1>1, <1>5, <2>1, <2>2
    <2> QED
      BY <1>5, <2>1, <2>2, <2>3, MapFacts
  <1>7. s = Order /\ Order' = Order
    BY <1>2, <1>3, <1>5, SameOrder
  <1> SUFFICES ASSUME scan'.frames > 0 PROVE Covered'
    BY DEF Covered
  <1>8. scan'.frames = scan.frames /\ scan'.align = scan.align /\ scan'.left = scan.left - 1
    BY <1>1 DEF Extended, Restarted
  <1>9. c < scan.frames /\ \A i \in 1 .. k - c : ~RunAt(s, i)
    <2>1. c <= scan.frames /\ \A i \in 1 .. len - scan.left + 1 - c : ~RunAt(s, i)
      BY <1>2, <1>4, <1>7, <1>8 DEF SearchInv, Covered
    <2>2. scan.frames \in Nat /\ c # scan.frames
      BY <1>2, <1>4, <1>5 DEF Scans, Found
    <2> QED
      BY <1>4, <1>5, <2>1, <2>2
  <1>10. \A i : RunAt(Order, i)' = RunAt(s, i)
    BY <1>2, <1>7, <1>8 DEF RunAt
  <1>11. CASE Extends(n)
    <2>1. scan'.contiguous = c + 1
      BY <1>1, <1>4, <1>11 DEF Extended
    <2>2. k # len
      BY <1>6, <1>11 DEF Extends, Nil
    <2>3. scan.left - 1 # 0 /\ len - (scan.left - 1) + 1 - (c + 1) = k - c
      BY <1>4, <1>5, <2>2
    <2>4. c + 1 <= scan.frames
      BY <1>5, <1>9 DEF Scans
    <2> QED
      BY <1>2, <1>8, <1>9, <1>10, <2>1, <2>3, <2>4 DEF Covered
  <1>12. CASE ~Extends(n)
    <2>1. scan'.contiguous = 1
      BY <1>1, <1>12 DEF Restarted
    <2>2. ~ (k < len /\ s[k + 1] = scan.current + 1 /\ scan.base % scan.align = 0)
      BY <1>5, <1>6, <1>12 DEF Extends
    <2>3. \A i \in Nat : k - c < i /\ i <= k => ~RunAt(s, i)
      BY <1>4, <1>5, <1>6, <1>9, <2>2, NoRunWithin
    <2>4. \A i \in 1 .. k : ~RunAt(s, i)
      BY <1>5, <1>9, <2>3
    <2>5. len - (scan.left - 1) + 1 - 1 = k
      BY <1>4, <1>5
    <2>6. 1 <= scan.frames
      BY <1>5, <1>9 DEF Scans
    <2> QED
      BY <1>2, <1>8, <1>10, <2>1, <2>4, <2>5, <2>6 DEF Covered
  <1> QED
    BY <1>11, <1>12

LEMMA SearchInvNext ==
    ASSUME Reserve >= 2
    PROVE  SearchInv /\ [Next]_vars => SearchInv'
  <1> SUFFICES ASSUME SearchInv, [Next]_vars
               PROVE  SearchInv'
    OBVIOUS
  <1>1. ListInv /\ ListInv'
    BY ListNext DEF SearchInv
  <1>2. EmptyAtBoot'
    <2>1. boot = 0 => ~Ready /\ ~Searching
      BY <1>1, MapFacts DEF ListInv, TypeInv, Booting, Ready
    <2>2. CASE boot = 0
      BY <2>1, <2>2, MapFacts
         DEF Next, vars, InitList, Push, Pull, Claim, ClaimFault, Search, Step, StepFault, Take,
             TakeFault, Refuse, Looking, SearchInv, EmptyAtBoot
    <2>3. CASE boot # 0
      <3>1. boot' # 0
        BY <2>3, <1>1, MapFacts
           DEF Next, vars, InitList, Push, Pull, Claim, ClaimFault, Search, Step, StepFault, Take,
               TakeFault, Refuse, Fault, ListInv, TypeInv, TypeOK
      <3> QED
        BY <3>1 DEF EmptyAtBoot
    <2> QED
      BY <2>2, <2>3
  <1>3. Covered'
    <2>1. CASE \E n \in Sections, a \in Aligns : Search(n, a)
      BY <2>1, CoveredSearch
    <2>2. CASE Step
      BY <2>2, CoveredStep
    <2>3. CASE InitList \/ Push \/ (\E new \in Pages : Pull(new)) \/ Claim
      <3>1. ~Searching /\ scan' = scan
        BY <2>3, <1>1, MapFacts
           DEF InitList, Push, Pull, Claim, Ready, ListInv, TypeInv, TypeOK, Booting
      <3> QED
        BY <3>1 DEF Covered, Searching
    <2>4. CASE ClaimFault \/ StepFault \/ TakeFault
      <3>1. fault' = TRUE
        BY <2>4 DEF ClaimFault, StepFault, TakeFault, Fault
      <3> QED
        BY <3>1 DEF Covered
    <2>5. CASE Take \/ Refuse
      <3>1. scan' = Idle
        BY <2>5 DEF Take, Refuse
      <3> QED
        BY <3>1 DEF Covered, Searching
    <2>6. CASE UNCHANGED vars
      <3> SUFFICES ASSUME Searching, ~fault PROVE Covered'
        BY <2>6 DEF vars, Covered, Searching
      <3>1. /\ UNCHANGED <<next, prev, head, len, owners, scan, fault>>
        BY <2>6 DEF vars
      <3>2. PICK s : Chain(s, len, head, next, prev, Free)
        BY <1>1, SearchFacts
      <3>3. Order' = Order
        BY <1>1, <3>1, <3>2, SearchFacts, SameOrder
      <3> QED
        BY <3>1, <3>3 DEF SearchInv, Covered, RunAt, Searching
    <2> QED
      BY <2>1, <2>2, <2>3, <2>4, <2>5, <2>6 DEF Next
  <1> QED
    BY <1>1, <1>2, <1>3 DEF SearchInv

LEMMA SearchInvInit == Init => SearchInv
  <1> SUFFICES ASSUME Init PROVE SearchInv
    OBVIOUS
  <1>1. EmptyAtBoot /\ Covered
    BY DEF Init, EmptyAtBoot, Covered, Searching
  <1> QED
    BY <1>1, ListInit DEF SearchInv

\* pmm.rs, pull, claim, claim_continuous, claim_aligned: while every claim leaves a
\* frame on the list, following the links from head for len entries meets every
\* free frame, each once, and the back links agree.
THEOREM ListAlwaysSound ==
    ASSUME Reserve >= 2
    PROVE  Spec => []ListSound
  <1>1. SearchInv => ListSound
    <2> SUFFICES ASSUME SearchInv, ~fault PROVE IsList(Order)
      BY DEF ListSound
    <2>1. CASE boot > 0
      <3>1. len \in Nat
        BY DEF SearchInv, ListInv, TypeInv, TypeOK
      <3>2. PICK s : Chain(s, len, head, next, prev, Free)
        BY <2>1 DEF SearchInv, ListInv, Lists, OnList
      <3>3. s = Order
        BY <3>1, <3>2, ListedOrder
      <3>4. IsList(s)
        BY <3>2 DEF Chain, IsList
      <3> QED
        BY <3>3, <3>4
    <2>2. CASE ~(boot > 0)
      <3>1. boot = 0 /\ boot < Len(Map)
        BY <2>2, MapFacts DEF SearchInv, ListInv, TypeInv, TypeOK
      <3>2. len = 0
        BY <3>1 DEF SearchInv, EmptyAtBoot
      <3>3. Free = {}
        <4>1. Pushed = {}
          BY <3>1 DEF Pushed
        <4> QED
          BY <3>1, <4>1 DEF SearchInv, ListInv, TypeInv, Booting, Free
      <3> QED
        BY <3>2, <3>3 DEF IsList
    <2> QED
      BY <2>1, <2>2
  <1> QED
    BY <1>1, SearchInvInit, SearchInvNext, PTL DEF Spec

\* claim_continuous and claim_aligned return Err only if no aligned run of as many
\* frames as were asked for is free, in the order the list has them.
THEOREM RefusalJustified ==
    ASSUME Reserve >= 2
    PROVE  Spec => []SearchComplete
  <1>1. SearchInv => SearchComplete
    <2> SUFFICES ASSUME SearchInv, Searching, ~fault, scan.left = 0, scan.frames > 0
                 PROVE  \A i \in 1 .. len : ~RunAt(Order, i)
      BY DEF SearchComplete
    <2>1. len \in Nat
      BY DEF SearchInv, ListInv, TypeInv, TypeOK
    <2>2. len - scan.left + 1 - scan.contiguous = len
      BY <2>1 DEF SearchInv, Covered
    <2> QED
      BY <2>2 DEF SearchInv, Covered
  <1> QED
    BY <1>1, SearchInvInit, SearchInvNext, PTL DEF Spec
=============================================================================
