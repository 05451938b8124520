------------------------------- MODULE FreeList -------------------------------
(***************************************************************************)
(* The physical frame allocator (LSD/src/memory/pmm.rs): a doubly linked   *)
(* list whose links are stored in the free frames themselves.              *)
(*                                                                         *)
(* Every operation runs under the lock of REGION_LIST and is one action.   *)
(* The loop of claim_continuous and claim_aligned is one action per        *)
(* iteration, with the lock held from the first to the last: the two       *)
(* differ only in the alignment test, which an alignment of 1 always       *)
(* passes, so that claim_continuous(n) is Search(n, 1).                    *)
(***************************************************************************)
EXTENDS Integers, Sequences

CONSTANTS
    Pages,     \* the page numbers the HHDM maps
    Map,       \* the usable ones in the order pmm::init meets them
    Sections,  \* the lengths claim_continuous and claim_aligned are asked for
    Aligns,    \* the alignments, in pages
    Reserve,   \* bound: claim is called while this many entries are listed
    MaxOwners, \* bound: a page is claimed at most this often at once
    UsizeMod   \* bound: usize arithmetic wraps at this modulus

\* Page 0 is where a null pointer points; Limine's usable entries are disjoint.
ASSUME MapAssumption ==
    /\ Pages \subseteq Nat \ {0}
    /\ Map \in Seq(Pages)
    /\ Map # << >>
    /\ \A i, j \in DOMAIN Map : Map[i] = Map[j] => i = j

ASSUME RequestAssumption ==
    /\ Sections \subseteq Nat \ {1}
    /\ Aligns \subseteq Nat \ {0}

ASSUME BoundsAssumption ==
    /\ Reserve \in Nat
    /\ MaxOwners \in Nat
    /\ UsizeMod \in Nat
    /\ Len(Map) < UsizeMod

VARIABLES
    next, prev,  \* the words of each page that a FreeListEntry keeps there
    head, tail, len,
    boot,        \* how many frames of Map pmm::init has put into the list
    owners,      \* per page, how many hold it; nobody holds a listed frame
    scan,        \* the loop of a search in progress
    fault        \* the kernel dereferenced a pointer to no page and hangs

vars == <<next, prev, head, tail, len, boot, owners, scan, fault>>

Nil == 0
Junk == -1   \* whatever the owner of a page has written over its links
Words == Nat \cup {Junk}

\* What the code finds when it reads a link; Junk now is no page's address.
Read(w) == IF w = Junk THEN Pages \cup {Nil, Junk} ELSE {w}

Idle == [frames |-> 0, align |-> 1, base |-> Nil, current |-> Nil,
         contiguous |-> 0, left |-> 0]
Searching == scan # Idle

Free == {p \in Pages : owners[p] = 0}

Section(b, n) == b .. b + n - 1

\* FreeList::null(), before pmm::init
Init ==
    /\ next = [p \in Pages |-> Junk]
    /\ prev = [p \in Pages |-> Junk]
    /\ head = Nil
    /\ tail = Nil
    /\ len = 0
    /\ boot = 0
    /\ owners = [p \in Pages |-> 1]
    /\ scan = Idle
    /\ fault = FALSE

Ready == boot = Len(Map) /\ ~Searching /\ ~fault

\* The holders of the pages in S write what they like over the links there.
Scribble(f, S) == [p \in Pages |-> IF p \in S THEN Junk ELSE f[p]]

Hand(S) == owners' = [p \in Pages |-> IF p \in S THEN owners[p] + 1 ELSE owners[p]]
GiveUp(p) == owners' = [owners EXCEPT ![p] = @ - 1]

Longer == (len + 1) % UsizeMod

\* The kernel stops in the middle of what it did to the list.
Fault == fault' = TRUE /\ UNCHANGED <<tail, len, boot, owners, scan>>

-----------------------------------------------------------------------------
(* pmm::init: FreeList::init for the first frame, push for the others *)

InitList ==
    /\ boot = 0
    /\ next' = [next EXCEPT ![Map[1]] = Nil]
    /\ prev' = [prev EXCEPT ![Map[1]] = Nil]
    /\ head' = Map[1]
    /\ tail' = Map[1]
    /\ len' = 1
    /\ boot' = 1
    /\ GiveUp(Map[1])
    /\ UNCHANGED <<scan, fault>>

Push ==
    /\ boot \in 1 .. Len(Map) - 1
    /\ LET new == Map[boot + 1] IN
         /\ next' = [next EXCEPT ![new] = Nil, ![tail] = new]
         /\ prev' = [prev EXCEPT ![new] = tail]
         /\ tail' = new
         /\ GiveUp(new)
    /\ len' = Longer
    /\ boot' = boot + 1
    /\ UNCHANGED <<head, scan, fault>>

\* Deviations: the old head gets no back link; the frame goes behind the tail.
PullNoBackLink(new) ==
    /\ prev' = [prev EXCEPT ![new] = Nil]
    /\ next' = [next EXCEPT ![new] = head]
    /\ head' = new
PullBehindTail(new) ==
    /\ prev' = [prev EXCEPT ![new] = tail]
    /\ next' = [next EXCEPT ![new] = Nil, ![tail] = new]
    /\ head' = head

LinkFirst(new) ==
    /\ prev' = [prev EXCEPT ![new] = Nil, ![head] = new]
    /\ next' = [next EXCEPT ![new] = head]
    /\ head' = new

\* pull, for a frame its one holder gives back (Vmm::free, frame by frame).
Pull(new) ==
    /\ Ready
    /\ new \in {Map[i] : i \in DOMAIN Map}
    /\ owners[new] = 1
    /\ LinkFirst(new)
    /\ len' = Longer
    /\ GiveUp(new)
    /\ UNCHANGED <<tail, boot, scan, fault>>

-----------------------------------------------------------------------------
(* claim *)

\* Deviation: a claim leaves the head where it is.
SecondKeepsHead(n) == head

\* The entry behind the head; where there is none, FIXME, the page behind it.
Second(n) == IF n = Nil THEN head + 1 ELSE n

\* Deviation: the claimed frames are subtracted twice.
ShorterTwice(n) == len - n - n

Shorter(n) == (len - n) % UsizeMod

Claim ==
    /\ Ready
    /\ len >= Reserve
    /\ owners[head] < MaxOwners
    /\ \E n \in Read(next[head]) :
         LET second == Second(n) IN
         /\ second \in Pages
         /\ next' = Scribble(next, {head})
         /\ prev' = Scribble([prev EXCEPT ![second] = Nil], {head})
         /\ head' = second
    /\ len' = Shorter(1)
    /\ Hand({head})
    /\ UNCHANGED <<tail, boot, scan, fault>>

\* The page behind the head does not exist.
ClaimFault ==
    /\ Ready
    /\ len >= Reserve
    /\ \E n \in Read(next[head]) :
         /\ Second(n) \notin Pages
         /\ next' = [next EXCEPT ![head] = Second(n)]
    /\ UNCHANGED <<prev, head>>
    /\ Fault

-----------------------------------------------------------------------------
(* claim_continuous and claim_aligned *)

\* Deviation: the loop counts one entry too many.
SearchTooLong(n, a) ==
    [frames |-> n, align |-> a, base |-> head, current |-> head,
     contiguous |-> 1, left |-> len + 1]

NewSearch(n, a) ==
    [frames |-> n, align |-> a, base |-> head, current |-> head,
     contiguous |-> 1, left |-> len]

Search(n, a) ==
    /\ Ready
    /\ n # 1
    /\ scan' = NewSearch(n, a)
    /\ UNCHANGED <<next, prev, head, tail, len, boot, owners, fault>>

Looking == Searching /\ ~fault /\ scan.left > 0
Found == scan.contiguous = scan.frames

\* Deviation: the alignment of the base is not tested.
ExtendsUnaligned(n) == n = scan.current + 1

Extends(n) == n = scan.current + 1 /\ scan.base % scan.align = 0

Extended(s, n) ==
    [frames |-> s.frames, align |-> s.align, base |-> s.base, current |-> n,
     contiguous |-> s.contiguous + 1, left |-> s.left - 1]

\* Deviation: the new base is not counted.
RestartedAtZero(s, n) ==
    [frames |-> s.frames, align |-> s.align, base |-> n, current |-> n,
     contiguous |-> 0, left |-> s.left - 1]

Restarted(s, n) ==
    [frames |-> s.frames, align |-> s.align, base |-> n, current |-> n,
     contiguous |-> 1, left |-> s.left - 1]

\* One iteration that goes on to the next entry.
Step ==
    /\ Looking
    /\ ~Found
    /\ scan.current \in Pages
    /\ \E n \in Read(next[scan.current]) :
         scan' = IF Extends(n) THEN Extended(scan, n) ELSE Restarted(scan, n)
    /\ UNCHANGED <<next, prev, head, tail, len, boot, owners, fault>>

\* The list has fewer entries than len says.
StepFault ==
    /\ Looking
    /\ scan.current \notin Pages
    /\ UNCHANGED <<next, prev, head>>
    /\ Fault

\* The iteration that unlinks the section: what stands before its base and
\* behind its last entry is linked together, and the caller gets the base.
Take ==
    /\ Looking
    /\ Found
    /\ LET section == Section(scan.base, scan.frames) IN
         /\ \A p \in section : owners[p] < MaxOwners
         /\ \E before \in Read(prev[scan.base]), behind \in Read(next[scan.current]) :
              /\ before \in Pages \cup {Nil}
              /\ behind \in Pages
              /\ prev' = Scribble([prev EXCEPT ![behind] = before], section)
              /\ IF before = Nil
                   THEN /\ head' = behind
                        /\ next' = Scribble(next, section)
                   ELSE /\ head' = head
                        /\ next' = Scribble([next EXCEPT ![before] = behind], section)
         /\ Hand(section)
    /\ len' = Shorter(scan.frames)
    /\ scan' = Idle
    /\ UNCHANGED <<tail, boot, fault>>

\* A section at the end of the list: nothing is behind it, and the code
\* writes the back link of what is behind it all the same.
TakeFault ==
    /\ Looking
    /\ Found
    /\ \E before \in Read(prev[scan.base]), behind \in Read(next[scan.current]) :
         /\ before \notin Pages \cup {Nil} \/ behind \notin Pages
         /\ head' = IF before = Nil THEN behind ELSE head
         /\ next' = IF before \in Pages THEN [next EXCEPT ![before] = behind]
                                      ELSE next
    /\ prev' = prev
    /\ Fault

\* Err("Couldnt find contiguous frames").
Refuse ==
    /\ Searching
    /\ ~fault
    /\ scan.left = 0
    /\ scan' = Idle
    /\ UNCHANGED <<next, prev, head, tail, len, boot, owners, fault>>

-----------------------------------------------------------------------------

Next ==
    \/ InitList
    \/ Push
    \/ \E new \in Pages : Pull(new)
    \/ Claim
    \/ ClaimFault
    \/ \E n \in Sections, a \in Aligns : Search(n, a)
    \/ Step
    \/ StepFault
    \/ Take
    \/ TakeFault
    \/ Refuse

Spec == Init /\ [][Next]_vars

-----------------------------------------------------------------------------
(* Properties *)

TypeOK ==
    /\ next \in [Pages -> Words]
    /\ prev \in [Pages -> Words]
    /\ head \in Words
    /\ tail \in Nat
    /\ len \in 0 .. UsizeMod - 1
    /\ boot \in 0 .. Len(Map)
    /\ owners \in [Pages -> Nat]
    /\ scan.current \in Words /\ scan.left \in Nat
    /\ fault \in BOOLEAN

Follow(p) == IF p \in Pages THEN next[p] ELSE Nil

\* The entries in the order the list is walked.
Order[i \in 1 .. len] == IF i = 1 THEN head ELSE Follow(Order[i - 1])

\* s is the list: all free frames, each once, linked both ways.
IsList(s) ==
    /\ \A p \in Free : \E i \in 1 .. len : s[i] = p
    /\ \A i \in 1 .. len : s[i] \in Free
    /\ \A i, j \in 1 .. len : s[i] = s[j] => i = j
    /\ len > 0 => s[1] = head /\ prev[head] = Nil /\ next[s[len]] = Nil
    /\ \A i \in 1 .. len - 1 : next[s[i]] = s[i + 1] /\ prev[s[i + 1]] = s[i]

\* As long as memory does not run out, the list is all the free frames, each
\* once, whatever was claimed, cut out and given back in between.
ListSound == ~fault => IsList(Order)

\* No frame is handed out while somebody holds it, and no page that is not
\* usable memory ever is.
Exclusive == \A p \in Pages : owners[p] <= 1

\* The allocator writes into the frames on its list, never into a page that
\* somebody holds.
HeldUntouched ==
    [][\A p \in Pages :
          owners[p] > 0 /\ owners'[p] > 0 => next'[p] = next[p] /\ prev'[p] = prev[p]]_vars

\* The section a search is about to cut out is free, and aligned.
SectionFree ==
    Looking /\ Found =>
        /\ Section(scan.base, scan.frames) \subseteq Free
        /\ scan.base % scan.align = 0

\* The loop of len iterations never walks off the list.
SearchOnList == Searching /\ ~fault /\ scan.left > 0 => scan.current \in Free

\* s has scan.frames neighbouring entries from i on, aligned as was asked.
RunAt(s, i) ==
    /\ i + scan.frames - 1 <= len
    /\ s[i] % scan.align = 0
    /\ \A j \in 1 .. scan.frames - 1 : s[i + j] = s[i] + j

\* A search refuses only if no such run stands anywhere on the list.
SearchComplete ==
    Searching /\ ~fault /\ scan.left = 0 /\ scan.frames > 0 =>
        \A i \in 1 .. len : ~RunAt(Order, i)

\* "FIXME: ... we make this assumption": a head without a next entry is
\* followed by a free frame.
AssumedEntryIsFree == Ready /\ next[head] = Nil => head + 1 \in Free

\* "Guaranteed to return a physically continuous section of memory".
SearchReturns == ~(fault /\ Searching)

=============================================================================
