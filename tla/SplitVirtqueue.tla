---------------------------- MODULE SplitVirtqueue ----------------------------
(***************************************************************************)
(* The split virtqueue of LSD/src/drivers/virtio/splitqueue/mod.rs, as     *)
(* functions of what its three rings hold. Indices are u16 and wrap at     *)
(* IndexMod; a ring slot is the index modulo the length of the ring.       *)
(***************************************************************************)
EXTENDS Integers, Sequences

CONSTANTS
    IndexMod,   \* 2^16
    MaxQueue    \* the largest queue, 32768

ASSUME WidthAssumption ==
    /\ MaxQueue \in Nat \ {0}
    /\ IndexMod \in Nat
    /\ IndexMod > MaxQueue

\* Deviation: any size up to the largest is accepted.
AnySize(size) == size \in 1 .. MaxQueue

\* Ok of SplitVirtqueue::new; NotPowerOfTwo and TooLarge otherwise.
Accepted(size) == size <= MaxQueue /\ \E k \in 0 .. size : size = 2 ^ k

Nothing == [addr |-> 0]

NewQueue(size) ==
    [size      |-> size,
     freelist  |-> [i \in 1 .. size |-> i - 1],
     desc      |-> [i \in 0 .. size - 1 |-> Nothing],
     avail     |-> [i \in 0 .. size - 1 |-> 0],
     availIdx  |-> 0,
     used      |-> [i \in 0 .. size - 1 |-> 0],
     usedIdx   |-> 0,
     last_seen |-> 0]

\* Deviation: the index is never wrapped.
NoWrap(i) == i + 1

Next16(i) == (i + 1) % IndexMod
Ahead16(from, to) == (to - from) % IndexMod   \* how far to is ahead of from

\* alloc_descriptor: pop_back, None if there is nothing.
CanAlloc(q) == q.freelist # << >>
Allocated(q) == q.freelist[Len(q.freelist)]
alloc_descriptor(q) == [q EXCEPT !.freelist = SubSeq(@, 1, Len(@) - 1)]

free_descriptor(q, i) == [q EXCEPT !.freelist = Append(@, i)]

WriteDescriptor(q, i, d) == [q EXCEPT !.desc[i] = d]

\* AvailableQueue::push: the ring entry, the fence, then the index.
PushRing(q, i) == [q EXCEPT !.avail[q.availIdx % q.size] = i]
PushIndex(q) == [q EXCEPT !.availIdx = Next16(@)]

\* UsedQueue::pop
HasUsed(q) == q.last_seen # q.usedIdx
Popped(q) == q.used[q.last_seen % q.size]

\* Deviation: whatever else has been used meanwhile is skipped.
PopAll(q) == [q EXCEPT !.last_seen = q.usedIdx]

Pop(q) == [q EXCEPT !.last_seen = Next16(@)]

\* The device: what it does to the rings, and what it sees of them.
Offered(q, seen) == seen # q.availIdx
OfferedAt(q, seen) == q.avail[seen % q.size]
Complete(q, i) == [q EXCEPT !.used[q.usedIdx % q.size] = i, !.usedIdx = Next16(@)]

=============================================================================
