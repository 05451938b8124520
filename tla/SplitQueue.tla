------------------------------ MODULE SplitQueue ------------------------------
(***************************************************************************)
(* A split virtqueue between a driver and a device that run side by side.  *)
(* The driver allocates a descriptor, writes it, publishes it in two       *)
(* steps, pops what the device has used and frees it: the order the API    *)
(* of splitqueue/mod.rs is made for. The device is external: it takes what *)
(* is offered in ring order and completes it in any order.                 *)
(***************************************************************************)
EXTENDS SplitVirtqueue, FiniteSets

CONSTANTS
    Sizes,      \* the queue sizes a driver asks for
    Requests    \* what a descriptor can stand for

\* A power of two up to 2^15 divides 2^16; a zeroed descriptor is no request.
ASSUME SizesAssumption ==
    /\ \A size \in Sizes :
          /\ size \in Nat \ {0}
          /\ (\E k \in 0 .. size : size = 2 ^ k) => IndexMod % size = 0
    /\ 0 \notin Requests

VARIABLES
    q,          \* the queue, or the size that new has refused
    filling,    \* the descriptor that is allocated, or written, not published
    stage,      \* how far: "none", "allocated", "written", "listed"
    popped,     \* descriptors the driver has popped and not yet freed
    seen,       \* device: the next index of the available ring
    inflight    \* device: <<descriptor, request>> it works on

vars == <<q, filling, stage, popped, seen, inflight>>

\* SplitVirtqueue::new(size).unwrap()
Init ==
    /\ \E size \in Sizes : Accepted(size) /\ q = NewQueue(size)
    /\ filling = 0
    /\ stage = "none"
    /\ popped = {}
    /\ seen = 0
    /\ inflight = {}

-----------------------------------------------------------------------------
(* The driver *)

Allocate ==
    /\ stage = "none"
    /\ CanAlloc(q)
    /\ filling' = Allocated(q)
    /\ q' = alloc_descriptor(q)
    /\ stage' = "allocated"
    /\ UNCHANGED <<popped, seen, inflight>>

Write(request) ==
    /\ stage = "allocated"
    /\ q' = WriteDescriptor(q, filling, [addr |-> request])
    /\ stage' = "written"
    /\ UNCHANGED <<filling, popped, seen, inflight>>

\* Deviation: the index is moved before the ring entry is written.
ListEarly ==
    /\ stage = "written"
    /\ q' = PushIndex(q)
    /\ stage' = "listed"
    /\ UNCHANGED <<filling, popped, seen, inflight>>

List ==
    /\ stage = "written"
    /\ q' = PushRing(q, filling)
    /\ stage' = "listed"
    /\ UNCHANGED <<filling, popped, seen, inflight>>

Publish ==
    /\ stage = "listed"
    /\ q' = PushIndex(q)
    /\ stage' = "none"
    /\ filling' = 0
    /\ UNCHANGED <<popped, seen, inflight>>

PopUsed ==
    /\ HasUsed(q)
    /\ popped' = popped \cup {Popped(q)}
    /\ q' = Pop(q)
    /\ UNCHANGED <<filling, stage, seen, inflight>>

Release(i) ==
    /\ i \in popped
    /\ q' = free_descriptor(q, i)
    /\ popped' = popped \ {i}
    /\ UNCHANGED <<filling, stage, seen, inflight>>

-----------------------------------------------------------------------------
(* The device *)

DeviceTake ==
    /\ Offered(q, seen)
    /\ inflight' = inflight \cup {<<OfferedAt(q, seen), q.desc[OfferedAt(q, seen)]>>}
    /\ seen' = Next16(seen)
    /\ UNCHANGED <<q, filling, stage, popped>>

DeviceComplete(e) ==
    /\ e \in inflight
    /\ q' = Complete(q, e[1])
    /\ inflight' = inflight \ {e}
    /\ UNCHANGED <<filling, stage, popped, seen>>

Next ==
    \/ Allocate
    \/ \E request \in Requests : Write(request)
    \/ List
    \/ Publish
    \/ PopUsed
    \/ \E i \in popped : Release(i)
    \/ DeviceTake
    \/ \E e \in inflight : DeviceComplete(e)

\* The device works; the driver drains what is used.
Fairness ==
    /\ WF_vars(DeviceTake)
    /\ WF_vars(\E e \in inflight : DeviceComplete(e))
    /\ WF_vars(PopUsed)

Spec == Init /\ [][Next]_vars
FairSpec == Spec /\ Fairness

-----------------------------------------------------------------------------
(* Properties *)

Slots == 0 .. q.size - 1

TypeOK ==
    /\ Accepted(q.size)
    /\ q.freelist \in Seq(Slots)
    /\ {q.availIdx, q.usedIdx, q.last_seen, seen} \subseteq 0 .. IndexMod - 1
    /\ stage \in {"none", "allocated", "written", "listed"}
    /\ filling \in Slots
    /\ popped \subseteq Slots

\* The descriptors offered and not yet taken, used and not yet popped, in order.
OfferedNow == [k \in 1 .. Ahead16(seen, q.availIdx) |-> OfferedAt(q, (seen + k - 1) % IndexMod)]
UsedNow == [k \in 1 .. Ahead16(q.last_seen, q.usedIdx) |->
              q.used[((q.last_seen + k - 1) % IndexMod) % q.size]]

Times(s, i) == Cardinality({k \in DOMAIN s : s[k] = i})

\* A descriptor is in one place: free, being filled, offered, with the device,
\* used, or popped; however far the indices have wrapped.
OnePlace ==
    \A i \in Slots :
        Times(q.freelist, i)
          + (IF stage # "none" /\ filling = i THEN 1 ELSE 0)
          + Times(OfferedNow, i)
          + Cardinality({e \in inflight : e[1] = i})
          + Times(UsedNow, i)
          + (IF i \in popped THEN 1 ELSE 0) = 1

\* alloc, free, push and pop keep every descriptor in one place, at indices of
\* the width they have.
QueueSound == TypeOK /\ OnePlace

\* The device works on what the descriptor says, and the driver does not
\* change it meanwhile.
DeviceSeesRequest == \A e \in inflight : q.desc[e[1]] = e[2] /\ e[2] # Nothing

=============================================================================
