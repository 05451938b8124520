----------------------------- MODULE RequestQueue -----------------------------
(***************************************************************************)
(* What a virtqueue promises: requests are posted to a device in order and *)
(* come back, in the order of their completion, each exactly once. There   *)
(* are no rings and no indices here.                                       *)
(***************************************************************************)
EXTENDS Integers, Sequences

CONSTANT Tokens      \* what identifies an outstanding request

VARIABLES
    idle,       \* tokens not in use
    posted,     \* to be taken by the device, in order
    working,    \* with the device
    done        \* completed, in order

vars == <<idle, posted, working, done>>

Init ==
    /\ idle \subseteq Tokens
    /\ posted = << >>
    /\ working = {}
    /\ done = << >>

Post ==
    /\ \E t \in idle : idle' = idle \ {t} /\ posted' = Append(posted, t)
    /\ UNCHANGED <<working, done>>

Take ==
    /\ posted # << >>
    /\ working' = working \cup {Head(posted)}
    /\ posted' = Tail(posted)
    /\ UNCHANGED <<idle, done>>

Complete ==
    /\ \E t \in working : working' = working \ {t} /\ done' = Append(done, t)
    /\ UNCHANGED <<idle, posted>>

Collect ==
    /\ done # << >>
    /\ idle' = idle \cup {Head(done)}
    /\ done' = Tail(done)
    /\ UNCHANGED <<posted, working>>

Next == Post \/ Take \/ Complete \/ Collect

Spec == Init /\ [][Next]_vars /\ WF_vars(Take) /\ WF_vars(Complete) /\ WF_vars(Collect)

=============================================================================
