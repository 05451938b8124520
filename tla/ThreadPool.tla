----------------------------- MODULE ThreadPool -----------------------------
(***************************************************************************)
(* What the scheduler promises the threads of the user programs: each has  *)
(* a context of its own, one of them runs at a time, and a context changes *)
(* only by what its own thread does, or by the character it waits for.     *)
(* There is no queue, no index, no saved frame and no await list here.     *)
(***************************************************************************)
EXTENDS Integers

CONSTANTS
    Initial,   \* the threads that exist when the first program starts
    First,     \* the one that runs first
    Chars      \* what can be typed

VARIABLES
    ctx,       \* ctx[t]: the registers thread t sees; DOMAIN ctx are the threads
    blocked,   \* blocked[t]: what t waits for
    running,   \* the thread on the hart
    up         \* FALSE once the kernel has stopped for good

vars == <<ctx, blocked, running, up>>

Init ==
    /\ ctx = [t \in Initial |-> [pc |-> "run", a0 |-> t[1], a1 |-> 0]]
    /\ blocked = [t \in Initial |-> "None"]
    /\ running = First
    /\ up = TRUE

Ready == {t \in DOMAIN blocked : blocked[t] = "None"}

\* A switch leaves a thread on the hart that waits for nothing.
Switch == running' \in Ready'

\* Only the running thread's context moves, from its own code to behind a call.
CallMade(call) ==
    /\ ctx[running].pc = "run"
    /\ DOMAIN ctx' = DOMAIN ctx
    /\ \A t \in DOMAIN ctx \ {running} : ctx'[t] = ctx[t]
    /\ ctx'[running].pc = call

\* The timer takes the hart from a thread, which does not notice.
Preempt ==
    /\ Switch
    /\ UNCHANGED <<ctx, blocked, up>>

Yield ==
    /\ CallMade("forfeit")
    /\ Switch
    /\ UNCHANGED <<blocked, up>>

Block(call, why) ==
    /\ CallMade(call)
    /\ blocked' = [blocked EXCEPT ![running] = why]
    /\ Switch
    /\ UNCHANGED up

\* Every thread that waits for a character gets the one that was typed.
Type(c) ==
    /\ ctx' = [t \in DOMAIN ctx |->
                  IF blocked[t] = "CharIn"
                    THEN [ctx[t] EXCEPT !.a0 = c] ELSE ctx[t]]
    /\ blocked' = [t \in DOMAIN blocked |->
                      IF blocked[t] = "CharIn" THEN "None" ELSE blocked[t]]
    /\ UNCHANGED <<running, up>>

\* A new thread starts behind the call its parent made, with its own ids.
Spawn(child) ==
    /\ child \notin DOMAIN ctx
    /\ DOMAIN ctx' = DOMAIN ctx \cup {child}
    /\ ctx[running].pc = "run"
    /\ ctx'[running].pc = "spawn_raw"
    /\ ctx'[child] = [pc |-> "spawn_raw", a0 |-> child[1], a1 |-> child[2]]
    /\ \A t \in DOMAIN ctx \ {running} : ctx'[t] = ctx[t]
    /\ blocked' = [t \in DOMAIN ctx' |->
                      IF t = child THEN "None" ELSE blocked[t]]
    /\ UNCHANGED <<running, up>>

\* The running thread goes on behind its call.
Resume ==
    /\ ctx[running].pc \in {"forfeit", "in_char", "spawn_raw"}
    /\ ctx' = [ctx EXCEPT ![running] = [pc |-> "run", a0 |-> 0, a1 |-> 0]]
    /\ UNCHANGED <<blocked, running, up>>

\* The running thread ends and no other one notices.
End ==
    /\ DOMAIN ctx' = DOMAIN ctx \ {running}
    /\ \A t \in DOMAIN ctx' : ctx'[t] = ctx[t] /\ blocked'[t] = blocked[t]
    /\ DOMAIN blocked' = DOMAIN ctx'
    /\ Switch
    /\ UNCHANGED up

Live ==
    \/ Preempt
    \/ Yield
    \/ Block("in_char", "CharIn")
    \/ Block("ebreak", "Breakpoint")
    \/ \E c \in Chars : Type(c)
    \/ \E child \in DOMAIN ctx' : Spawn(child)
    \/ Resume
    \/ End

\* The promise ends when the kernel stops.
Halt == up' = FALSE

Next ==
    /\ up
    /\ \/ Live
       \/ Halt

Spec == Init /\ [][Next]_vars

=============================================================================
