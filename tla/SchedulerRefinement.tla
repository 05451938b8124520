------------------------- MODULE SchedulerRefinement -------------------------
(***************************************************************************)
(* The task queue implements ThreadPool.  The context of the current entry *)
(* is on the hart, its saved frame is stale; every other thread's context  *)
(* is its saved frame.                                                     *)
(***************************************************************************)
EXTENDS Scheduler

Live == {ThreadOf(queue[i]) : i \in DOMAIN queue}

EntryOf(t) == queue[CHOOSE i \in DOMAIN queue : ThreadOf(queue[i]) = t]

Context(f) == [pc |-> f.pc, a0 |-> f.a0, a1 |-> f.a1]

Current == IF HasCurrent THEN ThreadOf(At(queue, cur)) ELSE <<0, 0>>

Contexts == [t \in Live |-> IF t = Current THEN Context(regs)
                            ELSE Context(EntryOf(t).trap_frame)]

Blocked == [t \in Live |-> EntryOf(t).waiting_on]

Pool == INSTANCE ThreadPool WITH
    Initial <- {<<t, 0>> : t \in Tasks},
    First   <- <<Loaded[1], 0>>,
    ctx     <- Contexts,
    blocked <- Blocked,
    running <- Current,
    up      <- kernel = "user"

\* The scheduler implements the thread pool: a thread sees its own registers,
\* as it left them, whatever switches, spawns, calls and characters came
\* between (advance_task, update_current, kernel_task, uart_handler).
ImplementsPool == Pool!Spec

=============================================================================
