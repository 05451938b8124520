------------------------------ MODULE Scheduler ------------------------------
(***************************************************************************)
(* The task queue of the kernel (LSD/src/traps/task.rs), the trap handlers *)
(* that drive it (LSD/src/traps/mod.rs, LSD/src/arch/riscv/syscalls.rs,    *)
(* LSD/src/uart.rs) and the user programs that run on it through lsd_lib.  *)
(*                                                                         *)
(* One hart runs tasks.  A trap clears SIE, so a handler runs to its end   *)
(* before the next trap is taken and is ONE action here.  The exception is *)
(* the loop of TaskQueue::advance when nobody is runnable, which enables   *)
(* interrupts and keeps spinning: kernel = "idle".                         *)
(***************************************************************************)
EXTENDS Integers, Sequences, FiniteSets

CONSTANTS
    Loaded,      \* the task ids in the order userspace::load queued them
    Calls,       \* Calls[t]: what the program of task t does with the kernel
    Chars,       \* the characters the UART can deliver
    MaxThreads,  \* bound: threads one task may have had
    UsizeMod     \* bound: usize arithmetic wraps at this modulus

CallNames == {"forfeit", "in_char", "spawn_raw", "spawn_thread", "drop",
              "exit", "extend_heap", "ebreak", "fault"}

Tasks == {Loaded[i] : i \in DOMAIN Loaded}

\* Task ids come from one vmem arena and are distinct; at least one task is
\* loaded before start_tasks.  0 is not a character a program waits for.
ASSUME LoadedAssumption ==
    /\ Loaded \in Seq(Nat)
    /\ Loaded # << >>
    /\ \A i, j \in DOMAIN Loaded : Loaded[i] = Loaded[j] => i = j

ASSUME CallsAssumption == Calls \in [Tasks -> SUBSET CallNames]

ASSUME CharsAssumption == Chars \subseteq Nat \ {0}

ASSUME BoundsAssumption ==
    /\ MaxThreads \in Nat \ {0}
    /\ UsizeMod \in Nat \ {0}

VARIABLES
    queue,     \* TaskQueue::queue, a Vec<TaskData>
    cur,       \* TaskQueue::cur_task_idx, from 0
    regs,      \* the user registers of the hart
    satp,      \* the task whose page table the hart uses
    awaiting,  \* INPUT_AWAIT_LIST
    threads,   \* per task, the next id its thread_manager hands out
    kernel     \* what the kernel does when no handler is running

vars == <<queue, cur, regs, satp, awaiting, threads, kernel>>

(***************************************************************************)
(* A saved trap frame.  thr is the thread whose computation the registers  *)
(* hold and pc where that computation is: "run" in its own code, "closure" *)
(* in the closure of spawn_thread, or just behind the ecall of a call.     *)
(***************************************************************************)
Pcs == {"run", "closure"} \cup CallNames
Threads == Tasks \X Nat
Frames == [thr : Threads, pc : Pcs, a0 : Nat, a1 : Nat]
WaitSrc == {"None", "CharIn", "Breakpoint"}
TaskData == [task_id : Tasks, thread_id : Nat, waiting_on : WaitSrc,
             trap_frame : Frames]

\* "user": a user program runs.  "idle": advance spins with interrupts on and
\* the write lock held.  The others never run anything again: "deadlock" spins
\* on a lock it holds, "panic" and "hang" are the loops behind a panic and an
\* unexpected trap, "smashed" has a kernel stack overwritten by a nested trap.
KernelStates == {"user", "idle", "deadlock", "panic", "hang", "smashed"}

Indices(q) == 0 .. Len(q) - 1
At(q, i) == q[i + 1]
ThreadOf(e) == <<e.task_id, e.thread_id>>
Runnable(q, i) == At(q, i).waiting_on = "None"

NewFrame(t) == [thr |-> <<t, 0>>, pc |-> "run", a0 |-> t, a1 |-> 0]

LoadedEntry(t) == [task_id |-> t, thread_id |-> 0, waiting_on |-> "None",
                   trap_frame |-> NewFrame(t)]

(***************************************************************************)
(* kmain has loaded every program and start_tasks has done TaskData::load  *)
(* of the first one and its sret.                                          *)
(***************************************************************************)
Init ==
    /\ queue = [i \in 1 .. Len(Loaded) |-> LoadedEntry(Loaded[i])]
    /\ cur = 0
    /\ regs = NewFrame(Loaded[1])
    /\ satp = Loaded[1]
    /\ awaiting = << >>
    /\ threads = [t \in Tasks |-> 1]
    /\ kernel = "user"

-----------------------------------------------------------------------------
(* TaskQueue::advance *)

Ahead(q, start, d) == (start + d) % Len(q)

\* Deviation: the scan starts over at the front of the queue.
AdvancesFromFront(q, start, i) ==
    /\ Runnable(q, i)
    /\ \A j \in Indices(q) : j < i => ~Runnable(q, j)

\* i is where the cyclic scan that starts behind `start` ends.
Advances(q, start, i) ==
    \E d \in 1 .. Len(q) :
        /\ i = Ahead(q, start, d)
        /\ Runnable(q, i)
        /\ \A e \in 1 .. d - 1 : ~Runnable(q, Ahead(q, start, e))

\* Deviation: coming round to the start ends the scan before it is looked at.
NoneRunnableElse(q) == \A i \in Indices(q) \ {cur} : ~Runnable(q, i)

NoneRunnable(q) == \A i \in Indices(q) : ~Runnable(q, i)

\* Deviations: the frame is saved into the next entry; it is not saved.
SaveFrameLate(q, f) == [q EXCEPT ![Ahead(q, cur, 1) + 1].trap_frame = f]
SaveFrameNot(q, f) == q

\* current_task_mut().trap_frame = *frame
Framed(e, f) == [e EXCEPT !.trap_frame = f]
SaveFrame(q, f) == [q EXCEPT ![cur + 1] = Framed(q[cur + 1], f)]

\* current_task_mut().waiting_on = why
Waiting(e, why) == [e EXCEPT !.waiting_on = why]
MarkWaiting(q, why) == [q EXCEPT ![cur + 1] = Waiting(q[cur + 1], why)]

\* Deviation: satp is left alone.
LoadEntryKeepTable(e) ==
    /\ regs' = e.trap_frame
    /\ satp' = satp

LoadEntry(e) ==
    /\ regs' = e.trap_frame
    /\ satp' = e.task_id

\* The scan finds nobody: it goes on for ever, with interrupts enabled and
\* CURRENT_USER_TASK write-locked, in the middle of the handler.
Idle(q) ==
    /\ NoneRunnable(q)
    /\ queue' = q
    /\ kernel' = "idle"
    /\ UNCHANGED <<cur, regs, satp>>

\* advance_task(frame) on the queue q: the whole switch.
AdvanceTask(q, f) ==
    LET saved == SaveFrame(q, f) IN
    \/ \E i \in Indices(saved) :
          /\ Advances(saved, cur, i)
          /\ cur' = i
          /\ queue' = saved
          /\ LoadEntry(At(saved, i))
          /\ UNCHANGED kernel
    \/ Idle(saved)

\* current_task and current_task_mut index the Vec: past its end they panic.
HasCurrent == cur \in Indices(queue)

InUser == kernel = "user" /\ HasCurrent

Stop(why) ==
    /\ kernel' = why
    /\ UNCHANGED <<cur, regs, satp>>

\* Any handler that touches the current task when the index is out of range.
CurrentMissing ==
    /\ kernel = "user"
    /\ ~HasCurrent
    /\ Stop("panic")
    /\ UNCHANGED <<queue, awaiting, threads>>

-----------------------------------------------------------------------------
(* Interrupts *)

\* trap_handler, SupervisorTimerInterrupt: re-arm for 1 ms and switch.
Timer ==
    /\ InUser
    /\ AdvanceTask(queue, regs)
    /\ UNCHANGED <<awaiting, threads>>

\* find_task_mut(id): the FIRST entry with that task id.
FirstOf(q, id, i) ==
    /\ q[i].task_id = id
    /\ \A j \in 1 .. i - 1 : q[j].task_id # id

\* Deviation: only the task listed first is woken.
WokenFirstListed(q, list, i) ==
    /\ q[i].waiting_on = "CharIn"
    /\ list # << >>
    /\ FirstOf(q, list[1], i)

Woken(q, list, i) ==
    /\ q[i].waiting_on = "CharIn"
    /\ \E k \in DOMAIN list : FirstOf(q, list[k], i)

\* Deviation: the waiter is woken without its character.
DeliverNoChar(q, list, c) ==
    [i \in DOMAIN q |->
        IF Woken(q, list, i) THEN [q[i] EXCEPT !.waiting_on = "None"] ELSE q[i]]

Given(e, c) == [e EXCEPT !.trap_frame.a0 = c, !.waiting_on = "None"]

Deliver(q, list, c) ==
    [i \in DOMAIN q |->
        IF Woken(q, list, i) THEN Given(q[i], c) ELSE q[i]]

\* Some listed task has no entry left: find_task_mut(..).unwrap() panics.
ListedTaskGone ==
    \E k \in DOMAIN awaiting :
        \A i \in DOMAIN queue : queue[i].task_id # awaiting[k]

\* plic::handle_external and uart_handler: one character for every waiter.
UartInterrupt(c) ==
    /\ kernel = "user"
    /\ ~ListedTaskGone
    /\ queue' = Deliver(queue, awaiting, c)
    /\ awaiting' = << >>
    /\ UNCHANGED <<cur, regs, satp, threads, kernel>>

UartPanic ==
    /\ kernel = "user"
    /\ ListedTaskGone
    /\ Stop("panic")
    /\ UNCHANGED <<queue, awaiting, threads>>

\* Interrupts taken inside the idle loop find CURRENT_USER_TASK write-locked
\* by the loop they interrupted, and spin on it with interrupts disabled.
IdleTimer ==
    /\ kernel = "idle"
    /\ Stop("deadlock")
    /\ UNCHANGED <<queue, awaiting, threads>>

IdleUart ==
    /\ kernel = "idle"
    /\ awaiting # << >>
    /\ Stop("deadlock")
    /\ UNCHANGED <<queue, awaiting, threads>>

\* With nobody listed uart_handler takes no task lock and returns, but its
\* trap frame and stack overwrote those of the interrupted handler: the loop
\* may still spin, or run on garbage.
IdleUartNobody ==
    /\ kernel = "idle"
    /\ awaiting = << >>
    /\ \E why \in {"idle", "smashed"} : Stop(why)
    /\ UNCHANGED <<queue, awaiting, threads>>

-----------------------------------------------------------------------------
(* System calls *)

Root(call) == IF call = "in_char" THEN 0 ELSE 1
Sub(call) ==
    CASE call = "forfeit" -> 0
      [] call = "extend_heap" -> 1
      [] call \in {"in_char", "spawn_raw", "spawn_thread"} -> 2
      [] call = "drop" -> 3
      [] OTHER -> 4

\* The program makes a call: trap_handler gets this frame, sepc moved on.
EcallFrame(call) ==
    [regs EXCEPT !.pc = call, !.a0 = Root(call), !.a1 = Sub(call)]

Makes(call) ==
    /\ InUser
    /\ regs.pc = "run"
    /\ call \in Calls[regs.thr[1]]

\* kernel_task(0): advance_task.
Forfeit ==
    /\ Makes("forfeit")
    /\ AdvanceTask(queue, EcallFrame("forfeit"))
    /\ UNCHANGED <<awaiting, threads>>

\* kernel_io(2): list the task id of the CURRENT entry, mark it, switch.
InChar ==
    /\ Makes("in_char")
    /\ awaiting' = Append(awaiting, At(queue, cur).task_id)
    /\ AdvanceTask(MarkWaiting(queue, "CharIn"), EcallFrame("in_char"))
    /\ UNCHANGED threads

\* kernel_task(2): the parent's a0 becomes 0 and its a1 keeps the subcall
\* number; a clone of the current entry with a fresh thread id is queued.
Spawn(call) ==
    /\ Makes(call)
    /\ LET saved == SaveFrame(queue, EcallFrame(call))
           id    == At(saved, cur).task_id
           tid   == threads[id]
           child == [At(saved, cur) EXCEPT
                        !.thread_id = tid,
                        !.trap_frame.thr = <<id, tid>>,
                        !.trap_frame.a0 = id,
                        !.trap_frame.a1 = tid]
       IN /\ tid < MaxThreads
          /\ queue' = Append(saved, child)
          /\ threads' = [threads EXCEPT ![id] = @ + 1]
    /\ regs' = [EcallFrame(call) EXCEPT !.a0 = 0]
    /\ UNCHANGED <<cur, satp, awaiting, kernel>>

\* Deviation: the last entry is copied, not moved.
SwapRemoveCopies(q, i) == [q EXCEPT ![i + 1] = q[Len(q)]]

SwapRemove(q, i) ==
    SubSeq([q EXCEPT ![i + 1] = q[Len(q)]], 1, Len(q) - 1)

\* Deviations: the index is kept; it is signed; the entry is kept.
DropTaskKeepsIndex(q, index, c) ==
    /\ queue' = SwapRemove(q, index)
    /\ cur' = c
DropTaskSigned(q, index, c) ==
    /\ queue' = SwapRemove(q, index)
    /\ cur' = c - 1
DropTaskKeepsEntry(q, index, c) ==
    /\ queue' = q
    /\ cur' = c

\* drop_task(index) on the queue q with cur_task_idx = c: an entry that is
\* still current is advanced past, removed by swap_remove, and the index is
\* decremented in wrapping usize arithmetic.
DropTask(q, index, c) ==
    /\ queue' = SwapRemove(q, index)
    /\ IF c = index
         THEN \E i \in Indices(q) :
                /\ Advances(q, c, i)
                /\ cur' = (i - 1) % UsizeMod
         ELSE cur' = (c - 1) % UsizeMod

\* kernel_task(3): switch away from the current entry, then drop it.
DropThread ==
    /\ InUser
    /\ \/ Makes("drop")
       \/ regs.pc = "closure"
    /\ LET saved == SaveFrame(queue, EcallFrame("drop")) IN
       \/ \E i \in Indices(saved) :
             /\ Advances(saved, cur, i)
             /\ LoadEntry(At(saved, i))
             /\ DropTask(saved, cur, i)
             /\ UNCHANGED kernel
       \/ Idle(saved)
    /\ UNCHANGED <<awaiting, threads>>

\* kernel_task(4): switch away, take the write lock to walk the queue, and
\* call drop_task, which takes it again, at the first entry of the task; the
\* entry the call was made from is one.
Exit ==
    /\ Makes("exit")
    /\ LET saved == SaveFrame(queue, EcallFrame("exit")) IN
       \/ \E i \in Indices(saved) :
             /\ Advances(saved, cur, i)
             /\ cur' = i
             /\ queue' = saved
             /\ LoadEntry(At(saved, i))
             /\ kernel' = "deadlock"
       \/ Idle(saved)
    /\ UNCHANGED <<awaiting, threads>>

\* kernel_task(1): the root table is dereferenced at its physical address,
\* which the task's table does not map, so the handler itself faults.
ExtendHeap ==
    /\ Makes("extend_heap")
    /\ regs' = EcallFrame("extend_heap")
    /\ kernel' = "hang"
    /\ UNCHANGED <<queue, cur, satp, awaiting, threads>>

\* trap_handler, Breakpoint: mark the current entry and switch; nothing in
\* the kernel ever clears WaitSrc::Breakpoint.
Breakpoint ==
    /\ Makes("ebreak")
    /\ AdvanceTask(MarkWaiting(queue, "Breakpoint"),
                   [regs EXCEPT !.pc = "ebreak"])
    /\ UNCHANGED <<awaiting, threads>>

\* trap_handler, any other trap (lsd_main returning to address 0 is one):
\* print and loop with interrupts disabled.
UserFault ==
    /\ Makes("fault")
    /\ regs' = [regs EXCEPT !.pc = "fault"]
    /\ kernel' = "hang"
    /\ UNCHANGED <<queue, cur, satp, awaiting, threads>>

\* lsd_lib behind the ecall: the results are read; spawn_thread runs its
\* closure in whichever thread reads a non-zero thread id.
Return ==
    /\ kernel = "user"
    /\ regs.pc \in {"forfeit", "in_char", "spawn_raw", "spawn_thread"}
    /\ regs' = [regs EXCEPT
                  !.pc = IF regs.pc = "spawn_thread" /\ regs.a1 # 0
                           THEN "closure" ELSE "run",
                  !.a0 = 0, !.a1 = 0]
    /\ UNCHANGED <<queue, cur, satp, awaiting, threads, kernel>>

-----------------------------------------------------------------------------

Uart == \E c \in Chars : UartInterrupt(c)

Next ==
    \/ Timer
    \/ Uart
    \/ UartPanic
    \/ CurrentMissing
    \/ IdleTimer
    \/ IdleUart
    \/ IdleUartNobody
    \/ Forfeit
    \/ InChar
    \/ \E call \in {"spawn_raw", "spawn_thread"} : Spawn(call)
    \/ DropThread
    \/ Exit
    \/ ExtendHeap
    \/ Breakpoint
    \/ UserFault
    \/ Return

Spec == Init /\ [][Next]_vars

\* Every timer handler re-arms the timer, so another timer interrupt always
\* comes; programs need not make progress.
TimerSpec == Spec /\ WF_vars(Timer)

\* The same, with somebody who keeps typing.
TypingSpec == TimerSpec /\ WF_vars(Uart)

-----------------------------------------------------------------------------
(* Properties *)

TypeOK ==
    /\ queue \in Seq(TaskData)
    /\ cur \in Nat
    /\ regs \in Frames
    /\ satp \in Tasks
    /\ awaiting \in Seq(Tasks)
    /\ threads \in [Tasks -> Nat]
    /\ kernel \in KernelStates

\* While a program runs, cur_task_idx names the entry of the thread whose
\* registers and page table the hart holds, and that thread waits for nothing.
\* Every handler relies on it: advance_task saves the registers it was given
\* into that entry, InChar and Spawn read their caller's ids from it.
CurrentIsLoaded ==
    kernel = "user" =>
        /\ HasCurrent
        /\ regs.thr = ThreadOf(At(queue, cur))
        /\ satp = At(queue, cur).task_id
        /\ Runnable(queue, cur)

\* No thread's registers are ever saved into another thread's entry.
FramesOwned ==
    \A i \in DOMAIN queue : queue[i].trap_frame.thr = ThreadOf(queue[i])

\* No thread is queued twice: it would run twice from one point on.
UniqueThreads ==
    \A i, j \in DOMAIN queue : ThreadOf(queue[i]) = ThreadOf(queue[j]) => i = j

\* Every entry that waits for a character is one uart_handler will find from
\* INPUT_AWAIT_LIST ("a vector of task IDs waiting on an input character").
WaitersListed ==
    \A i \in DOMAIN queue :
        queue[i].waiting_on = "CharIn" =>
            \E k \in DOMAIN awaiting : FirstOf(queue, awaiting[k], i)

\* A thread that comes back from in_char holds a character that was typed, not
\* the call number its a0 held when it was switched away.
InCharReturnsChar ==
    kernel = "user" /\ regs.pc = "in_char" => regs.a0 \in Chars

\* Nothing the programs do stops the kernel: somebody is always runnable, no
\* index is out of range, no handler waits for a lock it holds.
KernelRuns == kernel = "user"

\* A thread that called drop_thread never runs again ("no return"), nor does
\* an entry keep its frame.
DropNoReturn ==
    /\ kernel = "user" => regs.pc # "drop"
    /\ \A i \in DOMAIN queue : queue[i].trap_frame.pc # "drop"

\* "End program -> no return": when the handler is through, no entry is left
\* of the thread that asked for it.
ExitEndsProgram ==
    \A i \in DOMAIN queue : queue[i].trap_frame.pc # "exit"

\* "spawn thread -> [task_id][thread_id]": whoever comes back from the call
\* holds its own ids.
SpawnReturnsIds ==
    kernel = "user" /\ regs.pc = "spawn_raw" => <<regs.a0, regs.a1>> = regs.thr

AllThreads == Tasks \X (0 .. MaxThreads - 1)

Queued(t, why) ==
    \E i \in DOMAIN queue :
        ThreadOf(queue[i]) = t /\ queue[i].waiting_on = why

OnHart(t) == kernel = "user" /\ regs.thr = t

\* Round robin: a runnable thread gets the hart again, whatever the others do.
RoundRobin ==
    \A t \in AllThreads : Queued(t, "None") ~> (OnHart(t) \/ kernel # "user")

\* A thread that asked for a character gets the hart back with one.
InCharReturns ==
    \A t \in AllThreads :
        Queued(t, "CharIn") ~>
            (OnHart(t) /\ regs.pc = "in_char" /\ regs.a0 \in Chars)

=============================================================================
