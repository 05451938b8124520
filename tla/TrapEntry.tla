------------------------------ MODULE TrapEntry ------------------------------
(***************************************************************************)
(* One hart entering and leaving traps: stvec_trap_shim and trap_handler   *)
(* of LSD/src/traps/mod.rs, and the way into user mode at the end of boot  *)
(* (main.rs, TaskData::load). A context is a task or "boot", the kernel    *)
(* before its tasks run; it owns a value for each register. The registers  *)
(* the shim does not treat alike have names of their own, "gen" stands for *)
(* the others.                                                             *)
(***************************************************************************)
EXTENDS Naturals, FiniteSets

CONSTANTS
    Tasks,      \* the tasks of the queue
    FpTasks,    \* those that use the floating point registers
    First       \* the current task when start_tasks is called

ASSUME TasksAssumption ==
    /\ First \in Tasks
    /\ FpTasks \subseteq Tasks
    /\ Tasks \cap {"boot", "kernel", "none"} = {}

VARIABLES
    pc,         \* "run", or the step of the shim or of the handler
    ctx,        \* the context that runs or was trapped
    cause,      \* scause
    regs,       \* the general registers
    csr,        \* sscratch, sepc, spp, spie, sie and the mode of the hart
    fs,         \* sstatus.FS
    fp,         \* whose values the floating point registers hold
    stack,      \* the trap stack: frame, fpext; and scratch_sp in Sscratch
    saved,      \* the trap frames in the task queue
    current,    \* the current task of the queue
    boot,       \* how far boot is
    task,       \* start_tasks' copy of the current task
    uart,       \* [locked, at]: the lock of UART and its pointer; mapped: of "io";
                \* held: the pointer that the print in progress has got from it
    own,        \* what each context has in its registers while it runs
    wrote,      \* who wrote the floating point registers last
    late        \* boot has been trapped by its timer, or between LoadSepc and LoadSret

\* The queue of tasks and what boot does, the registers of the hart, the history.
queue == <<saved, current>>
kernel == <<boot, task, uart>>
hart == <<regs, csr, fs, fp, stack>>
past == <<own, wrote, late>>
vars == <<pc, ctx, cause, hart, queue, kernel, past>>

Registers == {"ra", "sp", "gp", "tp", "t6", "s0", "gen"}
Contexts == Tasks \cup {"boot"}

Initially(c) == [r \in Registers |-> <<c, r>>]
FrameOf(c) == [r \in Registers \cup {"sepc"} |-> <<c, r>>]

Init ==
    /\ pc = "run" /\ ctx = "boot" /\ cause = "none"
    /\ regs = Initially("boot")
    /\ \E spp \in {"U", "S"}, spie \in BOOLEAN :
          csr = [sscratch |-> <<"kernel", "Sscratch">>, sepc |-> <<"none", "sepc">>,
                 spp |-> spp, spie |-> spie, sie |-> TRUE, mode |-> "S"]
    /\ fs \in {"Off", "Initial", "Clean", "Dirty"}
    /\ fp = "none" /\ wrote = "none" /\ late = FALSE
    /\ stack = [frame |-> FrameOf("none"), fpext |-> "none", scratch_sp |-> <<"none", "sp">>]
    /\ saved = [t \in Tasks |-> FrameOf(t)]
    /\ current = First
    /\ boot = "init" /\ task = FrameOf("none")
    /\ \E mapped \in BOOLEAN :
          uart = [locked |-> FALSE, at |-> "io", mapped |-> mapped, held |-> "none"]
    /\ own = [c \in Contexts |-> Initially(c)]

-----------------------------------------------------------------------------
(* The hart, external: what a trap and sret do *)

Trapped(why) ==
    /\ pc' = "entry"
    /\ cause' = why
    /\ csr' = [csr EXCEPT !.sepc = <<ctx, "sepc">>, !.spp = csr.mode, !.spie = csr.sie,
                          !.sie = FALSE, !.mode = "S"]
    /\ late' = (late \/ (ctx = "boot" /\ (why = "timer" \/ boot \in {"regs", "sret"})))

\* sret runs what sepc points to, in the mode that spp says.
Returned ==
    /\ csr' = [csr EXCEPT !.mode = csr.spp, !.spp = "U", !.sie = csr.spie, !.spie = TRUE]
    /\ ctx' = csr.sepc[1]

\* User mode can not execute the kernel, nor supervisor mode a page of a program.
Executes == (ctx = "boot") <=> (csr.mode = "S")

\* An external interrupt, or the timer's once boot has set it.
Interrupt ==
    /\ pc = "run"
    /\ csr.mode = "U" \/ csr.sie
    /\ \E why \in {"external"} \cup (IF boot \in {"init", "load"} THEN {} ELSE {"timer"}) :
          Trapped(why)
    /\ UNCHANGED <<ctx, regs, fs, fp, stack, queue, kernel, own, wrote>>

ECall ==
    /\ pc = "run" /\ Executes /\ ctx \in Tasks
    /\ Trapped("ecall")
    /\ UNCHANGED <<ctx, regs, fs, fp, stack, queue, kernel, own, wrote>>

\* A task computes with floating point registers, which traps if FS is Off.
UseFp ==
    /\ pc = "run" /\ Executes /\ ctx \in FpTasks
    /\ IF fs = "Off"
       THEN Trapped("illegal") /\ UNCHANGED <<fs, fp, wrote>>
       ELSE fs' = "Dirty" /\ fp' = ctx /\ wrote' = ctx /\ UNCHANGED <<pc, cause, csr, late>>
    /\ UNCHANGED <<ctx, regs, stack, queue, kernel, own>>

FetchFault ==
    /\ pc = "run" /\ ~Executes
    /\ Trapped("fetch")
    /\ UNCHANGED <<ctx, regs, fs, fp, stack, queue, kernel, own, wrote>>

-----------------------------------------------------------------------------
(* Boot, from traps::init to the sret into user mode *)

BootStep(from, to) ==
    /\ pc = "run" /\ Executes /\ ctx = "boot"
    /\ boot = from /\ boot' = to
    /\ UNCHANGED <<ctx, fs, fp, stack, queue, wrote>>

\* _print: the lock, then stores through the pointer it guards. Boot prints as it
\* starts and loads the programs, and once more before it jumps.
LockUart ==
    /\ \E phase \in {"init", "load", "jump"} : BootStep(phase, phase)
    /\ ~uart.locked
    /\ uart' = [uart EXCEPT !.locked = TRUE, !.held = uart.at]
    /\ UNCHANGED <<pc, cause, regs, csr, task, own, late>>

Unmapped(at) == at = "io" /\ ~uart.mapped

\* The instruction that faults has its address in a register: it is retried as it was.
FaultingStore ==
    /\ Unmapped(uart.held)
    /\ BootStep(boot, boot)
    /\ Trapped("store")
    /\ UNCHANGED <<regs, task, uart, own>>

Store ==
    /\ uart.held # "none" /\ ~Unmapped(uart.held)
    /\ BootStep(boot, IF boot = "jump" THEN "sepc" ELSE boot)
    /\ uart' = [uart EXCEPT !.locked = FALSE, !.held = "none"]
    /\ UNCHANGED <<pc, cause, regs, csr, task, own, late>>

\* Deviation: spp is not cleared.
KeepSpp ==
    /\ uart.held = "none"
    /\ BootStep("init", "load")
    /\ csr' = [csr EXCEPT !.spie = TRUE]
    /\ UNCHANGED <<pc, cause, regs, task, uart, own, late>>

\* sstatus.set_spp(false), set_spie(true), set: before the programs are loaded.
PrepareSret ==
    /\ uart.held = "none"
    /\ BootStep("init", "load")
    /\ csr' = [csr EXCEPT !.spp = "U", !.spie = TRUE]
    /\ UNCHANGED <<pc, cause, regs, task, uart, own, late>>

\* Both programs are loaded: the timer is set to 10 ms.
ArmTimer ==
    /\ uart.held = "none"
    /\ BootStep("load", "armed")
    /\ UNCHANGED <<pc, cause, regs, csr, task, uart, own, late>>

\* start_tasks: a copy of the current task under the lock of the queue.
ReadLock ==
    /\ BootStep("armed", "reading")
    /\ UNCHANGED <<pc, cause, regs, csr, task, uart, own, late>>

CopyTask ==
    /\ BootStep("reading", "jump")
    /\ task' = saved[current]
    /\ UNCHANGED <<pc, cause, regs, csr, uart, own, late>>

\* TaskData::load: sepc, then the registers, then sret.
LoadSepc ==
    /\ BootStep("sepc", "regs")
    /\ csr' = [csr EXCEPT !.sepc = task.sepc]
    /\ UNCHANGED <<pc, cause, regs, task, uart, own, late>>

LoadRegs ==
    /\ BootStep("regs", "sret")
    /\ regs' = [r \in Registers |-> task[r]]
    /\ own' = [own EXCEPT !["boot"] = regs']
    /\ UNCHANGED <<pc, cause, csr, task, uart, late>>

LoadSret ==
    /\ pc = "run" /\ Executes /\ ctx = "boot"
    /\ boot = "sret" /\ boot' = "done"
    /\ Returned
    /\ UNCHANGED <<pc, cause, regs, fs, fp, stack, queue, task, uart, past>>

-----------------------------------------------------------------------------
(* stvec_trap_shim up to the call *)

ShimStep(from, to) == pc = from /\ pc' = to /\ UNCHANGED <<ctx, cause, queue, kernel, past>>

\* csrrw t6, sscratch, t6
SwapScratch(from, to) ==
    /\ ShimStep(from, to)
    /\ regs' = [regs EXCEPT !["t6"] = csr.sscratch]
    /\ csr' = [csr EXCEPT !.sscratch = regs["t6"]]
    /\ UNCHANGED <<fs, fp, stack>>

SwapIn == SwapScratch("entry", "sp")

\* sp into Sscratch, the top of the trap stack into sp
SwitchStack ==
    /\ ShimStep("sp", "save")
    /\ stack' = [stack EXCEPT !.scratch_sp = regs["sp"]]
    /\ regs' = [regs EXCEPT !["sp"] = <<"kernel", "sp">>]
    /\ UNCHANGED <<csr, fs, fp>>

\* Deviation: sp is saved as it is by now.
SaveKernelSp ==
    /\ ShimStep("save", "swap")
    /\ stack' = [stack EXCEPT !.frame =
                   [r \in Registers \cup {"sepc"} |->
                      IF r \in {"t6", "sepc"} THEN stack.frame[r] ELSE regs[r]]]
    /\ regs' = [regs EXCEPT !["ra"] = stack.scratch_sp,
                            !["tp"] = <<"kernel", "tp">>, !["gp"] = <<"kernel", "gp">>]
    /\ UNCHANGED <<csr, fs, fp>>

\* The registers but t6 and sepc, sp by way of ra; then the kernel's tp and gp.
SaveRegs ==
    /\ ShimStep("save", "swap")
    /\ stack' = [stack EXCEPT !.frame =
                   [r \in Registers \cup {"sepc"} |->
                      IF r = "sp" THEN stack.scratch_sp
                      ELSE IF r \in {"t6", "sepc"} THEN stack.frame[r] ELSE regs[r]]]
    /\ regs' = [regs EXCEPT !["ra"] = stack.scratch_sp,
                            !["tp"] = <<"kernel", "tp">>, !["gp"] = <<"kernel", "gp">>]
    /\ UNCHANGED <<csr, fs, fp>>

\* Deviation: sscratch is not swapped back.
NoSwapOut == ShimStep("swap", "t6") /\ UNCHANGED <<regs, csr, fs, fp, stack>>

SwapOut == SwapScratch("swap", "t6")

SaveT6 ==
    /\ ShimStep("t6", "fp")
    /\ stack' = [stack EXCEPT !.frame["t6"] = regs["t6"], !.frame["sepc"] = csr.sepc]
    /\ UNCHANGED <<regs, csr, fs, fp>>

\* Deviation: the floating point registers are taken for clean.
NeverSaved ==
    /\ ShimStep("fp", "call")
    /\ regs' = [regs EXCEPT !["s0"] = fs]
    /\ UNCHANGED <<csr, fs, fp, stack>>

\* Saved if they are dirty, which FS then no longer says (csrc of its low bit).
SaveFp ==
    /\ ShimStep("fp", "call")
    /\ regs' = [regs EXCEPT !["s0"] = fs]
    /\ IF fs = "Dirty"
       THEN stack' = [stack EXCEPT !.fpext = fp] /\ fs' = "Clean"
       ELSE UNCHANGED <<stack, fs>>
    /\ UNCHANGED <<csr, fp>>

-----------------------------------------------------------------------------
(* trap_handler, which keeps sp, gp, tp and s0 as any call does *)

Clobbered == [r \in Registers |-> IF r \in {"ra", "t6", "gen"} THEN <<"kernel", r>> ELSE regs[r]]

\* From the step of the handler to the code after the call.
HandledFrom(from, why) ==
    /\ pc = from /\ cause = why
    /\ pc' = "fpback"
    /\ regs' = Clobbered
    /\ UNCHANGED <<cause, csr, fs, fp, boot, task, past>>

\* advance_task: the frame goes to the current task's entry and is replaced. Its lock is
\* taken while boot reads.
Advance ==
    /\ HandledFrom("call", "timer")
    /\ boot # "reading"
    /\ \E next \in Tasks :
          LET kept == [saved EXCEPT ![current] = stack.frame]
          IN  /\ saved' = kept
              /\ current' = next
              /\ ctx' = kept[next].sepc[1]
              /\ stack' = [stack EXCEPT !.frame = kept[next]]
    /\ UNCHANGED uart

\* handle_external, which takes and leaves the lock of UART, and syscall_core: the same
\* task goes on.
GoesOn ==
    /\ \/ HandledFrom("call", "external") /\ ~uart.locked /\ ~Unmapped(uart.at)
       \/ HandledFrom("call", "ecall")
    /\ UNCHANGED <<ctx, stack, queue, uart>>

\* A store fault of UART: the lock is forced open,
StoreStep(from, to) ==
    /\ pc = from /\ cause = "store" /\ pc' = to
    /\ UNCHANGED <<ctx, cause, hart, queue, boot, task, past>>

ForceUnlock ==
    /\ StoreStep("call", "forced")
    /\ uart' = [uart EXCEPT !.locked = FALSE]

\* taken for a statement that moves the pointer, taken for a line that is printed
LockAgain ==
    /\ StoreStep("forced", "move") \/ StoreStep("moved", "report")
    /\ ~uart.locked
    /\ uart' = [uart EXCEPT !.locked = TRUE]

MovePointer ==
    /\ StoreStep("move", "moved")
    /\ uart' = [uart EXCEPT !.at = "hhdm", !.locked = FALSE]

Reported ==
    /\ StoreStep("report", "reported")
    /\ uart' = [uart EXCEPT !.locked = FALSE]

\* Deviation: the last lock is not forgotten, but given back at the end of its scope.
LockAndDrop ==
    /\ HandledFrom("reported", "store")
    /\ ~uart.locked
    /\ UNCHANGED <<ctx, stack, queue, uart>>

\* and taken for the code that is returned to.
LockAndForget ==
    /\ HandledFrom("reported", "store")
    /\ ~uart.locked
    /\ uart' = [uart EXCEPT !.locked = TRUE]
    /\ UNCHANGED <<ctx, stack, queue>>

\* Every other trap is printed and the hart stays here. So is a fault of the handler of
\* external interrupts itself, which reads from UART.
Halt ==
    /\ pc = "call"
    /\ \/ cause \in {"illegal", "fetch"}
       \/ cause = "external" /\ ~uart.locked /\ Unmapped(uart.at)
    /\ pc' = "halted"
    /\ UNCHANGED <<ctx, cause, hart, queue, kernel, past>>

-----------------------------------------------------------------------------
(* The shim after the call *)

RestoreFp ==
    /\ ShimStep("fpback", "sepc")
    /\ IF regs["s0"] = "Dirty"
       THEN fp' = stack.fpext /\ fs' = "Dirty"
       ELSE UNCHANGED <<fp, fs>>
    /\ UNCHANGED <<regs, csr, stack>>

\* sepc, and SPIE for the sret
RestoreSepc ==
    /\ ShimStep("sepc", "restore")
    /\ csr' = [csr EXCEPT !.sepc = stack.frame["sepc"], !.spie = TRUE]
    /\ UNCHANGED <<regs, fs, fp, stack>>

RestoreRegs ==
    /\ ShimStep("restore", "sret")
    /\ regs' = [r \in Registers |-> stack.frame[r]]
    /\ UNCHANGED <<csr, fs, fp, stack>>

Sret ==
    /\ pc = "sret" /\ pc' = "run"
    /\ Returned
    /\ UNCHANGED <<cause, regs, fs, fp, stack, queue, kernel, past>>

Shim == \/ SwapIn \/ SwitchStack \/ SaveRegs \/ SwapOut \/ SaveT6 \/ SaveFp
        \/ RestoreFp \/ RestoreSepc \/ RestoreRegs \/ Sret

Handler == \/ Advance \/ GoesOn \/ Halt
           \/ ForceUnlock \/ LockAgain \/ MovePointer \/ Reported \/ LockAndForget

Boot == \/ LockUart \/ FaultingStore \/ Store \/ PrepareSret \/ ArmTimer \/ ReadLock \/ CopyTask
        \/ LoadSepc \/ LoadRegs \/ LoadSret

Next == Interrupt \/ ECall \/ UseFp \/ FetchFault \/ Boot \/ Shim \/ Handler

Spec == Init /\ [][Next]_vars

-----------------------------------------------------------------------------
(* Properties *)

TypeOK ==
    /\ ctx \in Contexts
    /\ regs["sp"] = <<"kernel", "sp">> \/ pc \in {"run", "entry", "sp", "sret", "halted"}
    /\ current \in Tasks
    /\ \A t \in Tasks : saved[t] \in [Registers \cup {"sepc"} -> Contexts \X (Registers \cup {"sepc"})]
    /\ fs \in {"Off", "Initial", "Clean", "Dirty"}

\* A context finds its registers as it left them, and sscratch is the kernel's
\* again, whatever trapped it and however many tasks ran meanwhile.
RegistersOwned == pc = "run" => regs = own[ctx] /\ csr.sscratch = <<"kernel", "Sscratch">>

\* What trap_handler gets: the trapped context in the frame, the kernel's
\* own thread pointer and global pointer in the registers.
HandlerSeesFrame ==
    pc = "call" =>
        /\ \A r \in Registers : stack.frame[r] = own[ctx][r]
        /\ stack.frame["sepc"] = <<ctx, "sepc">>
        /\ regs["tp"] = <<"kernel", "tp">> /\ regs["gp"] = <<"kernel", "gp">>

\* stvec_trap_shim keeps contexts apart on the way in, in the handler and on the
\* way out, even when boot waits in the entry of a task.
ContextSound == TypeOK /\ RegistersOwned /\ HandlerSeesFrame

\* Unless boot is late, start_tasks and the shim return to code that the mode they
\* return to can execute, to a task once boot is done, and a task can be interrupted:
\* through the prints and the interrupts between main.rs:52 and the sret.
ReturnsToTask ==
    pc = "run" /\ ~late => /\ Executes
                           /\ boot = "done" => ctx \in Tasks
                           /\ csr.sie

\* The floating point registers hold what was last written to them, by whatever
\* task, whether the shim saves them or not: a lone user finds its own.
LastWritten == pc = "run" => fp = wrote

\* "Forget lock so it is locked when returned to the faulting area": whatever interrupted
\* a print, in the code that is returned to UART is locked if and only if a print has it.
LockBalanced == pc = "run" => (uart.locked <=> uart.held # "none")

\* "Make it so we'll jump to user mode on an `sret`": tasks run in user mode. Boot's own
\* timer may expire before it jumps.
TasksInUserMode == pc = "run" /\ ctx \in Tasks => csr.mode = "U"

\* "Failed to map UART, using HHDM UART": it is used from then on.
FallbackTaken == pc = "entry" /\ cause = "store" => uart.at # "hhdm"

=============================================================================
