---------------------------- MODULE TrapEntryProofs ----------------------------
(***************************************************************************)
(* Proofs about TrapEntry, for every set of tasks: contexts keep their     *)
(* registers across traps, boot and tasks run in their mode unless boot is *)
(* late, the floating point registers hold what was written last, and the  *)
(* lock of UART is left as a trap found it.                                *)
(***************************************************************************)
EXTENDS TrapEntry, TLAPS

-----------------------------------------------------------------------------
(* The invariant *)

FrameRegs == Registers \cup {"sepc"}
Frames == [FrameRegs -> Contexts \X FrameRegs]
FsStates == {"Off", "Initial", "Clean", "Dirty"}
Values == (Contexts \cup {"kernel", "none"}) \X (FrameRegs \cup {"Sscratch"})
RegValues == Values \cup FsStates       \* s0 holds FS while the handler runs
Csrs == [sscratch : RegValues, sepc : Values, spp : {"U", "S"}, spie : BOOLEAN,
         sie : BOOLEAN, mode : {"U", "S"}]
Stacks == [frame : [FrameRegs -> RegValues], fpext : Tasks \cup {"none"},
           scratch_sp : RegValues]
Uarts == [locked : BOOLEAN, at : {"io", "hhdm"}, mapped : BOOLEAN,
          held : {"io", "hhdm", "none"}]

Types ==
    /\ ctx \in Contexts
    /\ current \in Tasks
    /\ saved \in [Tasks -> Frames]
    /\ regs \in [Registers -> RegValues]
    /\ csr \in Csrs
    /\ fs \in FsStates
    /\ fp \in Tasks \cup {"none"}
    /\ stack \in Stacks
    /\ own \in [Contexts -> [Registers -> Contexts \X FrameRegs]]
    /\ uart \in Uarts

\* A task's registers are its own whether it runs or waits in the queue.
TasksOwn == \A t \in Tasks : own[t] = Initially(t)

\* The frame of a context that is trapped.
OwnFrame(c) == [r \in FrameRegs |-> IF r = "sepc" THEN <<c, "sepc">> ELSE own[c][r]]

\* A frame of entry t: of the task, or of boot that was trapped with the entry current.
Fits(f, t) == f = OwnFrame(t) \/ (t = First /\ f = OwnFrame("boot"))

\* Who waits in the queue. The entry of the current task is as it was last saved, which
\* matters as long as boot may read it.
Filed == \A t \in Tasks : t # current \/ boot \notin {"sret", "done"} => Fits(saved[t], t)

KernelSscratch == <<"kernel", "Sscratch">>
KernelRegs == regs["tp"] = <<"kernel", "tp">> /\ regs["gp"] = <<"kernel", "gp">>
KernelSp == pc \notin {"run", "entry", "sp", "sret", "halted"} => regs["sp"] = <<"kernel", "sp">>

Handling == {"call", "forced", "move", "moved", "report", "reported"}

\* Where the registers of the context are on each step of the way in ...
OnTheWayIn(o) ==
    /\ pc \in {"run", "entry"} => regs = o /\ csr.sscratch = KernelSscratch
    /\ pc \in {"entry", "sp", "save", "swap", "t6"} => csr.sepc = <<ctx, "sepc">>
    /\ pc \in {"sp", "save", "swap"} => csr.sscratch = o["t6"] /\ regs["t6"] = KernelSscratch
    /\ pc = "sp" => \A r \in Registers \ {"t6"} : regs[r] = o[r]
    /\ pc = "save" => /\ \A r \in Registers \ {"t6", "sp"} : regs[r] = o[r]
                      /\ stack.scratch_sp = o["sp"]
    /\ pc \in {"swap", "t6"} => \A r \in Registers \ {"t6"} : stack.frame[r] = o[r]
    /\ pc = "t6" => regs["t6"] = o["t6"] /\ csr.sscratch = KernelSscratch
    /\ pc \in {"swap", "t6", "fp", "call"} => KernelRegs

\* ... and on the way out.
OnTheWayOut(o) ==
    /\ pc \in {"fp", "fpback", "sepc", "restore"} \cup Handling =>
          stack.frame = OwnFrame(ctx) /\ csr.sscratch = KernelSscratch
    /\ pc \in {"restore", "sret"} => csr.sepc = <<ctx, "sepc">> /\ csr.spie
    /\ pc = "sret" => regs = o /\ csr.sscratch = KernelSscratch

Shimmed == OnTheWayIn(own[ctx]) /\ OnTheWayOut(own[ctx])

\* Who runs: the current task, or boot in the entry it found.
Contextual == ctx = current \/ (ctx = "boot" /\ current = First)

\* Until boot has done its sret the hart stays in S-mode, whoever runs, and in U-mode
\* from then on; what boot has prepared, every trap leaves as it was.
Modes ==
    /\ pc = "run" => (csr.mode = "S" <=> boot # "done") /\ csr.sie
    /\ pc # "run" => (csr.spp = "S" <=> boot # "done")
    /\ pc = "run" /\ boot # "init" => csr.spp = "U" /\ csr.spie

\* What start_tasks has read, and how it gets into sepc and the registers.
Copied == boot \in {"jump", "sepc", "regs"} => Fits(task, First)
Loaded ==
    pc = "run" /\ ctx = "boot" /\ boot \in {"regs", "sret"} =>
        \/ csr.sepc = <<"boot", "sepc">>
        \/ /\ csr.sepc = <<First, "sepc">>
           /\ boot = "regs" => task = OwnFrame(First)
           /\ boot = "sret" => own["boot"] = Initially(First)

\* As long as boot is not late it runs alone, with the task it read in the end.
OnTime ==
    ~late =>
        /\ boot # "done" => /\ ctx = "boot" /\ saved[First] = OwnFrame(First)
                            /\ pc # "run" => cause \in {"external", "store"}
        /\ boot \in {"jump", "sepc", "regs"} => task = OwnFrame(First)
        /\ boot \in {"regs", "sret"} => pc = "run" /\ csr.sepc = <<First, "sepc">>
        /\ boot = "done" => /\ ctx \in Tasks
                            /\ \A t \in Tasks \ {current} : saved[t] = OwnFrame(t)

FpKept ==
    /\ fp = wrote
    /\ pc \in {"fpback"} \cup Handling /\ regs["s0"] = "Dirty" => stack.fpext = wrote

\* Whose the lock is while a store fault is handled, and otherwise.
Locked ==
    /\ pc \in {"forced", "moved", "reported"} => ~uart.locked
    /\ pc \in {"move", "report"} => uart.locked
    /\ pc \notin {"forced", "move", "moved", "report", "reported"} =>
          (uart.locked <=> uart.held # "none")
    /\ pc # "run" /\ cause = "store" => uart.held # "none"

IInv == /\ Types /\ TasksOwn /\ Filed /\ KernelSp /\ Shimmed /\ Contextual /\ Modes
        /\ Copied /\ Loaded /\ OnTime /\ FpKept /\ Locked

-----------------------------------------------------------------------------
(* Steps *)

\* The values that registers can hold, and what a frame holds of them.
LEMMA ValueFacts ==
    /\ Values \subseteq RegValues
    /\ Contexts \X FrameRegs \subseteq Values
    /\ \A c \in Contexts : <<c, "sepc">> \in Contexts \X FrameRegs
    /\ \A c \in Contexts, r \in Registers : <<c, r>> \in Contexts \X FrameRegs
    /\ \A r \in Registers : <<"kernel", r>> \in Values
    /\ KernelSscratch \in Values
    /\ {"ra", "sp", "gp", "tp", "t6", "s0", "gen"} = Registers
    /\ FrameRegs = Registers \cup {"sepc"}
    /\ "sepc" \notin Registers
    /\ FsStates \subseteq RegValues
    /\ Tasks \subseteq Contexts /\ "boot" \in Contexts /\ "boot" \notin Tasks
    /\ First \in Tasks
  BY TasksAssumption
     DEF Values, RegValues, FrameRegs, Registers, KernelSscratch, FsStates, Contexts

\* What a frame of a context holds.
LEMMA FrameFacts ==
    ASSUME Types, NEW c \in Contexts
    PROVE  /\ OwnFrame(c) \in Frames /\ OwnFrame(c) \in [FrameRegs -> RegValues]
           /\ OwnFrame(c)["sepc"] = <<c, "sepc">>
           /\ \A r \in Registers : OwnFrame(c)[r] = own[c][r]
           /\ [r \in Registers |-> OwnFrame(c)[r]] = own[c]
<1>1. /\ OwnFrame(c)["sepc"] = <<c, "sepc">>
      /\ \A r \in Registers : OwnFrame(c)[r] = own[c][r]
  BY ValueFacts DEF OwnFrame
<1>2. own[c] \in [Registers -> Contexts \X FrameRegs]
  BY DEF Types
<1>3. \A r \in FrameRegs : (IF r = "sepc" THEN <<c, "sepc">> ELSE own[c][r]) \in Contexts \X FrameRegs
  <2> HIDE DEF FrameRegs, Contexts
  <2> QED BY <1>2, ValueFacts
<1>4. OwnFrame(c) \in Frames
  <2> HIDE DEF FrameRegs, Contexts
  <2> QED BY <1>3 DEF OwnFrame, Frames
<1>5. OwnFrame(c) \in [FrameRegs -> RegValues]
  <2> HIDE DEF FrameRegs, Contexts, RegValues, Values
  <2> QED BY <1>4, ValueFacts DEF Frames
<1> QED
  BY <1>1, <1>2, <1>4, <1>5

\* A trap: the hart takes it, and boot's sret may no longer be what it was.
LEMMA TrapStep ==
    ASSUME IInv, NEW why, pc = "run", Trapped(why),
           UNCHANGED <<ctx, regs, fs, fp, stack, queue, kernel, own, wrote>>,
           ctx = "boot" /\ csr.mode = "S" => why \in {"external", "timer", "store"},
           why = "store" => uart.held # "none"
    PROVE  IInv'
<1>1. Types'
  <2>1. <<ctx, "sepc">> \in Values
    BY ValueFacts DEF IInv, Types
  <2>2. csr' \in Csrs
    BY <2>1 DEF IInv, Types, Trapped, Csrs
  <2> QED BY <2>2 DEF IInv, Types, Trapped, queue, kernel
<1>2. (TasksOwn /\ Filed /\ Contextual /\ Copied)'
  BY DEF IInv, TasksOwn, Filed, Fits, OwnFrame, Contextual, Copied, queue, kernel
<1>3. KernelSp'
  BY DEF IInv, KernelSp, Trapped
<1>4. Shimmed'
  BY DEF IInv, Types, Csrs, Shimmed, OnTheWayIn, OnTheWayOut, OwnFrame, KernelRegs,
     KernelSscratch, Handling, Trapped
<1>5. Modes'
  BY DEF IInv, Types, Csrs, Modes, Trapped, kernel
<1>6. Loaded'
  BY DEF Loaded, Trapped
<1>7. OnTime'
  <2> SUFFICES ASSUME ~late' PROVE OnTime'
    BY DEF OnTime
  <2>1. /\ ~late /\ ~(ctx = "boot" /\ (why = "timer" \/ boot \in {"regs", "sret"}))
        /\ cause' = why
    BY DEF Trapped
  <2>2. boot # "done" => ctx = "boot" /\ csr.mode = "S"
    BY <2>1 DEF IInv, OnTime, Modes
  <2> QED BY <2>1, <2>2 DEF IInv, OnTime, OwnFrame, queue, kernel
<1>8. (FpKept /\ Locked)'
  BY DEF IInv, FpKept, Handling, Locked, Trapped, kernel
<1> QED
  BY <1>1, <1>2, <1>3, <1>4, <1>5, <1>6, <1>7, <1>8 DEF IInv

\* LockUart: the lock, and the pointer that the print stores through.
LEMMA LockUartStep ==
    ASSUME IInv, LockUart
    PROVE  IInv'
<1>1. Types'
  <2>1. uart' \in Uarts
    BY DEF IInv, Types, LockUart, Uarts
  <2> QED BY <2>1 DEF IInv, Types, LockUart, BootStep, queue
<1>2. Locked'
  BY DEF IInv, Types, Uarts, Locked, LockUart, BootStep
<1>3. Shimmed'
  BY DEF IInv, Types, Shimmed, Csrs, Stacks, Registers, FrameRegs, OnTheWayIn,
     OnTheWayOut, OwnFrame, KernelRegs, KernelSscratch, Handling, LockUart, BootStep,
     queue, past
<1>4. FpKept'
  BY DEF IInv, Types, FpKept, Stacks, Registers, Handling, LockUart, BootStep, queue,
     past
<1>5. (TasksOwn /\ Filed /\ KernelSp /\ Contextual /\ Modes /\ Copied /\ Loaded /\ OnTime)'
  BY DEF IInv, TasksOwn, Filed, Fits, OwnFrame, KernelSp, Contextual, Modes, Types,
     Csrs, Copied, Loaded, Initially, OnTime, LockUart, BootStep, queue, past
<1> QED
  BY <1>1, <1>2, <1>3, <1>4, <1>5 DEF IInv

\* Store: the lock is free again.
LEMMA StoreDoneStep ==
    ASSUME IInv, Store
    PROVE  IInv'
<1>1. Types'
  <2>1. uart' \in Uarts
    BY DEF IInv, Types, Store, Uarts
  <2> QED BY <2>1 DEF IInv, Types, Store, BootStep, queue
<1>2. Locked'
  BY DEF IInv, Types, Uarts, Locked, Store, BootStep
<1>3. Shimmed'
  BY DEF IInv, Types, Shimmed, Csrs, Stacks, Registers, FrameRegs, OnTheWayIn,
     OnTheWayOut, OwnFrame, KernelRegs, KernelSscratch, Handling, Store, BootStep,
     queue, past
<1>4. FpKept'
  BY DEF IInv, Types, FpKept, Stacks, Registers, Handling, Store, BootStep, queue,
     past
<1>5. (TasksOwn /\ Filed /\ KernelSp /\ Contextual /\ Modes /\ Copied /\ Loaded /\ OnTime)'
  BY DEF IInv, TasksOwn, Filed, Fits, OwnFrame, KernelSp, Contextual, Modes, Types,
     Csrs, Copied, Loaded, Initially, OnTime, Store, BootStep, queue, past
<1> QED
  BY <1>1, <1>2, <1>3, <1>4, <1>5 DEF IInv

\* PrepareSret: SPP and SPIE are boot's.
LEMMA PrepareSretStep ==
    ASSUME IInv, PrepareSret
    PROVE  IInv'
<1>1. Types'
  <2>1. csr' \in Csrs
    BY DEF IInv, Types, PrepareSret, Csrs
  <2> QED BY <2>1 DEF IInv, Types, PrepareSret, BootStep, queue
<1>2. Shimmed'
  BY DEF IInv, Types, Shimmed, Csrs, Stacks, Registers, FrameRegs, OnTheWayIn,
     OnTheWayOut, OwnFrame, KernelRegs, KernelSscratch, Handling, PrepareSret,
     BootStep, queue, past
<1>3. Modes'
  BY DEF IInv, Modes, Types, Csrs, PrepareSret, BootStep, queue, past
<1>4. (TasksOwn /\ Filed /\ KernelSp /\ Contextual /\ Copied /\ Loaded /\ OnTime /\ FpKept /\ Locked)'
  BY DEF IInv, TasksOwn, Filed, Fits, OwnFrame, KernelSp, Contextual, Copied, Loaded,
     Initially, OnTime, Types, FpKept, Stacks, Registers, Handling, Locked, Uarts,
     PrepareSret, BootStep, queue, past
<1> QED
  BY <1>1, <1>2, <1>3, <1>4 DEF IInv

\* ArmTimer: the timer will come.
LEMMA ArmTimerStep ==
    ASSUME IInv, ArmTimer
    PROVE  IInv'
<1>1. Shimmed'
  BY DEF IInv, Types, Shimmed, Csrs, Stacks, Registers, FrameRegs, OnTheWayIn,
     OnTheWayOut, OwnFrame, KernelRegs, KernelSscratch, Handling, ArmTimer, BootStep,
     queue, past
<1>2. (Types /\ TasksOwn /\ Filed /\ KernelSp /\ Contextual /\ Modes /\ Copied /\ Loaded /\ OnTime /\ FpKept /\ Locked)'
  BY DEF IInv, Types, TasksOwn, Filed, Fits, OwnFrame, KernelSp, Contextual, Modes,
     Csrs, Copied, Loaded, Initially, OnTime, FpKept, Stacks, Registers, Handling,
     Locked, Uarts, ArmTimer, BootStep, queue, past
<1> QED
  BY <1>1, <1>2 DEF IInv

\* ReadLock: boot has the lock of the queue.
LEMMA ReadLockStep ==
    ASSUME IInv, ReadLock
    PROVE  IInv'
<1>1. Shimmed'
  BY DEF IInv, Types, Shimmed, Csrs, Stacks, Registers, FrameRegs, OnTheWayIn,
     OnTheWayOut, OwnFrame, KernelRegs, KernelSscratch, Handling, ReadLock, BootStep,
     queue, past
<1>2. (Types /\ TasksOwn /\ Filed /\ KernelSp /\ Contextual /\ Modes /\ Copied /\ Loaded /\ OnTime /\ FpKept /\ Locked)'
  BY DEF IInv, Types, TasksOwn, Filed, Fits, OwnFrame, KernelSp, Contextual, Modes,
     Csrs, Copied, Loaded, Initially, OnTime, FpKept, Stacks, Registers, Handling,
     Locked, Uarts, ReadLock, BootStep, queue, past
<1> QED
  BY <1>1, <1>2 DEF IInv

\* CopyTask: boot is in the first entry, so that it reads the first task or itself.
LEMMA CopyTaskStep ==
    ASSUME IInv, CopyTask
    PROVE  IInv'
<1>0. current = First /\ task' = saved[First] /\ Fits(saved[First], First)
  BY ValueFacts DEF IInv, Types, Contextual, Filed, CopyTask, BootStep
<1>1. Copied'
  BY <1>0 DEF Copied, Fits, OwnFrame, CopyTask, BootStep, past
<1>2. OnTime'
  BY <1>0 DEF IInv, OnTime, OwnFrame, CopyTask, BootStep, queue, past
<1>3. Shimmed'
  BY DEF IInv, Types, Shimmed, Csrs, Stacks, Registers, FrameRegs, OnTheWayIn,
     OnTheWayOut, OwnFrame, KernelRegs, KernelSscratch, Handling, CopyTask, BootStep,
     queue, past
<1>4. (Types /\ TasksOwn /\ Filed /\ KernelSp /\ Contextual /\ Modes /\ Loaded /\ FpKept /\ Locked)'
  BY DEF IInv, Types, TasksOwn, Filed, Fits, OwnFrame, KernelSp, Contextual, Modes,
     Csrs, Loaded, Initially, FpKept, Stacks, Registers, Handling, Locked, Uarts,
     CopyTask, BootStep, queue, past
<1> QED
  BY <1>1, <1>2, <1>3, <1>4 DEF IInv

\* LoadSepc: sepc is of what boot has read.
LEMMA LoadSepcStep ==
    ASSUME IInv, LoadSepc
    PROVE  IInv'
<1>0. /\ task = OwnFrame(First) => task.sepc = <<First, "sepc">>
      /\ \/ task.sepc = <<First, "sepc">> /\ task = OwnFrame(First)
         \/ task.sepc = <<"boot", "sepc">> /\ task = OwnFrame("boot")
      /\ <<First, "sepc">> \in Values /\ <<"boot", "sepc">> \in Values
  <2>1. Fits(task, First)
    BY DEF IInv, Copied, LoadSepc, BootStep
  <2>2. /\ OwnFrame(First)["sepc"] = <<First, "sepc">>
        /\ OwnFrame("boot")["sepc"] = <<"boot", "sepc">>
    BY FrameFacts, ValueFacts DEF IInv
  <2> QED BY <2>1, <2>2, ValueFacts DEF Fits
<1>00. csr' \in Csrs /\ csr' = [csr EXCEPT !.sepc = task.sepc] /\ csr'.sepc = task.sepc
  BY <1>0 DEF IInv, Types, Csrs, LoadSepc
<1>1. Types'
  BY <1>00 DEF IInv, Types, LoadSepc, BootStep, queue
<1>2. Modes'
  BY <1>00 DEF IInv, Types, Csrs, Modes, LoadSepc, BootStep
<1>3. Loaded'
  BY <1>0, <1>00 DEF Loaded, OwnFrame, LoadSepc, BootStep
<1>4. OnTime'
  <2>1. ~late => task = OwnFrame(First)
    BY DEF IInv, OnTime, LoadSepc, BootStep
  <2> QED BY <1>0, <1>00, <2>1 DEF IInv, OnTime, OwnFrame, LoadSepc, BootStep, queue
<1>5. Shimmed'
  BY DEF IInv, Types, Shimmed, Csrs, Stacks, Registers, FrameRegs, OnTheWayIn,
     OnTheWayOut, OwnFrame, KernelRegs, KernelSscratch, Handling, LoadSepc, BootStep,
     queue, past
<1>6. (TasksOwn /\ Filed /\ KernelSp /\ Contextual /\ Copied /\ FpKept /\ Locked)'
  BY DEF IInv, TasksOwn, Filed, Fits, OwnFrame, KernelSp, Contextual, Copied, Types,
     FpKept, Stacks, Registers, Handling, Locked, Uarts, LoadSepc, BootStep, queue,
     past
<1> QED
  BY <1>1, <1>2, <1>3, <1>4, <1>5, <1>6 DEF IInv

\* LoadRegs: the registers are of what boot has read, and boot's from now on.
LEMMA LoadRegsStep ==
    ASSUME IInv, LoadRegs
    PROVE  IInv'
<1>0. /\ regs' \in [Registers -> Contexts \X FrameRegs]
      /\ own' = [own EXCEPT !["boot"] = regs'] /\ own'["boot"] = regs'
      /\ \A t \in Tasks : own'[t] = own[t]
  <2>1. Fits(task, First)
    BY DEF IInv, Copied, LoadRegs, BootStep
  <2>2. \/ regs' = own[First]
        \/ regs' = own["boot"]
    BY <2>1, FrameFacts, ValueFacts DEF IInv, Fits, LoadRegs
  <2>3. own \in [Contexts -> [Registers -> Contexts \X FrameRegs]]
    BY DEF IInv, Types
  <2>4. own' = [own EXCEPT !["boot"] = regs']
    BY DEF LoadRegs
  <2> HIDE DEF Contexts, FrameRegs
  <2> QED BY <2>2, <2>3, <2>4, ValueFacts
<1>00. current = First /\ \A t \in Tasks : OwnFrame(t)' = OwnFrame(t)
  BY <1>0, ValueFacts DEF IInv, Types, Contextual, LoadRegs, BootStep, OwnFrame
<1>1. Types'
  BY <1>0, ValueFacts DEF IInv, Types, LoadRegs, BootStep, queue
<1>2. TasksOwn'
  BY <1>0 DEF IInv, TasksOwn
<1>3. Filed'
  BY <1>0, <1>00 DEF IInv, Filed, Fits, LoadRegs, BootStep, queue
<1>4. Shimmed'
  BY <1>0 DEF IInv, Types, Shimmed, OnTheWayIn, OnTheWayOut, Handling, KernelSscratch, LoadRegs,
     BootStep
<1>5. Loaded'
  <2>1. csr.sepc = <<First, "sepc">> /\ First # "boot" => task = OwnFrame(First)
    BY DEF IInv, Loaded, LoadRegs, BootStep
  <2>2. csr.sepc = <<First, "sepc">> => own'["boot"] = Initially(First)
    BY <1>0, <2>1, FrameFacts, ValueFacts DEF IInv, TasksOwn, LoadRegs
  <2> QED BY <2>2 DEF IInv, Loaded, LoadRegs, BootStep
<1>6. OnTime'
  BY <1>00, ValueFacts DEF IInv, OnTime, LoadRegs, BootStep, queue
<1>7. FpKept'
  BY DEF IInv, FpKept, Handling, LoadRegs, BootStep
<1>8. (KernelSp /\ Contextual /\ Modes /\ Copied /\ Locked)'
  BY DEF IInv, KernelSp, Contextual, Modes, Types, Csrs, Copied, Fits, OwnFrame,
     Locked, Uarts, LoadRegs, BootStep, queue
<1> QED
  BY <1>1, <1>2, <1>3, <1>4, <1>5, <1>6, <1>7, <1>8 DEF IInv

\* LoadSret: the task that was read runs with its registers, or boot does.
LEMMA LoadSretStep ==
    ASSUME IInv, LoadSret
    PROVE  IInv'
<1>0. /\ ctx = "boot" /\ current = First /\ current' = First /\ csr.spp = "U" /\ csr.spie
      /\ ctx' \in {"boot", First} /\ ctx' = csr.sepc[1]
      /\ ctx' = First => own["boot"] = Initially(First)
  <2>1. ctx = "boot" /\ pc = "run" /\ boot = "sret" /\ ctx' = csr.sepc[1]
    BY DEF LoadSret, Returned
  <2>2. current = First /\ current' = First /\ csr.spp = "U" /\ csr.spie
    BY <2>1, ValueFacts DEF IInv, Types, Contextual, Modes, LoadSret, queue
  <2>3. \/ csr.sepc = <<"boot", "sepc">>
        \/ csr.sepc = <<First, "sepc">> /\ own["boot"] = Initially(First)
    BY <2>1 DEF IInv, Loaded
  <2> QED BY <2>1, <2>2, <2>3, ValueFacts
<1>00. /\ csr'.mode = "U" /\ csr'.spp = "U" /\ csr'.sie /\ csr'.spie
       /\ csr'.sscratch = csr.sscratch /\ boot' = "done" /\ pc' = "run"
  BY <1>0 DEF IInv, Types, Csrs, LoadSret, Returned
<1>1. Types'
  <2>1. csr' \in Csrs
    BY DEF IInv, Types, LoadSret, Returned, Csrs
  <2> QED BY <1>0, <2>1, ValueFacts DEF IInv, Types, LoadSret, queue, past
<1>2. Filed'
  BY DEF IInv, Filed, Fits, OwnFrame, LoadSret, queue, past
<1>3. Shimmed'
  <2>1. regs = own["boot"] /\ csr.sscratch = KernelSscratch
    BY DEF IInv, Shimmed, OnTheWayIn, LoadSret
  <2>2. ctx' = First => own["boot"] = own[First]
    BY <1>0, ValueFacts DEF IInv, TasksOwn
  <2>3. regs' = own'[ctx'] /\ csr'.sscratch = KernelSscratch
    BY <1>0, <1>00, <2>1, <2>2 DEF LoadSret, past
  <2> QED BY <1>00, <2>3 DEF Shimmed, OnTheWayIn, OnTheWayOut, Handling
<1>4. Contextual'
  BY <1>0 DEF Contextual
<1>5. Modes'
  BY <1>00 DEF Modes
<1>6. Loaded'
  BY <1>00 DEF Loaded
<1>7. OnTime'
  <2>1. ~late => csr.sepc = <<First, "sepc">>
    BY DEF IInv, OnTime, LoadSret
  <2>2. ~late => ctx' = First
    BY <2>1, <1>0
  <2>3. \A t \in Tasks \ {First} : saved[t] = OwnFrame(t)
    BY <1>0 DEF IInv, Filed, Fits
  <2>4. late' = late /\ saved' = saved /\ \A t \in Tasks : OwnFrame(t)' = OwnFrame(t)
    BY DEF LoadSret, queue, past, OwnFrame
  <2> QED BY <1>0, <1>00, <2>2, <2>3, <2>4, ValueFacts DEF OnTime
<1>8. FpKept'
  BY DEF IInv, FpKept, Handling, LoadSret, past
<1>9. (TasksOwn /\ KernelSp /\ Copied /\ Locked)'
  BY DEF IInv, TasksOwn, KernelSp, Copied, Fits, OwnFrame, Locked, Types, Uarts,
     LoadSret, queue, past
<1> QED
  BY <1>1, <1>2, <1>3, <1>4, <1>5, <1>6, <1>7, <1>8, <1>9 DEF IInv

\* SwapIn: t6 is in sscratch.
LEMMA SwapInStep ==
    ASSUME IInv, SwapIn
    PROVE  IInv'
<1>1. Types'
  <2>1. csr' \in Csrs
    BY ValueFacts DEF IInv, Types, SwapIn, SwapScratch, Csrs
  <2>2. regs' \in [Registers -> RegValues]
    BY ValueFacts DEF IInv, Types, SwapIn, SwapScratch, Csrs
  <2> QED BY <2>1, <2>2 DEF IInv, Types, SwapIn, SwapScratch, ShimStep, queue, kernel, past
<1>2. KernelSp'
  BY DEF IInv, KernelSp, SwapIn, SwapScratch, ShimStep, queue, kernel, past
<1>3. Shimmed'
  BY DEF IInv, Types, Shimmed, Csrs, Stacks, Registers, FrameRegs, OnTheWayIn,
     OnTheWayOut, OwnFrame, KernelRegs, KernelSscratch, Handling, SwapIn, SwapScratch,
     ShimStep, queue, kernel, past
<1>4. FpKept'
  BY DEF IInv, Types, FpKept, Stacks, Registers, Handling, SwapIn, SwapScratch,
     ShimStep, queue, kernel, past
<1>5. (TasksOwn /\ Filed /\ Contextual /\ Modes /\ Copied /\ Loaded /\ OnTime /\ Locked)'
  BY DEF IInv, TasksOwn, Filed, Fits, OwnFrame, Contextual, Modes, Types, Csrs,
     Copied, Loaded, Initially, OnTime, Locked, Uarts, SwapIn, SwapScratch, ShimStep,
     queue, kernel, past
<1> QED
  BY <1>1, <1>2, <1>3, <1>4, <1>5 DEF IInv

\* SwitchStack: sp is in Sscratch.
LEMMA SwitchStackStep ==
    ASSUME IInv, SwitchStack
    PROVE  IInv'
<1>1. Types'
  <2>1. stack' \in Stacks
    BY ValueFacts DEF IInv, Types, SwitchStack, Stacks
  <2>2. regs' \in [Registers -> RegValues]
    BY ValueFacts DEF IInv, Types, SwitchStack
  <2> QED BY <2>1, <2>2 DEF IInv, Types, SwitchStack, ShimStep, queue, kernel, past
<1>2. KernelSp'
  BY DEF IInv, Types, KernelSp, Registers, SwitchStack, ShimStep
<1>3. Shimmed'
  BY DEF IInv, Types, Shimmed, Csrs, Stacks, Registers, FrameRegs, OnTheWayIn,
     OnTheWayOut, OwnFrame, KernelRegs, KernelSscratch, Handling, SwitchStack,
     ShimStep, queue, kernel, past
<1>4. FpKept'
  BY DEF IInv, Types, FpKept, Stacks, Registers, Handling, SwitchStack, ShimStep,
     queue, kernel, past
<1>5. (TasksOwn /\ Filed /\ Contextual /\ Modes /\ Copied /\ Loaded /\ OnTime /\ Locked)'
  BY DEF IInv, TasksOwn, Filed, Fits, OwnFrame, Contextual, Modes, Types, Csrs,
     Copied, Loaded, Initially, OnTime, Locked, Uarts, SwitchStack, ShimStep, queue,
     kernel, past
<1> QED
  BY <1>1, <1>2, <1>3, <1>4, <1>5 DEF IInv

\* SaveRegs: all but t6 is in the frame.
LEMMA SaveRegsStep ==
    ASSUME IInv, SaveRegs
    PROVE  IInv'
<1>1. Types'
  <2>1. stack.scratch_sp \in RegValues
    BY DEF IInv, Types, Stacks
  <2>2. <<"kernel", "tp">> \in RegValues /\ <<"kernel", "gp">> \in RegValues
    BY ValueFacts
  <2>3. regs' \in [Registers -> RegValues]
    BY <2>1, <2>2 DEF IInv, Types, SaveRegs
  <2>4. stack' \in Stacks
    BY ValueFacts DEF IInv, Types, SaveRegs, Stacks
  <2> QED BY <2>3, <2>4 DEF IInv, Types, SaveRegs, ShimStep, queue, kernel, past
<1>2. KernelSp'
  BY DEF IInv, Types, KernelSp, Registers, SaveRegs, ShimStep
<1>3. Shimmed'
  BY DEF IInv, Types, Shimmed, Csrs, Stacks, Registers, FrameRegs, OnTheWayIn,
     OnTheWayOut, OwnFrame, KernelRegs, KernelSscratch, Handling, SaveRegs, ShimStep,
     queue, kernel, past
<1>4. FpKept'
  BY DEF IInv, Types, FpKept, Stacks, Registers, Handling, SaveRegs, ShimStep, queue,
     kernel, past
<1>5. (TasksOwn /\ Filed /\ Contextual /\ Modes /\ Copied /\ Loaded /\ OnTime /\ Locked)'
  BY DEF IInv, TasksOwn, Filed, Fits, OwnFrame, Contextual, Modes, Types, Csrs,
     Copied, Loaded, Initially, OnTime, Locked, Uarts, SaveRegs, ShimStep, queue,
     kernel, past
<1> QED
  BY <1>1, <1>2, <1>3, <1>4, <1>5 DEF IInv

\* SwapOut: t6 is back, and sscratch the kernel's.
LEMMA SwapOutStep ==
    ASSUME IInv, SwapOut
    PROVE  IInv'
<1>1. Types'
  <2>1. csr' \in Csrs
    BY ValueFacts DEF IInv, Types, SwapOut, SwapScratch, Csrs
  <2>2. regs' \in [Registers -> RegValues]
    BY ValueFacts DEF IInv, Types, SwapOut, SwapScratch, Csrs
  <2> QED BY <2>1, <2>2 DEF IInv, Types, SwapOut, SwapScratch, ShimStep, queue, kernel, past
<1>2. KernelSp'
  BY DEF IInv, KernelSp, SwapOut, SwapScratch, ShimStep, queue, kernel, past
<1>3. Shimmed'
  BY DEF IInv, Types, Shimmed, Csrs, Stacks, Registers, FrameRegs, OnTheWayIn,
     OnTheWayOut, OwnFrame, KernelRegs, KernelSscratch, Handling, SwapOut,
     SwapScratch, ShimStep, queue, kernel, past
<1>4. FpKept'
  BY DEF IInv, Types, FpKept, Stacks, Registers, Handling, SwapOut, SwapScratch,
     ShimStep, queue, kernel, past
<1>5. (TasksOwn /\ Filed /\ Contextual /\ Modes /\ Copied /\ Loaded /\ OnTime /\ Locked)'
  BY DEF IInv, TasksOwn, Filed, Fits, OwnFrame, Contextual, Modes, Types, Csrs,
     Copied, Loaded, Initially, OnTime, Locked, Uarts, SwapOut, SwapScratch, ShimStep,
     queue, kernel, past
<1> QED
  BY <1>1, <1>2, <1>3, <1>4, <1>5 DEF IInv

\* SaveT6: the frame is the context's.
LEMMA SaveT6Step ==
    ASSUME IInv, SaveT6
    PROVE  IInv'
<1>0. /\ stack' = [stack EXCEPT !.frame =
                     [stack.frame EXCEPT !["t6"] = regs["t6"], !["sepc"] = csr.sepc]]
      /\ stack' \in Stacks
  <2>1. regs["t6"] \in RegValues /\ csr.sepc \in RegValues
    BY ValueFacts DEF IInv, Types, Csrs
  <2>2. stack.frame \in [FrameRegs -> RegValues]
    BY DEF IInv, Types, Stacks
  <2>3. [stack.frame EXCEPT !["t6"] = regs["t6"], !["sepc"] = csr.sepc] \in [FrameRegs -> RegValues]
    BY <2>1, <2>2
  <2>4. stack' = [stack EXCEPT !.frame =
                    [stack.frame EXCEPT !["t6"] = regs["t6"], !["sepc"] = csr.sepc]]
    BY DEF IInv, Types, Stacks, SaveT6
  <2> QED BY <2>3, <2>4 DEF IInv, Types, Stacks
<1>1. Types'
  BY <1>0 DEF IInv, Types, SaveT6, ShimStep, queue, kernel, past
<1>2. Shimmed'
  <2>1. /\ \A r \in Registers \ {"t6"} : stack.frame[r] = own[ctx][r]
        /\ regs["t6"] = own[ctx]["t6"] /\ csr.sepc = <<ctx, "sepc">>
        /\ csr.sscratch = KernelSscratch /\ KernelRegs
    BY DEF IInv, Shimmed, OnTheWayIn, SaveT6, ShimStep
  <2>2. stack.frame \in [FrameRegs -> RegValues]
    BY DEF IInv, Types, Stacks
  <2>3. [stack.frame EXCEPT !["t6"] = regs["t6"], !["sepc"] = csr.sepc] = OwnFrame(ctx)
    BY <2>1, <2>2, ValueFacts DEF OwnFrame
  <2>4. stack'.frame = OwnFrame(ctx)
    BY <1>0, <2>3 DEF IInv, Types, Stacks
  <2>5. pc' = "fp" /\ UNCHANGED <<ctx, own, regs, csr>>
    BY DEF SaveT6, ShimStep, past
  <2> QED BY <2>1, <2>4, <2>5 DEF Shimmed, OnTheWayIn, OnTheWayOut, OwnFrame, KernelRegs,
             Handling
<1>3. KernelSp'
  BY DEF IInv, KernelSp, SaveT6, ShimStep, queue, kernel, past
<1>4. FpKept'
  BY DEF IInv, Types, FpKept, Stacks, Registers, Handling, SaveT6, ShimStep, queue,
     kernel, past
<1>5. (TasksOwn /\ Filed /\ Contextual /\ Modes /\ Copied /\ Loaded /\ OnTime /\ Locked)'
  BY DEF IInv, TasksOwn, Filed, Fits, OwnFrame, Contextual, Modes, Types, Csrs,
     Copied, Loaded, Initially, OnTime, Locked, Uarts, SaveT6, ShimStep, queue,
     kernel, past
<1> QED
  BY <1>1, <1>2, <1>3, <1>4, <1>5 DEF IInv

\* SaveFp: s0 knows whether the floating point registers were saved.
LEMMA SaveFpStep ==
    ASSUME IInv, SaveFp
    PROVE  IInv'
<1>0. /\ stack' \in Stacks /\ stack'.frame = stack.frame /\ regs' = [regs EXCEPT !["s0"] = fs]
      /\ fs' \in FsStates
  BY DEF IInv, Types, Stacks, SaveFp, FsStates
<1>1. Types'
  <2>1. regs' \in [Registers -> RegValues]
    BY <1>0, ValueFacts DEF IInv, Types
  <2> QED BY <1>0, <2>1 DEF IInv, Types, SaveFp, ShimStep, queue, kernel, past
<1>2. Shimmed'
  <2>1. stack.frame = OwnFrame(ctx) /\ csr.sscratch = KernelSscratch /\ KernelRegs
    BY DEF IInv, Shimmed, OnTheWayIn, OnTheWayOut, SaveFp, ShimStep
  <2>2. KernelRegs'
    BY <1>0, <2>1, ValueFacts DEF IInv, Types, KernelRegs
  <2>3. pc' = "call" /\ UNCHANGED <<ctx, own, csr>>
    BY DEF SaveFp, ShimStep, past
  <2> QED BY <1>0, <2>1, <2>2, <2>3 DEF Shimmed, OnTheWayIn, OnTheWayOut, OwnFrame, Handling
<1>3. KernelSp'
  BY DEF IInv, KernelSp, SaveFp, ShimStep, queue, kernel, past
<1>4. FpKept'
  BY DEF IInv, Types, FpKept, Stacks, Registers, Handling, SaveFp, ShimStep, queue,
     kernel, past
<1>5. (TasksOwn /\ Filed /\ Contextual /\ Modes /\ Copied /\ Loaded /\ OnTime /\ Locked)'
  BY DEF IInv, TasksOwn, Filed, Fits, OwnFrame, Contextual, Modes, Types, Csrs,
     Copied, Loaded, Initially, OnTime, Locked, Uarts, SaveFp, ShimStep, queue,
     kernel, past
<1> QED
  BY <1>1, <1>2, <1>3, <1>4, <1>5 DEF IInv

\* The end of the handler: what it clobbers the shim restores from the frame.
LEMMA ClobberFacts ==
    ASSUME IInv, regs' = Clobbered
    PROVE  /\ regs' \in [Registers -> RegValues]
           /\ regs'["sp"] = regs["sp"] /\ regs'["s0"] = regs["s0"]
<1>1. regs' \in [Registers -> RegValues]
  BY ValueFacts DEF IInv, Types, Clobbered
<1> QED
  BY <1>1 DEF Clobbered, Registers

\* Advance: the frame goes into the current entry, and what fits the next one comes.
LEMMA AdvanceStep ==
    ASSUME IInv, Advance
    PROVE  IInv'
<1>1. PICK next \in Tasks :
        LET kept == [saved EXCEPT ![current] = stack.frame]
        IN  /\ saved' = kept /\ current' = next /\ ctx' = kept[next].sepc[1]
            /\ stack' = [stack EXCEPT !.frame = kept[next]]
  BY DEF Advance
<1> DEFINE kept == [saved EXCEPT ![current] = stack.frame]
<1>2. pc = "call" /\ stack.frame = OwnFrame(ctx) /\ kept[current] = stack.frame
  BY DEF IInv, Types, Shimmed, OnTheWayOut, Handling, Advance, HandledFrom
<1>3. \A t \in Tasks : Fits(kept[t], t)
  <2>1. Fits(kept[current], current)
    BY <1>2 DEF IInv, Contextual, Fits
  <2>2. \A t \in Tasks \ {current} : kept[t] = saved[t] /\ Fits(saved[t], t)
    BY DEF IInv, Types, Filed
  <2> QED BY <2>1, <2>2
<1>4. /\ saved' = kept /\ current' = next /\ ctx' = kept[next].sepc[1]
      /\ stack' = [stack EXCEPT !.frame = kept[next]]
  BY <1>1
<1>5. kept \in [Tasks -> [FrameRegs -> Contexts \X FrameRegs]] /\ DOMAIN kept = Tasks
  <2>1. stack.frame \in Frames
    BY <1>2, FrameFacts DEF IInv, Types
  <2> QED BY <2>1 DEF IInv, Types, Frames
<1>6. \A t \in Tasks \ {current} : kept[t] = saved[t]
  BY DEF IInv, Types
<1> HIDE DEF kept
<1>7. /\ next \in Contexts /\ "boot" \in Contexts
      /\ OwnFrame(next)["sepc"][1] = next /\ OwnFrame("boot")["sepc"][1] = "boot"
  <2>1. next \in Contexts /\ "boot" \in Contexts
    BY ValueFacts
  <2>2. \A c \in Contexts : OwnFrame(c)["sepc"] = <<c, "sepc">>
    BY FrameFacts DEF IInv
  <2>3. OwnFrame(next)["sepc"] = <<next, "sepc">> /\ OwnFrame("boot")["sepc"] = <<"boot", "sepc">>
    BY <2>1, <2>2
  <2> HIDE DEF OwnFrame
  <2> QED BY <2>1, <2>3
<1>8. /\ kept[next] = OwnFrame(ctx') /\ ctx' \in Contexts
      /\ ctx' = next \/ (ctx' = "boot" /\ next = First)
      /\ kept[next] \in [FrameRegs -> RegValues]
  <2>1. Fits(kept[next], next)
    BY <1>3
  <2>2. CASE kept[next] = OwnFrame(next)
    BY <1>4, <1>7, <2>2, FrameFacts DEF IInv
  <2>3. CASE next = First /\ kept[next] = OwnFrame("boot")
    BY <1>4, <1>7, <2>3, FrameFacts DEF IInv
  <2> QED BY <2>1, <2>2, <2>3 DEF Fits
<1>9. stack' \in Stacks
  <2>1. stack \in Stacks
    BY DEF IInv, Types
  <2> QED BY <1>4, <1>8, <2>1 DEF Stacks
<1>10. /\ UNCHANGED <<own, csr, boot, late, cause, task>> /\ pc' = "fpback" /\ cause = "timer"
      /\ \A c : OwnFrame(c)' = OwnFrame(c)
  BY DEF OwnFrame, Advance, HandledFrom, past
<1>11. Types'
  <2>1. saved' \in [Tasks -> Frames]
    BY <1>4, <1>5 DEF Frames
  <2> QED BY <1>4, <1>8, <1>9, <2>1, ClobberFacts DEF IInv, Types, Advance, HandledFrom, past
<1>12. Filed'
  BY <1>3, <1>4, <1>10 DEF Filed, Fits
<1>13. KernelSp'
  BY ClobberFacts DEF IInv, KernelSp, Advance, HandledFrom
<1>14. Shimmed'
  <2>1. csr.sscratch = KernelSscratch
    BY DEF IInv, Shimmed, OnTheWayOut, Handling, Advance, HandledFrom
  <2>2. stack'.frame = OwnFrame(ctx')
    BY <1>4, <1>8 DEF IInv, Types, Stacks
  <2>3. pc' = "fpback" /\ UNCHANGED <<own, csr>>
    BY DEF Advance, HandledFrom, past
  <2> QED BY <2>1, <2>2, <2>3 DEF Shimmed, OnTheWayIn, OnTheWayOut, OwnFrame, Handling
<1>15. Contextual'
  BY <1>4, <1>8 DEF Contextual
<1>16. OnTime'
  <2>2. ~late => boot = "done" /\ ctx \in Tasks /\ \A t \in Tasks \ {current} : saved[t] = OwnFrame(t)
    BY <1>2, <1>10 DEF IInv, OnTime
  <2>3. ~late => kept[current] = OwnFrame(current)
    BY <1>2, <2>2, ValueFacts DEF IInv, Types, Contextual
  <2>4. ~late => \A t \in Tasks : kept[t] = OwnFrame(t)
    BY <1>6, <2>2, <2>3
  <2>5. ~late => ctx' = next
    BY <1>4, <2>4, <1>7
  <2> QED BY <1>4, <1>10, <2>2, <2>4, <2>5 DEF OnTime
<1>17. FpKept'
  BY ClobberFacts DEF IInv, Types, Stacks, FpKept, Handling, Advance, HandledFrom, past
<1>18. (TasksOwn /\ Modes /\ Copied /\ Loaded /\ Locked)'
  BY DEF IInv, TasksOwn, Modes, Types, Csrs, Copied, Fits, OwnFrame, Loaded,
     Initially, Locked, Uarts, Advance, HandledFrom, past
<1> QED
  BY <1>11, <1>12, <1>13, <1>14, <1>15, <1>16, <1>17, <1>18 DEF IInv

\* GoesOn: the handler comes back to the context.
LEMMA GoesOnStep ==
    ASSUME IInv, GoesOn
    PROVE  IInv'
<1>1. Types'
  BY ClobberFacts DEF IInv, Types, GoesOn, HandledFrom, queue, past
<1>2. KernelSp'
  BY ClobberFacts DEF IInv, KernelSp, GoesOn, HandledFrom
<1>3. Shimmed'
  BY DEF IInv, Shimmed, OnTheWayIn, OnTheWayOut, OwnFrame, Handling, GoesOn, HandledFrom, past
<1>4. FpKept'
  BY ClobberFacts DEF IInv, Types, Stacks, FpKept, Handling, GoesOn, HandledFrom, past
<1>5. Modes'
  BY DEF IInv, Modes, Types, Csrs, GoesOn, queue, HandledFrom, past
<1>6. Loaded'
  BY DEF IInv, Loaded, OwnFrame, Initially, GoesOn, queue, HandledFrom, past
<1>7. OnTime'
  BY DEF IInv, OnTime, OwnFrame, GoesOn, queue, HandledFrom, past
<1>8. Locked'
  BY DEF IInv, Locked, Types, Uarts, GoesOn, queue, HandledFrom, past
<1>9. (TasksOwn /\ Filed /\ Contextual /\ Copied)'
  BY DEF IInv, TasksOwn, Filed, Fits, OwnFrame, Contextual, Copied, GoesOn, queue,
     HandledFrom, past
<1> QED
  BY <1>1, <1>2, <1>3, <1>4, <1>5, <1>6, <1>7, <1>8, <1>9 DEF IInv

\* LockAndForget: the print that is returned to has its lock.
LEMMA LockAndForgetStep ==
    ASSUME IInv, LockAndForget
    PROVE  IInv'
<1>1. Types'
  <2>1. uart' \in Uarts
    BY DEF IInv, Types, Uarts, LockAndForget
  <2> QED BY <2>1, ClobberFacts DEF IInv, Types, LockAndForget, HandledFrom, queue, past
<1>2. KernelSp'
  BY ClobberFacts DEF IInv, KernelSp, LockAndForget, HandledFrom
<1>3. Shimmed'
  BY DEF IInv, Shimmed, OnTheWayIn, OnTheWayOut, OwnFrame, Handling, LockAndForget, HandledFrom,
     past
<1>4. FpKept'
  BY ClobberFacts DEF IInv, Types, Stacks, FpKept, Handling, LockAndForget, HandledFrom, past
<1>5. Locked'
  BY DEF IInv, Types, Uarts, Locked, LockAndForget, HandledFrom
<1>6. (TasksOwn /\ Filed /\ Contextual /\ Modes /\ Copied /\ Loaded /\ OnTime)'
  BY DEF IInv, TasksOwn, Filed, Fits, OwnFrame, Contextual, Modes, Types, Csrs,
     Copied, Loaded, Initially, OnTime, LockAndForget, queue, HandledFrom, past
<1> QED
  BY <1>1, <1>2, <1>3, <1>4, <1>5, <1>6 DEF IInv

\* ForceUnlock: nobody has the lock.
LEMMA ForceUnlockStep ==
    ASSUME IInv, ForceUnlock
    PROVE  IInv'
<1>1. Types'
  <2>1. uart' \in Uarts
    BY DEF IInv, Types, Uarts, ForceUnlock
  <2> QED BY <2>1 DEF IInv, Types, ForceUnlock, StoreStep, hart, queue, past
<1>2. Shimmed'
  BY DEF IInv, Shimmed, OnTheWayIn, OnTheWayOut, OwnFrame, KernelRegs, Handling, ForceUnlock, StoreStep,
     hart, past
<1>3. FpKept'
  BY DEF IInv, FpKept, Handling, ForceUnlock, StoreStep, hart, past
<1>4. Locked'
  BY DEF IInv, Types, Uarts, Locked, ForceUnlock, StoreStep
<1>5. KernelSp'
  BY DEF IInv, KernelSp, ForceUnlock, StoreStep, hart, queue, past
<1>6. Modes'
  BY DEF IInv, Modes, Types, Csrs, ForceUnlock, StoreStep, hart, queue, past
<1>7. Loaded'
  BY DEF IInv, Loaded, OwnFrame, Initially, ForceUnlock, StoreStep, hart, queue, past
<1>8. OnTime'
  BY DEF IInv, OnTime, OwnFrame, ForceUnlock, StoreStep, hart, queue, past
<1>9. (TasksOwn /\ Filed /\ Contextual /\ Copied)'
  BY DEF IInv, TasksOwn, Filed, Fits, OwnFrame, Contextual, Copied, ForceUnlock,
     StoreStep, hart, queue, past
<1> QED
  BY <1>1, <1>2, <1>3, <1>4, <1>5, <1>6, <1>7, <1>8, <1>9 DEF IInv

\* LockAgain: the handler has the lock.
LEMMA LockAgainStep ==
    ASSUME IInv, LockAgain
    PROVE  IInv'
<1>1. Types'
  <2>1. uart' \in Uarts
    BY DEF IInv, Types, Uarts, LockAgain
  <2> QED BY <2>1 DEF IInv, Types, LockAgain, StoreStep, hart, queue, past
<1>2. Shimmed'
  BY DEF IInv, Shimmed, OnTheWayIn, OnTheWayOut, OwnFrame, KernelRegs, Handling, LockAgain, StoreStep,
     hart, past
<1>3. FpKept'
  BY DEF IInv, FpKept, Handling, LockAgain, StoreStep, hart, past
<1>4. Locked'
  BY DEF IInv, Types, Uarts, Locked, LockAgain, StoreStep
<1>5. KernelSp'
  BY DEF IInv, KernelSp, LockAgain, StoreStep, hart, queue, past
<1>6. Modes'
  BY DEF IInv, Modes, Types, Csrs, LockAgain, StoreStep, hart, queue, past
<1>7. Loaded'
  BY DEF IInv, Loaded, OwnFrame, Initially, LockAgain, StoreStep, hart, queue, past
<1>8. OnTime'
  BY DEF IInv, OnTime, OwnFrame, LockAgain, StoreStep, hart, queue, past
<1>9. (TasksOwn /\ Filed /\ Contextual /\ Copied)'
  BY DEF IInv, TasksOwn, Filed, Fits, OwnFrame, Contextual, Copied, LockAgain,
     StoreStep, hart, queue, past
<1> QED
  BY <1>1, <1>2, <1>3, <1>4, <1>5, <1>6, <1>7, <1>8, <1>9 DEF IInv

\* MovePointer: the pointer is moved under the lock.
LEMMA MovePointerStep ==
    ASSUME IInv, MovePointer
    PROVE  IInv'
<1>1. Types'
  <2>1. uart' \in Uarts
    BY DEF IInv, Types, Uarts, MovePointer
  <2> QED BY <2>1 DEF IInv, Types, MovePointer, StoreStep, hart, queue, past
<1>2. Shimmed'
  BY DEF IInv, Shimmed, OnTheWayIn, OnTheWayOut, OwnFrame, KernelRegs, Handling, MovePointer, StoreStep,
     hart, past
<1>3. FpKept'
  BY DEF IInv, FpKept, Handling, MovePointer, StoreStep, hart, past
<1>4. Locked'
  BY DEF IInv, Types, Uarts, Locked, MovePointer, StoreStep
<1>5. KernelSp'
  BY DEF IInv, KernelSp, MovePointer, StoreStep, hart, queue, past
<1>6. Modes'
  BY DEF IInv, Modes, Types, Csrs, MovePointer, StoreStep, hart, queue, past
<1>7. Loaded'
  BY DEF IInv, Loaded, OwnFrame, Initially, MovePointer, StoreStep, hart, queue, past
<1>8. OnTime'
  BY DEF IInv, OnTime, OwnFrame, MovePointer, StoreStep, hart, queue, past
<1>9. (TasksOwn /\ Filed /\ Contextual /\ Copied)'
  BY DEF IInv, TasksOwn, Filed, Fits, OwnFrame, Contextual, Copied, MovePointer,
     StoreStep, hart, queue, past
<1> QED
  BY <1>1, <1>2, <1>3, <1>4, <1>5, <1>6, <1>7, <1>8, <1>9 DEF IInv

\* Reported: the line is printed under the lock.
LEMMA ReportedStep ==
    ASSUME IInv, Reported
    PROVE  IInv'
<1>1. Types'
  <2>1. uart' \in Uarts
    BY DEF IInv, Types, Uarts, Reported
  <2> QED BY <2>1 DEF IInv, Types, Reported, StoreStep, hart, queue, past
<1>2. Shimmed'
  BY DEF IInv, Shimmed, OnTheWayIn, OnTheWayOut, OwnFrame, KernelRegs, Handling, Reported, StoreStep,
     hart, past
<1>3. FpKept'
  BY DEF IInv, FpKept, Handling, Reported, StoreStep, hart, past
<1>4. Locked'
  BY DEF IInv, Types, Uarts, Locked, Reported, StoreStep
<1>5. KernelSp'
  BY DEF IInv, KernelSp, Reported, StoreStep, hart, queue, past
<1>6. Modes'
  BY DEF IInv, Modes, Types, Csrs, Reported, StoreStep, hart, queue, past
<1>7. Loaded'
  BY DEF IInv, Loaded, OwnFrame, Initially, Reported, StoreStep, hart, queue, past
<1>8. OnTime'
  BY DEF IInv, OnTime, OwnFrame, Reported, StoreStep, hart, queue, past
<1>9. (TasksOwn /\ Filed /\ Contextual /\ Copied)'
  BY DEF IInv, TasksOwn, Filed, Fits, OwnFrame, Contextual, Copied, Reported,
     StoreStep, hart, queue, past
<1> QED
  BY <1>1, <1>2, <1>3, <1>4, <1>5, <1>6, <1>7, <1>8, <1>9 DEF IInv

\* Halt: the hart stays.
LEMMA HaltStep ==
    ASSUME IInv, Halt
    PROVE  IInv'
<1>1. Shimmed'
  BY DEF IInv, Shimmed, OnTheWayIn, OnTheWayOut, OwnFrame, KernelRegs, Handling, Halt, hart, past
<1>2. (Types /\ TasksOwn /\ Filed /\ KernelSp /\ Contextual /\ Modes /\ Copied /\ Loaded /\ OnTime /\ FpKept /\ Locked)'
  BY DEF IInv, Types, TasksOwn, Filed, Fits, OwnFrame, KernelSp, Contextual, Modes,
     Csrs, Copied, Loaded, Initially, OnTime, FpKept, Stacks, Registers, Handling,
     Locked, Uarts, Halt, hart, queue, kernel, past
<1> QED
  BY <1>1, <1>2 DEF IInv

\* RestoreFp: what was saved is what was written last.
LEMMA RestoreFpStep ==
    ASSUME IInv, RestoreFp
    PROVE  IInv'
<1>1. Types'
  BY DEF IInv, Types, Stacks, FsStates, RestoreFp, ShimStep, queue, kernel, past
<1>2. FpKept'
  BY DEF IInv, FpKept, Handling, RestoreFp, ShimStep, past
<1>3. KernelSp'
  BY DEF IInv, KernelSp, RestoreFp, ShimStep, queue, kernel, past
<1>4. Shimmed'
  BY DEF IInv, Types, Shimmed, Csrs, Stacks, Registers, FrameRegs, OnTheWayIn,
     OnTheWayOut, OwnFrame, KernelRegs, KernelSscratch, Handling, RestoreFp, ShimStep,
     queue, kernel, past
<1>5. (TasksOwn /\ Filed /\ Contextual /\ Modes /\ Copied /\ Loaded /\ OnTime /\ Locked)'
  BY DEF IInv, TasksOwn, Filed, Fits, OwnFrame, Contextual, Modes, Types, Csrs,
     Copied, Loaded, Initially, OnTime, Locked, Uarts, RestoreFp, ShimStep, queue,
     kernel, past
<1> QED
  BY <1>1, <1>2, <1>3, <1>4, <1>5 DEF IInv

\* RestoreSepc: sepc is the context's, SPIE set.
LEMMA RestoreSepcStep ==
    ASSUME IInv, RestoreSepc
    PROVE  IInv'
<1>0. stack.frame["sepc"] = <<ctx, "sepc">>
  <2>1. stack.frame = OwnFrame(ctx) /\ ctx \in Contexts
    BY DEF IInv, Types, Shimmed, OnTheWayOut, RestoreSepc, ShimStep
  <2> QED BY <2>1, FrameFacts DEF IInv
<1>1. Types'
  <2>1. <<ctx, "sepc">> \in Values
    BY ValueFacts DEF IInv, Types
  <2>2. csr' \in Csrs
    BY <1>0, <2>1 DEF IInv, Types, RestoreSepc, Csrs
  <2> QED BY <2>2 DEF IInv, Types, RestoreSepc, ShimStep, queue, kernel, past
<1>2. FpKept'
  BY DEF IInv, FpKept, Handling, RestoreSepc, ShimStep, past
<1>3. KernelSp'
  BY DEF IInv, KernelSp, RestoreSepc, ShimStep, queue, kernel, past
<1>4. Shimmed'
  BY DEF IInv, Types, Shimmed, Csrs, Stacks, Registers, FrameRegs, OnTheWayIn,
     OnTheWayOut, OwnFrame, KernelRegs, KernelSscratch, Handling, RestoreSepc,
     ShimStep, queue, kernel, past
<1>5. (TasksOwn /\ Filed /\ Contextual /\ Modes /\ Copied /\ Loaded /\ OnTime /\ Locked)'
  BY DEF IInv, TasksOwn, Filed, Fits, OwnFrame, Contextual, Modes, Types, Csrs,
     Copied, Loaded, Initially, OnTime, Locked, Uarts, RestoreSepc, ShimStep, queue,
     kernel, past
<1> QED
  BY <1>1, <1>2, <1>3, <1>4, <1>5 DEF IInv

\* RestoreRegs: the registers are the context's.
LEMMA RestoreRegsStep ==
    ASSUME IInv, RestoreRegs
    PROVE  IInv'
<1>1. Types'
  <2>1. regs' \in [Registers -> RegValues]
    BY ValueFacts DEF IInv, Types, Stacks, RestoreRegs
  <2> QED BY <2>1 DEF IInv, Types, RestoreRegs, ShimStep, queue, kernel, past
<1>2. KernelSp'
  BY DEF KernelSp, RestoreRegs, ShimStep
<1>3. Shimmed'
  <2>1. /\ stack.frame = OwnFrame(ctx) /\ csr.sscratch = KernelSscratch
        /\ csr.sepc = <<ctx, "sepc">> /\ csr.spie /\ ctx \in Contexts
    BY DEF IInv, Types, Shimmed, OnTheWayOut, RestoreRegs, ShimStep
  <2>2. regs' = own[ctx]
    BY <2>1, FrameFacts DEF IInv, RestoreRegs
  <2>3. pc' = "sret" /\ UNCHANGED <<ctx, own, csr>>
    BY DEF RestoreRegs, ShimStep, past
  <2> QED BY <2>1, <2>2, <2>3 DEF Shimmed, OnTheWayIn, OnTheWayOut, Handling
<1>4. FpKept'
  BY DEF IInv, FpKept, Handling, RestoreRegs, ShimStep, past
<1>5. (TasksOwn /\ Filed /\ Contextual /\ Modes /\ Copied /\ Loaded /\ OnTime /\ Locked)'
  BY DEF IInv, TasksOwn, Filed, Fits, OwnFrame, Contextual, Modes, Types, Csrs,
     Copied, Loaded, Initially, OnTime, Locked, Uarts, RestoreRegs, ShimStep, queue,
     kernel, past
<1> QED
  BY <1>1, <1>2, <1>3, <1>4, <1>5 DEF IInv

\* Sret: the context goes on in the mode of the hart.
LEMMA SretStep ==
    ASSUME IInv, Sret
    PROVE  IInv'
<1>0. /\ csr.sscratch = KernelSscratch /\ csr.sepc = <<ctx, "sepc">> /\ csr.spie
      /\ regs = own[ctx] /\ ctx' = ctx
  <2>1. csr.sscratch = KernelSscratch /\ csr.sepc = <<ctx, "sepc">> /\ csr.spie /\ regs = own[ctx]
    BY DEF IInv, Shimmed, OnTheWayOut, Sret
  <2> QED BY <2>1 DEF Sret, Returned
<1>00. /\ csr'.mode = csr.spp /\ csr'.spp = "U" /\ csr'.sie /\ csr'.spie
       /\ csr'.sscratch = csr.sscratch /\ csr'.sepc = csr.sepc
       /\ pc = "sret" /\ pc' = "run"
  BY <1>0 DEF IInv, Types, Csrs, Sret, Returned
<1>1. Types'
  <2>1. csr' \in Csrs
    BY DEF IInv, Types, Sret, Returned, Csrs
  <2> QED BY <1>0, <2>1 DEF IInv, Types, Sret, queue, kernel, past
<1>2. Filed'
  BY DEF IInv, Filed, Fits, OwnFrame, Sret, queue, kernel, past
<1>3. Shimmed'
  BY <1>0, <1>00 DEF Shimmed, OnTheWayIn, OnTheWayOut, Handling, Sret, past
<1>4. Contextual'
  BY <1>0 DEF IInv, Contextual, Sret, queue
<1>5. Modes'
  BY <1>0, <1>00 DEF IInv, Modes, Sret, kernel
<1>6. Loaded'
  BY <1>0, <1>00 DEF Loaded
<1>7. OnTime'
  BY <1>0, <1>00 DEF IInv, OnTime, OwnFrame, Sret, queue, kernel, past
<1>8. FpKept'
  BY DEF IInv, FpKept, Sret, Handling, past
<1>9. KernelSp'
  BY DEF IInv, KernelSp, Sret, queue, kernel, past
<1>10. Locked'
  BY DEF IInv, Locked, Types, Uarts, Sret, queue, kernel, past
<1>11. (TasksOwn /\ Copied)'
  BY DEF IInv, TasksOwn, Copied, Fits, OwnFrame, Sret, queue, kernel, past
<1> QED
  BY <1>1, <1>2, <1>3, <1>4, <1>5, <1>6, <1>7, <1>8, <1>9, <1>10, <1>11 DEF IInv

-----------------------------------------------------------------------------
(* The theorems *)

\* boot starts with no trap taken and nothing saved.
LEMMA InitIInv == Init => IInv
<1> SUFFICES ASSUME Init PROVE IInv
  OBVIOUS
<1>1. PICK spp \in {"U", "S"}, spie \in BOOLEAN, mapped \in BOOLEAN :
        /\ csr = [sscratch |-> KernelSscratch, sepc |-> <<"none", "sepc">>,
                  spp |-> spp, spie |-> spie, sie |-> TRUE, mode |-> "S"]
        /\ uart = [locked |-> FALSE, at |-> "io", mapped |-> mapped, held |-> "none"]
  BY DEF Init, KernelSscratch
<1>2. Types
  <2>1. csr \in Csrs
    BY <1>1 DEF Csrs, RegValues, Values, KernelSscratch, FrameRegs
  <2>2. stack \in Stacks
    BY DEF Init, Stacks, FrameOf, RegValues, Values, FrameRegs, Registers
  <2>3. \A c \in Contexts : Initially(c) \in [Registers -> Contexts \X FrameRegs]
    <3> HIDE DEF Contexts, FrameRegs, Registers
    <3> QED BY ValueFacts DEF Initially
  <2>4. \A t \in Tasks : FrameOf(t) \in Frames
    <3>1. \A t \in Tasks, r \in FrameRegs : <<t, r>> \in Contexts \X FrameRegs
      BY ValueFacts
    <3> HIDE DEF Contexts, FrameRegs
    <3> QED BY <3>1 DEF FrameOf, Frames, FrameRegs
  <2>5. /\ own \in [Contexts -> [Registers -> Contexts \X FrameRegs]]
        /\ saved \in [Tasks -> Frames]
    BY <2>3, <2>4 DEF Init
  <2>6. regs \in [Registers -> RegValues]
    <3>1. Contexts \X FrameRegs \subseteq RegValues /\ regs \in [Registers -> Contexts \X FrameRegs]
      BY <2>3, ValueFacts DEF Init
    <3> HIDE DEF Contexts, FrameRegs, RegValues, Registers
    <3> QED BY <3>1
  <2> QED
    BY <1>1, <2>1, <2>2, <2>5, <2>6, ValueFacts DEF Init, Types, FsStates, Uarts
<1>3. TasksOwn
  BY ValueFacts DEF Init, TasksOwn
<1>4. \A t \in Tasks : saved[t] = OwnFrame(t)
  <2>1. \A t \in Tasks, r \in Registers : own[t][r] = <<t, r>>
    BY ValueFacts DEF Init, Initially
  <2>2. FrameRegs = Registers \cup {"sepc"}
    BY DEF FrameRegs
  <2>3. \A t \in Tasks, r \in FrameRegs : (IF r = "sepc" THEN <<t, "sepc">> ELSE own[t][r]) = <<t, r>>
    <3> HIDE DEF Registers
    <3> QED BY <2>1, <2>2
  <2>4. \A t \in Tasks : FrameOf(t) = OwnFrame(t)
    <3> HIDE DEF Registers, FrameRegs
    <3> QED BY <2>2, <2>3 DEF OwnFrame, FrameOf
  <2> QED BY <2>4 DEF Init
<1>5. Filed /\ Contextual /\ Copied /\ Loaded /\ OnTime
  BY <1>4, ValueFacts DEF Init, Filed, Fits, Contextual, Copied, Loaded, OnTime
<1>6. KernelSp /\ FpKept /\ Locked /\ Modes
  BY <1>1 DEF Init, KernelSp, FpKept, Handling, Locked, Modes
<1>7. Shimmed
  BY <1>1, ValueFacts DEF Init, Shimmed, OnTheWayIn, OnTheWayOut, Handling
<1> QED
  BY <1>2, <1>3, <1>5, <1>6, <1>7 DEF IInv

\* Every step of boot, of a task, of the shim and of the handler preserves the invariant.
LEMMA NextIInv == IInv /\ [Next]_vars => IInv'
<1> SUFFICES ASSUME IInv, [Next]_vars PROVE IInv'
  OBVIOUS
<1> "boot" \notin Tasks
  BY TasksAssumption
<1>1. CASE Interrupt
  <2>1. PICK why \in {"external", "timer"} : Trapped(why)
    BY <1>1 DEF Interrupt
  <2> QED BY <1>1, <2>1, TrapStep DEF Interrupt
<1>2. CASE ECall
  BY <1>2, TrapStep DEF ECall
<1>3. CASE UseFp
  <2>0. ctx \in Tasks /\ ctx # "boot" /\ pc = "run"
    BY <1>3, TasksAssumption DEF UseFp
  <2>1. CASE fs = "Off"
    <3>1. /\ Trapped("illegal")
          /\ UNCHANGED <<ctx, regs, fs, fp, stack, queue, kernel, own, wrote>>
      BY <1>3, <2>1 DEF UseFp
    <3> QED BY <2>0, <3>1, TrapStep
  <2>2. CASE fs # "Off"
    <3>1. /\ fs' = "Dirty" /\ fp' = ctx /\ wrote' = ctx
          /\ UNCHANGED <<pc, cause, csr, late, ctx, regs, stack, queue, kernel, own>>
      BY <1>3, <2>2 DEF UseFp
    <3>2. Types' /\ FpKept'
      BY <2>0, <3>1 DEF IInv, Types, FsStates, FpKept, Handling, queue, kernel
    <3>3. (TasksOwn /\ Filed /\ KernelSp /\ Shimmed /\ Contextual /\ Modes)'
      BY <3>1 DEF IInv, TasksOwn, Filed, Fits, KernelSp, Shimmed, OnTheWayIn, OnTheWayOut,
                  OwnFrame, KernelRegs, Contextual, Modes, queue, kernel
    <3>4. (Copied /\ Loaded /\ OnTime /\ Locked)'
      BY <3>1 DEF IInv, Copied, Fits, Loaded, OnTime, OwnFrame, Locked, queue, kernel
    <3> QED BY <3>2, <3>3, <3>4 DEF IInv
  <2> QED BY <2>1, <2>2
<1>4. CASE FetchFault
  BY <1>4, TrapStep DEF FetchFault, Executes
<1>5. CASE Boot
  <2>1. CASE FaultingStore
    <3>1. /\ pc = "run" /\ Trapped("store") /\ Unmapped(uart.held)
          /\ UNCHANGED <<ctx, regs, fs, fp, stack, queue, kernel, own, wrote>>
      BY <2>1 DEF FaultingStore, BootStep, kernel
    <3> QED BY <3>1, TrapStep DEF Unmapped
  <2> QED
    BY <1>5, <2>1, LockUartStep, StoreDoneStep, PrepareSretStep, ArmTimerStep, ReadLockStep,
       CopyTaskStep, LoadSepcStep, LoadRegsStep, LoadSretStep DEF Boot
<1>6. CASE Shim
  BY <1>6, SwapInStep, SwitchStackStep, SaveRegsStep, SwapOutStep, SaveT6Step, SaveFpStep,
     RestoreFpStep, RestoreSepcStep, RestoreRegsStep, SretStep DEF Shim
<1>7. CASE Handler
  BY <1>7, AdvanceStep, GoesOnStep, HaltStep, ForceUnlockStep, LockAgainStep,
     MovePointerStep, ReportedStep, LockAndForgetStep DEF Handler
<1>8. CASE UNCHANGED vars
  BY <1>8 DEF vars, hart, queue, kernel, past, IInv, Types, TasksOwn, Filed, Fits, KernelSp,
     Shimmed, OnTheWayIn, OnTheWayOut, OwnFrame, KernelRegs, Contextual, Modes, Copied,
     Loaded, OnTime, FpKept, Locked
<1> QED
  BY <1>1, <1>2, <1>3, <1>4, <1>5, <1>6, <1>7, <1>8 DEF Next

\* The inductive invariant: at every step of the shim, which register or frame holds each
\* value of the context that was interrupted, and what boot has prepared and read.
THEOREM IInvHolds == Spec => []IInv
  BY InitIInv, NextIInv, PTL DEF Spec

\* stvec_trap_shim, trap_handler and start_tasks: every context finds its own
\* registers again, whatever trapped it and whatever ran meanwhile.
THEOREM ContextsStaySound == Spec => []ContextSound
<1>1. IInv => TypeOK
  BY DEF IInv, Types, Frames, FsStates, FrameRegs, KernelSp, TypeOK
<1>2. IInv => RegistersOwned
  BY DEF IInv, Shimmed, OnTheWayIn, RegistersOwned, KernelSscratch
<1>3. IInv => HandlerSeesFrame
  <2> SUFFICES ASSUME IInv, pc = "call"
               PROVE  /\ \A r \in Registers : stack.frame[r] = own[ctx][r]
                      /\ stack.frame["sepc"] = <<ctx, "sepc">>
                      /\ KernelRegs
    BY DEF HandlerSeesFrame, KernelRegs
  <2>1. stack.frame = OwnFrame(ctx) /\ KernelRegs /\ ctx \in Contexts
    BY DEF IInv, Types, Shimmed, OnTheWayIn, OnTheWayOut, Handling
  <2> QED BY <2>1, FrameFacts DEF IInv
<1> QED
  BY <1>1, <1>2, <1>3, IInvHolds, PTL DEF ContextSound

\* What main.rs:52 prepares lasts through the prints, the interrupts and the faults of
\* boot to the sret of TaskData::load, and tasks run in user mode from then on, with
\* interrupts enabled: unless the timer comes before that sret, or any interrupt between
\* the write to sepc and it.
THEOREM AlwaysReturnsToTask == Spec => []ReturnsToTask
<1>1. IInv => ReturnsToTask
  BY ValueFacts DEF IInv, OnTime, Modes, ReturnsToTask, Executes
<1> QED
  BY <1>1, IInvHolds, PTL

\* SaveFp and RestoreFp never give back older floating point registers.
THEOREM FpAlwaysLastWritten == Spec => []LastWritten
<1>1. IInv => LastWritten
  BY DEF IInv, FpKept, LastWritten
<1> QED
  BY <1>1, IInvHolds, PTL

\* The locks and unlocks of the handler of a store fault, force_unlock to forget, leave
\* the lock with the print that faulted, and no other trap takes or frees it for good.
THEOREM LockAlwaysBalanced == Spec => []LockBalanced
<1>1. IInv => LockBalanced
  BY DEF IInv, Locked, LockBalanced
<1> QED
  BY <1>1, IInvHolds, PTL

=============================================================================
