--------------------------------- MODULE Boot ---------------------------------
(***************************************************************************)
(* The end of the boot, from the moment interrupts are on: lsd::init       *)
(* (LSD/src/lib.rs) from traps::init, smp_init and core_main (main.rs),    *)
(* and uart_handler (uart.rs), which a typed character runs on the boot    *)
(* hart in the middle of any of it. The other harts are started one after  *)
(* the other through one CORE_INIT. Every println takes the UART lock, a   *)
(* spin lock.                                                              *)
(***************************************************************************)
EXTENDS Naturals

CONSTANTS
    BspHart,    \* the hart that boots, bsp_hartid
    Cores,      \* how many other harts there are, started in the order 1 .. Cores
    MaxKeys,    \* bound: characters typed during the boot
    Null

ASSUME BootAssumption == BspHart \in Nat /\ Cores \in Nat /\ MaxKeys \in Nat

VARIABLES
    boot,       \* where the boot hart is
    next,       \* the core it starts
    hart_id,    \* HART_ID of the boot hart, a thread local
    plic,       \* [context, priority, handler] of the UART's interrupt
    ier,        \* the UART's interrupt enable register
    lock,       \* who holds UART
    key,        \* the UART has a character
    typed,      \* how many were typed
    spin,       \* uart_handler spins on UART, over the boot hart
    init,       \* CORE_INIT: sp, satp, claimed
    core        \* each core: pc, and the sp and satp it has loaded

bootVars == <<boot, next, hart_id, plic, ier>>
vars == <<bootVars, lock, key, typed, spin, init, core>>

Context(id) == 1 + 2 * id      \* current_context
Defaults == 1                  \* HART_ID before it is stored

Init ==
    /\ boot = "hart_id" /\ next = 1 /\ hart_id = Defaults
    /\ plic = [context |-> Null, handler |-> "unknown"]
    /\ ier = FALSE /\ lock = Null
    /\ key = FALSE /\ typed = 0 /\ spin = FALSE
    /\ init = [sp |-> 0, satp |-> 0, claimed |-> FALSE]
    /\ core = [c \in 1 .. Cores |-> [pc |-> "off", sp |-> Null, satp |-> Null]]

-----------------------------------------------------------------------------
(* The boot hart, which runs while its handler does not *)

Step(from, to) == ~ spin /\ boot = from /\ boot' = to

\* Deviation: HART_ID keeps its default.
KeepDefault ==
    /\ Step("hart_id", "plic")
    /\ UNCHANGED <<next, hart_id, plic, ier, lock, key, typed, spin, init, core>>

\* HART_ID.store(hart_id)
StoreHartId ==
    /\ Step("hart_id", "plic")
    /\ hart_id' = BspHart
    /\ UNCHANGED <<next, plic, ier, lock, key, typed, spin, init, core>>

\* plic_init, then enable_interrupt and set_interrupt_priority of the serial node
EnableSerial ==
    /\ Step("plic", "handler")
    /\ plic' = [plic EXCEPT !.context = Context(hart_id)]
    /\ UNCHANGED <<next, hart_id, ier, lock, key, typed, spin, init, core>>

\* INT_HANDLERS.lock()[int] = uart_handler
StoreHandler ==
    /\ Step("handler", "set_int")
    /\ plic' = [plic EXCEPT !.handler = "uart_handler"]
    /\ UNCHANGED <<next, hart_id, ier, lock, key, typed, spin, init, core>>

\* Where the boot hart takes the UART lock: set_int, and each println.
Locks == [set_int |-> "setting", vmem |-> "vmem_out", starting |-> "starting_out",
          loaded |-> "loaded_out"]

LockUart ==
    /\ boot \in DOMAIN Locks /\ lock = Null
    /\ Step(boot, Locks[boot])
    /\ lock' = BspHart
    /\ UNCHANGED <<next, hart_id, plic, ier, key, typed, spin, init, core>>

Unlock(from, to) ==
    /\ Step(from, to)
    /\ lock' = Null
    /\ UNCHANGED <<next, hart_id, plic, key, typed, spin, init, core>>

\* UART.lock().set_int(): the guard lives to the end of the statement.
SetInt ==
    /\ Step("setting", "set")
    /\ ier' = TRUE
    /\ UNCHANGED <<next, hart_id, plic, lock, key, typed, spin, init, core>>

Printed ==
    /\ \/ Unlock("set", "vmem")
       \/ Unlock("vmem_out", "cores")
       \/ Unlock("starting_out", "start")
       \/ Unlock("loaded_out", "done")
    /\ UNCHANGED ier

\* Deviation: one core more than there are.
OneMore ==
    /\ next <= Cores + 1
    /\ Step("cores", "sp")
    /\ init' = [init EXCEPT !.satp = next]
    /\ UNCHANGED <<next, hart_id, plic, ier, lock, key, typed, spin, core>>

\* smp_init: a table and a stack for the next core, in CORE_INIT
SetSatp ==
    /\ next <= Cores
    /\ Step("cores", "sp")
    /\ init' = [init EXCEPT !.satp = next]
    /\ UNCHANGED <<next, hart_id, plic, ier, lock, key, typed, spin, core>>

\* Deviation: the stack is made once, for the first core.
StackOnce ==
    /\ Step("sp", "starting")
    /\ init' = [init EXCEPT !.sp = 1]
    /\ UNCHANGED <<next, hart_id, plic, ier, lock, key, typed, spin, core>>

SetSp ==
    /\ Step("sp", "starting")
    /\ init' = [init EXCEPT !.sp = next]
    /\ UNCHANGED <<next, hart_id, plic, ier, lock, key, typed, spin, core>>

StartCore ==
    /\ Step("start", "wait")
    /\ core' = [core EXCEPT ![next].pc = "satp"]
    /\ UNCHANGED <<next, hart_id, plic, ier, lock, key, typed, spin, init>>

\* Deviation: the boot hart does not wait for the core.
DoNotWait ==
    /\ Step("wait", "cores")
    /\ next' = next + 1
    /\ UNCHANGED <<hart_id, plic, ier, lock, key, typed, spin, init, core>>

\* The loop ends when claimed is seen; claimed is then stored true, again.
WaitClaimed ==
    /\ init.claimed
    /\ Step("wait", "cores")
    /\ init' = [init EXCEPT !.claimed = TRUE]
    /\ next' = next + 1
    /\ UNCHANGED <<hart_id, plic, ier, lock, key, typed, spin, core>>

\* The programs are loaded, with a println each; the timer is set; start_tasks.
LoadTasks ==
    /\ next > Cores
    /\ Step("cores", "loaded")
    /\ UNCHANGED <<next, hart_id, plic, ier, lock, key, typed, spin, init, core>>

-----------------------------------------------------------------------------
(* core_main *)

CoreStep(c, from, to) == core[c].pc = from /\ core' = [core EXCEPT ![c].pc = to]

LoadSatp(c) ==
    /\ core[c].pc = "satp"
    /\ core' = [core EXCEPT ![c].pc = "sp", ![c].satp = init.satp]
    /\ UNCHANGED <<bootVars, lock, key, typed, spin, init>>

LoadSp(c) ==
    /\ core[c].pc = "sp"
    /\ core' = [core EXCEPT ![c].pc = "print", ![c].sp = init.sp]
    /\ UNCHANGED <<bootVars, lock, key, typed, spin, init>>

\* init_tls, traps::init, then a println.
CorePrints(c) ==
    /\ lock = Null
    /\ CoreStep(c, "print", "printing")
    /\ lock' = BspHart + c
    /\ UNCHANGED <<bootVars, key, typed, spin, init>>

CorePrinted(c) ==
    /\ CoreStep(c, "printing", "claim")
    /\ lock' = Null
    /\ UNCHANGED <<bootVars, key, typed, spin, init>>

\* Deviation: claimed is stored false.
Unclaim(c) ==
    /\ CoreStep(c, "claim", "up")
    /\ init' = [init EXCEPT !.claimed = FALSE]
    /\ UNCHANGED <<bootVars, lock, key, typed, spin>>

Claim(c) ==
    /\ CoreStep(c, "claim", "up")
    /\ init' = [init EXCEPT !.claimed = TRUE]
    /\ UNCHANGED <<bootVars, lock, key, typed, spin>>

-----------------------------------------------------------------------------
(* Characters *)

Type ==
    /\ typed < MaxKeys /\ boot # "done"
    /\ key' = TRUE
    /\ typed' = typed + 1
    /\ UNCHANGED <<bootVars, lock, spin, init, core>>

\* The interrupt reaches uart_handler, which takes the UART lock to read it.
Interrupt ==
    /\ key /\ ier /\ ~ spin /\ boot # "done"
    /\ spin' = TRUE
    /\ UNCHANGED <<bootVars, lock, key, typed, init, core>>

\* Nobody waits for a character yet: it is dropped.
ReadKey ==
    /\ spin /\ lock = Null
    /\ key' = FALSE
    /\ spin' = FALSE
    /\ UNCHANGED <<bootVars, lock, typed, init, core>>

BootHart ==
    \/ StoreHartId \/ EnableSerial \/ StoreHandler \/ LockUart \/ SetInt \/ Printed
    \/ SetSatp \/ SetSp \/ StartCore \/ WaitClaimed \/ LoadTasks
    \/ ReadKey

Core(c) == LoadSatp(c) \/ LoadSp(c) \/ CorePrints(c) \/ CorePrinted(c) \/ Claim(c)

Next == BootHart \/ (\E c \in 1 .. Cores : Core(c)) \/ Type \/ Interrupt

Spec == Init /\ [][Next]_vars

\* Every hart goes on; whoever spins on a lock that is free again gets it.
FairSpec == Spec /\ WF_vars(BootHart) /\ \A c \in 1 .. Cores : WF_vars(Core(c))

-----------------------------------------------------------------------------
(* Properties *)

TypeOK ==
    /\ lock \in {Null, BspHart} \cup {BspHart + c : c \in 1 .. Cores}
    /\ next \in 1 .. Cores + 1
    /\ \A c \in 1 .. Cores : {core[c].sp, core[c].satp} \subseteq {Null} \cup 1 .. Cores
    /\ {init.sp, init.satp} \subseteq 0 .. Cores

\* When the UART may interrupt, the interrupt goes to the hart that boots, by the
\* id it has stored, and finds its handler: an unknown one panics.
InterruptIsExpected ==
    ier => plic.context = Context(BspHart) /\ plic.handler = "uart_handler"

\* The first core runs on the stack and the table made for it: the boot hart
\* does not touch CORE_INIT before it has both.
FirstCoreOwnsStack ==
    Cores > 0 => core[1].sp \in {Null, 1} /\ core[1].satp \in {Null, 1}

\* A later core may be overtaken, claimed being true for good, but runs on no
\* stack or table that an earlier core was given, unless that was overtaken too.
NeverBehind ==
    \A c \in 1 .. Cores : /\ core[c].sp # Null => core[c].sp >= c
                          /\ core[c].satp # Null => core[c].satp >= c

\* smp_init hands every core a stack and a table of its own, as far as claimed
\* can tell it that the previous one has taken its own.
CoresSound == TypeOK /\ FirstCoreOwnsStack /\ NeverBehind

\* The character arrived while the boot hart itself held the UART lock: its
\* handler waits for the code it has interrupted.
Deadlocked == spin /\ lock = BspHart

\* The boot gets to user mode unless that happens: no lock and no core is
\* otherwise waited for in vain, whoever types or prints.
BootEnds == <>(boot = "done" \/ Deadlocked)

=============================================================================
