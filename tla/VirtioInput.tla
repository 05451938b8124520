------------------------------ MODULE VirtioInput ------------------------------
(***************************************************************************)
(* The VirtIO input driver (LSD/src/drivers/virtio/): virtio::init and     *)
(* Input::new on the boot thread, the commands that follow, and handle_int,*)
(* which interrupts them on the same hart. The device, external, runs      *)
(* beside both: it serves the status queue and raises its interrupt, a     *)
(* level that stands until its bit in int_status is acknowledged. The      *)
(* event queue never holds anything: the code that fills it is commented   *)
(* out.                                                                    *)
(***************************************************************************)
EXTENDS SplitVirtqueue

CONSTANTS
    QueueSize,      \* of both queues; Input::new is given 8
    Commands        \* how many commands the boot thread sends, at most QueueSize:
                    \* descriptors are never freed

VARIABLES
    boot,           \* where the boot thread is
    sent,           \* commands sent
    idx,            \* the descriptor command() has allocated
    enabled,        \* the PLIC passes the interrupt on, to handle_int or "unknown"
    locked,         \* the spin locks the boot thread holds
    input,          \* INPUT_DEV is set
    status,         \* the device's status flags
    ready,          \* the queues the device has been told are ready
    q,              \* the status queue
    handler,        \* where handle_int is
    isr,            \* int_status: the used-buffer bit
    read,           \* what handle_int has read of it
    seen,           \* device: the next index of the available ring
    notified,       \* device: it has been notified and not looked yet
    held            \* device: descriptors it works on

kernel == <<boot, sent, idx, enabled, locked, input, ready, status>>
device == <<seen, notified, held>>
vars == <<kernel, q, handler, isr, read, device>>

Config == 1      \* where a command's InputConfig is; nothing is at address 0

Init ==
    /\ boot = "enable" /\ sent = 0 /\ idx = 0
    /\ enabled = "off" /\ locked = {} /\ input = FALSE
    /\ status = {} /\ ready = {}
    /\ q = NewQueue(QueueSize)
    /\ handler = "idle" /\ isr = FALSE /\ read = FALSE
    /\ seen = 0 /\ notified = FALSE /\ held = {}

-----------------------------------------------------------------------------
(* The boot thread runs while no handler does: they share the hart. *)

Step(from, to) == handler = "idle" /\ boot = from /\ boot' = to

\* plic.enable_interrupt, set_interrupt_priority
EnableInterrupt ==
    /\ Step("enable", "lock")
    /\ enabled' = "unknown"
    /\ UNCHANGED <<sent, idx, locked, input, status, ready, q, handler, isr, read, device>>

LockHandlers ==
    /\ Step("lock", "store")
    /\ locked' = {"INT_HANDLERS"}
    /\ UNCHANGED <<sent, idx, enabled, input, status, ready, q, handler, isr, read, device>>

StoreHandler ==
    /\ Step("store", "reset")
    /\ enabled' = "handle_int"
    /\ locked' = {}
    /\ UNCHANGED <<sent, idx, input, status, ready, q, handler, isr, read, device>>

\* Status::reset; the queues are allocated first.
Reset ==
    /\ Step("reset", "flags")
    /\ status' = {} /\ ready' = {} /\ isr' = FALSE
    /\ UNCHANGED <<sent, idx, enabled, locked, input, q, handler, read, device>>

\* set_flag: Acknowledge, Driver, then FeaturesOk; a device that does not take
\* it is driven all the same.
SetFlags ==
    /\ Step("flags", "queues")
    /\ \E accepted \in SUBSET {"FeaturesOk"} :
          status' = status \cup {"Acknowledge", "Driver"} \cup accepted
    /\ UNCHANGED <<sent, idx, enabled, locked, input, ready, q, handler, isr, read, device>>

\* queue_sel 0 and 1, their rings, size and queue_ready
SetQueues ==
    /\ Step("queues", "driver_ok")
    /\ ready' = {0, 1}
    /\ UNCHANGED <<sent, idx, enabled, locked, input, status, q, handler, isr, read, device>>

DriverOk ==
    /\ Step("driver_ok", "store_dev")
    /\ status' = status \cup {"DriverOk"}
    /\ UNCHANGED <<sent, idx, enabled, locked, input, ready, q, handler, isr, read, device>>

\* INPUT_DEV.store(dev_ref)
StoreDev ==
    /\ Step("store_dev", "command")
    /\ input' = TRUE
    /\ UNCHANGED <<sent, idx, enabled, locked, status, ready, q, handler, isr, read, device>>

-----------------------------------------------------------------------------
(* Input::command, on the boot thread *)

AllocDescriptor ==
    /\ Step("command", "write")
    /\ sent < Commands
    /\ idx' = Allocated(q)
    /\ q' = alloc_descriptor(q)
    /\ UNCHANGED <<sent, enabled, locked, input, status, ready, handler, isr, read, device>>

WriteCommand ==
    /\ Step("write", "ring")
    /\ q' = WriteDescriptor(q, idx, [addr |-> Config])
    /\ UNCHANGED <<sent, idx, enabled, locked, input, status, ready, handler, isr, read, device>>

\* available.push(SplitqueueIndex::new(0)): always descriptor 0, whatever idx is.
ListCommand ==
    /\ Step("ring", "index")
    /\ q' = PushRing(q, 0)
    /\ UNCHANGED <<sent, idx, enabled, locked, input, status, ready, handler, isr, read, device>>

PublishCommand ==
    /\ Step("index", "notify")
    /\ q' = PushIndex(q)
    /\ UNCHANGED <<sent, idx, enabled, locked, input, status, ready, handler, isr, read, device>>

\* queue_notify.notify(1)
Notify ==
    /\ Step("notify", "print")
    /\ notified' = TRUE
    /\ sent' = sent + 1
    /\ UNCHANGED <<idx, enabled, locked, input, status, ready, q, handler, isr, read, seen, held>>

\* A println of the boot that goes on, under the UART lock.
LockUart ==
    /\ Step("print", "printing")
    /\ locked' = {"UART"}
    /\ UNCHANGED <<sent, idx, enabled, input, status, ready, q, handler, isr, read, device>>

Printed ==
    /\ Step("printing", "command")
    /\ locked' = {}
    /\ UNCHANGED <<sent, idx, enabled, input, status, ready, q, handler, isr, read, device>>

-----------------------------------------------------------------------------
(* handle_external and handle_int *)

Handler(from, to) == handler = from /\ handler' = to /\ UNCHANGED kernel

\* The PLIC has a claim; INT_HANDLERS.lock() spins if the boot thread holds it.
Interrupt ==
    /\ isr /\ enabled # "off"
    /\ Handler("idle", IF "INT_HANDLERS" \in locked THEN "spin"
                       ELSE IF enabled = "unknown" THEN "unknown"
                       ELSE IF ~ input THEN "null"
                       ELSE IF "UART" \in locked THEN "spin"       \* println!("Input int")
                       ELSE "status")
    /\ UNCHANGED <<q, isr, read, device>>

ReadStatus ==
    /\ Handler("status", "pop")
    /\ read' = isr
    /\ UNCHANGED <<q, isr, device>>

\* statusqueue.used.pop(), or eventqueue.used.pop(), which has nothing; then the
\* descriptor is read, and the config at its address must be an IDName.
PopUsed ==
    /\ Handler("pop", IF ~ HasUsed(q) THEN "empty"
                      ELSE IF q.desc[Popped(q)].addr # Config THEN "request"
                      ELSE "ack")
    /\ q' = IF HasUsed(q) THEN Pop(q) ELSE q
    /\ UNCHANGED <<isr, read, device>>

\* int_ack.ack(status): the bit falls, whatever has been used meanwhile.
AckInterrupt ==
    /\ Handler("ack", "idle")
    /\ isr' = (isr /\ ~ read)
    /\ UNCHANGED <<q, read, device>>

-----------------------------------------------------------------------------
(* The device *)

Look ==
    /\ notified /\ {"DriverOk"} \subseteq status /\ 1 \in ready
    /\ IF Offered(q, seen)
       THEN /\ held' = held \cup {[at |-> seen, id |-> OfferedAt(q, seen)]}
            /\ seen' = Next16(seen)
            /\ UNCHANGED notified
       ELSE /\ notified' = FALSE
            /\ UNCHANGED <<held, seen>>
    /\ UNCHANGED <<kernel, q, handler, isr, read>>

Use(e) ==
    /\ e \in held
    /\ held' = held \ {e}
    /\ q' = Complete(q, e.id)
    /\ isr' = TRUE
    /\ UNCHANGED <<kernel, handler, read, seen, notified>>

Next ==
    \/ EnableInterrupt \/ LockHandlers \/ StoreHandler
    \/ Reset \/ SetFlags \/ SetQueues \/ DriverOk \/ StoreDev
    \/ AllocDescriptor \/ WriteCommand \/ ListCommand \/ PublishCommand \/ Notify
    \/ LockUart \/ Printed
    \/ Interrupt \/ ReadStatus \/ PopUsed \/ AckInterrupt
    \/ Look \/ \E e \in held : Use(e)

Spec == Init /\ [][Next]_vars

-----------------------------------------------------------------------------
(* Properties *)

\* input/mod.rs:186 panics on a request it can not handle. The driver sends one
\* kind of command, IDName, which it handles: the panic is not to be reached.
OnlyNames == handler # "request"

=============================================================================
