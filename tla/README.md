# Verification of the LSD kernel

LSD is a small RISC-V kernel booted by Limine: it takes over the memory map,
sets up traps and page tables, loads two programs that are linked into the
kernel image and runs them preemptively on one hart. This directory holds TLA+
models of it, TLC runs and TLAPS proofs. Line references are to `src/`.

    tlc -config SchedulerPrograms.cfg MCScheduler.tla    # one model-checking run
    tlapm SchedulerProofs.tla                            # the proofs of one module

PROJECT.json lists every run, the source lines each definition stands for, the
mutated definitions that show each property can fail, the divergences found
and the hazards the properties are for.

## 1. Inventory

| Component | State | Operations | Interacts through |
|---|---|---|---|
| Task queue, `traps/task.rs` | `CURRENT_USER_TASK`: `queue`, `cur_task_idx` under a spinning RwLock | `advance_task`, `update_current`, `new_task`, `drop_task`, `advance`, `find_task_mut`, `TaskData::load` | trap handlers; writes `satp` and the trap frame |
| Traps, `traps/mod.rs`, `traps/plic.rs` | the frame on the kernel stack, sscratch, `INT_HANDLERS` | `stvec_trap_shim`, `trap_handler`, `handle_external` | queue, system calls, UART |
| System calls, `arch/riscv/syscalls.rs` | `INPUT_AWAIT_LIST` | print, input, forfeit, extend heap, spawn, drop, exit | queue, pmm, page tables, vmem arenas |
| UART, `uart.rs` | `UART` pointer under a mutex | `uart_handler`, `print!` | await list, queue |
| User side, `lsd_lib`, `LSD-Userspace`, `null_task` | user registers and memory | the ecall wrappers, `spawn_thread` | traps |
| Loader, `userspace.rs` | `TASK_IDS`, one thread arena and one address arena per task | `load`, `start_tasks` | pmm, page tables, queue |
| Frame allocator, `memory/pmm.rs` | `REGION_LIST`: a doubly linked list threaded through the free frames | `init`, `push`, `pull`, `claim`, `claim_continuous`, `claim_aligned` | everything that needs frames |
| Page tables, `memory/vmm.rs`, `memory/mod.rs` | the tables, `satp`, `LEVELS`, `HHDM_OFFSET` | `init`, `map`, `unmap`, `clone_table_range`, `virt_to_phys` | pmm |
| `Vmm` arenas, `memory/vmm.rs` | a vmem arena (external crate) per half | `alloc`, `alloc_constrained`, `free`, `free_constrained` | pmm, page tables |
| Kernel heap, `memory/linked_list.rs` | a list of free regions in 16 KiB | `alloc`, `dealloc` | all of `alloc::` |
| DMA, `memory/dma.rs` | claimed frames | `new_many`, `zeroed_many`, `new_raw` | pmm, VirtIO |
| Boot, `main.rs`, `lib.rs` | CSRs, the globals above | `kmain`, `init` | all |
| SMP start, `main.rs` | `CORE_INIT` {sp, satp, claimed} | `smp_init`, `core_main` | other harts, pmm |
| VirtIO, `drivers/virtio` | split virtqueues, device registers | queue push/pop, input and entropy drivers | DMA, PLIC; not started (`lib.rs:187`) |
| Timing and RTC, `timing.rs`, `drivers/goldfish_rtc` | `TIMER_SPEED`, device time | `Unit::ticks`, `set`, `date` | SBI |
| PCI and NVMe, `drivers/pci` | device registers | probing, `wait_ready` | not started (`lib.rs:120`) |

What is hard here: preemption between any two user instructions; one handler
changing the entry another one relies on (spawn, drop, wake-up); a trap inside
the idle loop of `advance`; a drop that moves queue entries while an index is
kept; wake-ups by task id while threads wait; a lock taken twice; the list of
free frames, whose links live in memory that is handed out; a second hart reading a
shared start-up record. What makes each component correct:

* queue and switches: the index names the thread on the hart, each frame belongs
  to its entry, no thread is queued twice, a thread sees its own registers as
  it left them, a runnable thread runs again;
* input: a waiter is found, it gets a character that was typed, typing wakes it;
* frame allocator: a frame is handed out once, sections are contiguous (and
  aligned), the list stays a list, a failed search fails for a reason;
* page tables and arenas: a mapping translates to what was mapped and nothing
  else changes, kernel halves agree, freed frames are the mapped ones;
* heap: blocks are disjoint, inside the heap and aligned;
* SMP start: each hart starts with its own stack and table;
* virtqueues: a descriptor is owned by one side at a time, nothing is lost at
  wrap-around.

## 2. Plan

| Order | Module | Models | State |
|---|---|---|---|
| 1 | `Scheduler`, `MCScheduler` | queue, traps, system calls, UART input, user side | done |
| 1 | `ThreadPool`, `SchedulerRefinement` | the abstract promise and the refinement | done |
| 1 | `SchedulerProofs` | types, unique threads, current entry, frames, waiters and their characters, the refinement | done |
| 2 | `FreeList`, `MCFreeList` | pmm | done |
| 2 | `FrameAllocator`, `FreeListRefinement` | a set of free frames with atomic claims, and the refinement | done |
| 2 | `FreeListProofs` | types, exclusive frames, held pages untouched, the order of the list, searches and their refusals, the refinement | done |
| 3 | `PageTables`, `AddressSpaces`, `MCAddressSpaces` | map, unmap, clone; init, the loader, a core's table and the arenas, composed with the free list and the translation cache | done |
| 3 | `Spaces`, `AddressSpacesRefinement` | address spaces without tables, and the refinement | done |
| 3 | `PageTablesProofs` | the place of every table, what map, unmap and a copied half do to every walk, for any tables | done |
| 3 | `AddressSpacesProofs` | types, what map, unmap and a new root do to translations, no stale translation, no panic, what programs and the kernel find, one holder of every frame, the refinement | done |
| 4 | `Boot` | several harts around `CORE_INIT`, the UART's interrupt and lock | done |
| 4, 8 | `BootProofs` | the interrupt is expected, no core takes an earlier one's stack; the time limit and the timestamp of `Clock` | done |
| 5 | `Heap`, `MCHeap`, `HeapBlocks`, `HeapRefinement` | first fit without merging, what a GlobalAlloc promises, and the refinement | done |
| 5 | `HeapProofs` | free regions and blocks stay apart, freed blocks come back, what is lost, the refinement | done |
| 6 | `SplitVirtqueue`, `SplitQueue`, `RequestQueue`, `SplitQueueRefinement` | rings of 2^w indices shared with a device, a queue of requests, and the refinement | done |
| 6 | `SplitQueueProofs` | every descriptor in one place, requests seen whole, the safety of the refinement | done |
| 6 | `VirtioInput` | the input driver, its interrupt handler and the device | done |
| 7 | `TrapEntry` | the shim, floating point registers, the UART's store fault, the way into user mode | done |
| 7 | `TrapEntryProofs` | registers across traps, the mode after sret, floating point registers, the lock through a store fault | done |
| 8 | `Clock` | `Instant`, `Timeout`, `wait_ready`, the RTC's two words | done |

Every safety property of a passing run is a theorem; its liveness properties are left to
TLC, since neither fairness nor ENABLED is in reach of the prover.

## 3. The scheduler

### Modules

`Scheduler.tla` has one action per trap handler or system call.

| Variable | Code |
|---|---|
| `queue`, `cur` | `TaskQueue::queue`, `cur_task_idx` (0-based, `UsizeMod` for usize) |
| `regs`, `satp` | the user registers and page table of the hart |
| `awaiting` | `INPUT_AWAIT_LIST` |
| `threads` | the next id of each task's `thread_manager` |
| `kernel` | `"user"` while programs run; `"idle"`: `advance` spins with interrupts on and the lock held; `"deadlock"`, `"panic"`, `"hang"`, `"smashed"`: nothing runs again |

A trap clears SIE, so a handler is one step; the idle loop is the only place
where the kernel takes traps, and there `kernel = "idle"` lets `IdleTimer`,
`IdleUart` and `IdleUartNobody` happen. A frame is abstracted to the thread
whose computation it holds (`thr`), where that computation is (`pc`) and the
two registers calls return in. `thr` never influences a step: it is what the
properties follow. Registers and memory a call does not name
are in `thr` and `pc`; user memory is not modelled.

A program is a set of calls (`Calls`), made in any order, with the timer
between any two. `"fault"` is any trap that `trap_handler` does not know.
That nobody leaves the idle loop is in the way the three idle actions are written, after
`task.rs:172`, and no property claims it; `KernelRuns` says that the programs of its run
never come there. The stack a trap in that loop would smash (`traps/mod.rs:369`) is not modelled.
`spawn_thread` is modelled with its closure; `spawn_raw` without. The shipped
program prints, spawns a thread, prints and returns to address 0; the null
task loops.

`ThreadPool.tla` is what programs rely on: a context per thread, one running,
contexts changed by their own thread only. `SchedulerRefinement.tla` maps the
queue to it: the running thread's context is on the hart, every other one's in
its entry.

### Runs

| Run | Shows | Bounds |
|---|---|---|
| `programs` | `CurrentIsLoaded`, `FramesOwned`, `RoundRobin`, `ImplementsPool` with spawns, forfeits and breakpoints; `WaitersListed`, `InCharReturnsChar`, `KernelRuns`, `InCharReturns` with two readers | 3 programs and the null task, 2 threads, 2 characters: the queue grows while any entry is current, breakpoints leave holes in the scan, both readers wait in any order, stale characters are told apart |
| `every` | `TypeOK`, `UniqueThreads` with every call of every kind | 3 tasks, 2 threads each |
| `drop_returns` | a thread that has dropped itself returns from the call | two programs, one thread each |

`every` and `drop_returns` set CHECK_DEADLOCK FALSE: there the kernel stops for
good. `programs` keeps the deadlock check, and its kernel never stops.

Three more comments of the source do not hold of the code, each on every use
of a call. Put the definition in place of the properties of
`SchedulerEvery.cfg` to see the trace:

* `SpawnReturnsIds` (INVARIANT): "spawn returns the thread id" (`syscalls.rs:6`,
  `lsd_lib/src/lib.rs:44`); the parent gets its own subcall number, 2, because only the
  child's frame is written (`syscalls.rs:118`).
* `ExitEndsProgram`: exit takes the queue's lock and calls `drop_task`, which
  takes it again (`syscalls.rs:145`).
* `WaitersListed`: holds for single-threaded readers, and `programs` shows it. With two
  readers in one task the list of task ids wakes one and is cleared
  (`uart.rs:57`); the other waits until its task asks again.

Why the bounds are enough: the handlers look at the current entry, the next
runnable one and the first one of a task; two threads of one task, one more
task and the null task give each of these every relative order. `MaxThreads`
bounds spawns in `Spawn`'s guard; the code's arena ends at `usize::MAX`.
`UsizeMod` = 64 is larger than any queue, so the wrapped index is out of range
as in the code.

### What a drop does

`drop_task` removes an entry with `swap_remove` and then always decrements the
index. The index then names the loaded entry exactly when the dropped entry was
the second to last and the last one was loaded. The null task never waits, and
as the last entry it is what runs after the entry before it. Run `drop_returns` shows the
first program of two ending itself: the index wraps, or a thread that
ended gets back to its call.

### Fairness

`TimerSpec` asks for weak fairness of the timer: every timer handler re-arms the
timer for 1 ms (`traps/mod.rs:301`) before it switches, and kmain arms it before
the first `sret`. Programs are never assumed to make progress, nor is a switch
they ask for. `TypingSpec` adds that characters keep coming, which is what
"typing wakes a waiter" is about. A handler is a step, so
nothing inside the kernel needs fairness.

### Proofs

`SchedulerProofs.tla` proves for every load, workload, character set and bound:

* `TypeCorrect`: `Spec => []TypeOK`. `DropTask` keeps the index natural only
  because usize wraps.
* `ThreadsQueuedOnce`: `Spec => []UniqueThreads`, for all workloads. It is not
  inductive: `UniqueInv` adds that every queued thread id is below its task's
  `threads` counter, so a spawn's id is new, and `SwapRemove` keeps entries
  distinct whatever index it is given.
* `CurrentAlwaysLoaded` and `FramesAlwaysOwned`, under `NoDrops`: no program
  calls `drop` or `spawn_thread` (whose closure ends in a drop).
  `SwitchInv` adds `FramesOwned` for all entries to `CurrentIsLoaded`,
  because the hart gets the frame of the entry the scan stops at, and that
  `pc` is never `"closure"`. Without `NoDrops` both are false, as
  `drop_returns` shows.
* `WaitersAlwaysListed`, under `NoDrops` and `ReadersAlone` (a program that
  reads has one thread). `ReaderInv` adds that a reader has one entry and only
  readers wait, so that the entry `find_task_mut` finds is the one that waits.
* `CharTypedReturned`, under `NoDrops`, for any number of threads that wait.
  `CharHeld` says where the character is between the interrupt and the
  return: in the register of the entry that `deliver` has woken.
* `KernelAlwaysRuns`, under `NoDrops` and `Calm` (no program exits, faults or
  extends its heap, and one never waits): `RunsInv` is that somebody is
  runnable, and that every listed task has an entry, or `uart_handler` would panic.
* `QueueImplementsPool`, under `NoDrops` and `ReadersAlone`: the queue is
  `ThreadPool`. `Mapped` says the abstract state entry by entry: what a thread
  sees (`Sees`) is the hart's registers at the current entry and the saved
  frame elsewhere. There is one lemma for a switch (`SwitchMapped`), for a
  spawn (`SpawnMapped`), for a typed character (`TypesMapped`) and for a
  return to a call (`ResumesMapped`), and `StepMapped` puts each action
  under one of them.

`StepKinds` is what the last four rest on: without drops every step is a
preemption, a switch at a call, an exit, a spawn, a typed character, a return
from a call, or the kernel stops for one of three reasons. The programs of run
`programs` meet all three conditions, so there is something the theorems are about.

Only checked by TLC: the liveness properties (liveness and ENABLED are out
of the prover's reach), and drops.

Assumptions: task ids are distinct (the `TASK_IDS` arena), at least one program
is loaded, 0 is not a character.

### Left out

Printing; the contents of user memory, and with it that a spawned
thread starts on its parent's stack; floating point registers; an unknown call
number (a panic lsd_lib cannot cause). Memory exhaustion of the kernel heap in
`Vec::push`.

## 4. The frame allocator

### Modules

`FreeList.tla` models `memory/pmm.rs`. A page has two words, `next` and `prev`,
that are its `FreeListEntry` while it is on the list and whatever its holder
wrote (`Junk`) afterwards. Page numbers stand for HHDM addresses, 0 for null.

| Variable | Code |
|---|---|
| `next`, `prev` | the words at the start of each page |
| `head`, `tail`, `len` | the fields of `FreeList`; `len` wraps at `UsizeMod` (the kernel is built with `--release`, `xtask/src/main.rs:14`) |
| `boot` | how far `pmm::init` is in the memory map |
| `scan` | the locals of the loop of `claim_continuous` and `claim_aligned` |
| `owners` | how many hold a page; the list holds none of it |
| `fault` | a pointer to no page was dereferenced; the kernel hangs |

`REGION_LIST` is locked for a whole call, so `Push`, `Pull` and `Claim` are one
step each, and the loop of a search is one step per iteration during which
nothing else happens. A section of one frame is a `Claim`
(`pmm.rs:141`, `pmm.rs:190`). Reading a link that a holder has overwritten gives any page,
null or garbage (`Read`). `Pull` takes back one held usable frame, as
`Vmm::free` does frame by frame (`vmm.rs:92-108`).

`FrameAllocator.tla` is what callers rely on: a set of free frames, a claim that
takes one, a request that takes an aligned section of neighbours or nothing.
`FreeListRefinement.tla` maps the list to it; the search is a request in
progress.

### Runs

| Run | Shows | Bounds |
|---|---|---|
| `frames` | `ListSound`, `Exclusive`, `SectionFree`, `SearchOnList`, `SearchComplete`, `HeldUntouched`, `ImplementsAllocator` | 6 usable frames in two runs of three with a hole and unusable pages around them; sections of 0, 2 and 3, alignments 1 and 2; claims while 2 frames are listed |
| `frames_out` | `TypeOK`, with claims to the last frame and past it | 3 usable frames, `UsizeMod` 8 |

Two comments of the code are false of it, and stated as definitions:
`AssumedEntryIsFree` (the FIXME of `pmm.rs:121` assumes a next entry; with
`FreeListOut.cfg` TLC finds the claim of the last one) and `SearchReturns`
(a section found at the end of the list is written through a null link,
`pmm.rs:160`; with `FreeListClaims.cfg`). Their effects are in the runs above: `frames`
keeps two frames listed at a claim, `frames_out` keeps nothing.

No run checks deadlock: a fault or an exhausted list stops the model as it stops
the kernel. Six frames give a section at the head, in the middle and before the
tail, a run that is broken by a hole, an odd and an even base, and every order of the list
that frees can leave. `MaxOwners` = 2 is enough to see a page handed out
twice. No fairness: nothing here waits.

A search sees neighbours only where they stand next to each other on the list:
`SearchComplete` says that it then finds them. Frames given back in ascending
order stand in descending order, so contiguous memory is not found again once it
was freed page by page.

### Proofs

`FreeListProofs.tla`, for every memory map, every request and every bound:

* `TypeCorrect`, with no condition: types survive exhaustion and faults.
  `TypeInv` adds that links are pages, null or garbage until a fault, and
  that only a page can extend a search.
* Under `Reserve >= 2` (a claim leaves a frame on the list) the others:
  `NeverHandedOutTwice`, `HeldNeverWritten`, `SectionAlwaysFree`,
  `SearchStaysOnList`, and the refinement `ImplementsFrameAllocator`.
  `Exclusive` alone is not inductive, because what a claim takes is whatever the links
  say. `ListInv` adds that some sequence `s` enumerates the free frames
  without repetition in the order of the links, both ways (`Chain`), and that
  the search's current entry is its k-th with the counted neighbours before it
  (`ScanAt`). `PrependChain`, `AppendChain` and `CutChain` are the three
  things the code does to a list; `claim` is a cut of one frame at the head.
  `ChainLength`, by the pigeonhole principle, keeps `len` from wrapping.
  Without the condition the four are false: `AssumedEntryIsFree` is how it begins.

* `ListAlwaysSound` and `RefusalJustified`, under the same condition, about the
  order itself. `Order` is computed by following links; `Walk` relates a list
  to it, `WalkUnique` says that there is one such list, and `ListedOrder` that
  it is the `s` of `ListInv`. `Covered` is the invariant of the search loop: no section begins
  at an entry it has passed, except in the run it is counting. `NoRunWithin`
  is why a run that breaks off holds no section at any of its
  entries, the misaligned bases included.

Statements about all prefixes of the list are proved by the least counterexample
(`LeastOf`), because the library's induction theorems cannot be instantiated.

Assumptions: page 0 is never usable, Limine's usable entries are disjoint, the
machine has fewer frames than `usize` values.

### Left out

The alignment and HHDM panics of `push` and `pull` (frames of the map satisfy
both), the text of the error.

## 5. Page tables, programs and arenas

### Modules

`PageTables.tla` is the walks of `memory/vmm.rs` as functions of the tables:
`m` maps each frame that is a table to its entries, an entry is nothing, a
branch or a leaf. `MapIn`, `UnmapIn` and `clone_table_range` are `map`, `unmap`
and the copy of the upper half; `MapPanics` and `UnmapPanics` are their
`panic!`s. `Translate` is what the processor finds: it does not follow an
entry with reserved bits set, which the kernel's own walk (`virt_to_phys`) does.

`AddressSpaces.tla` is everyone who builds tables.

| Variable | Code |
|---|---|
| `mem`, `free` | the tables; `REGION_LIST` in list order |
| `kernel`, `satp` | the kernel's root table; the satp register |
| `tasks`, `harts` | root, segments and stack of a program; root and stack of a core |
| `sections` | what the `Vmm`'s arena has handed out (vmem, a library) |
| `work` | the call in progress and the pages it has not come to |
| `tlb` | translations the processor has cached |
| `written` | history: the frames that firmware, bootloader or a driver wrote to before they were listed |
| `dirty` | history: one of those has become a root that nobody cleared |

`vmm_init` and `InitDone` are `vmm::init`; `Load`, `LoadSegment`, `LoadStack`
and `LoadDone` are `userspace::load`; `StartHart` is `smp_init`'s share;
`Alloc` and `Free` are the four calls of `Vmm`. A call that maps or unmaps a
range does one page a step (`MapNext`, `UnmapNext`), because the processor may
cache a translation between two of them (`Touch`). `Vmm` is used at boot only,
under the kernel's table. Permission bits are left out: every caller gives one, so a leaf
is never taken for a branch.

`new_with_upperhalf` (`vmm.rs:194-202`) clears nothing. Words 0 and 1 of the frame it
claims were the links of the free list (`Unwiped`), and every other word of the lower half is
what the frame held before: any of `Leftovers` if the frame is in `written`, nothing if it is not.
`vmm::init` clears its root (`:259`), `map` the tables it claims (`:446`), and `clone_table_range` writes
every entry of its copies. Frames get into `written` at boot (`Written`: `pmm::init` lists
what Limine calls usable and clears none of it) and by `Vmm::free`, after a driver has had
them; at this commit no code calls the four calls of `Vmm`.

`Spaces.tla` has no tables: each root gives frames to pages, a step changes one page
or block of one root, and frames come from the unused ones and go back there.
`AddressSpacesRefinement.tla` maps the tables to it.

### Run

`memory` checks `TablesSound`, `PagesMapped`, `TlbFresh`, `PullsUnused` and
`ImplementsSpaces`. All five are under the condition `Clean`: no root has been made of a frame
that somebody had written to. Nothing in the code sees to that. It holds as long as memory is zero
when it is listed, as QEMU's is, and no driver's frame comes back before the last root is made.
What may happen otherwise is below, under "What does not hold"; in `Spaces` it is `Spoil`, after which nothing is promised.
`TablesSound` is that every frame has one holder
(`OneHolder`: the free list, a table, one page of one program or driver, a
core's stack), that every root agrees with the kernel on the upper half
(`KernelHalfShared`), the types, and that no `panic!` is met.
`PagesMapped` is that a program's lower half holds its segments and stack and
nothing else, and that the kernel's holds exactly the sections of the arena. `PullsUnused` is that
no frame given back is listed already, which `pmm.rs:92` asks of a caller.

Bounds: three levels of six entries, so a walk has a middle and the lower half of a root
has a slot besides 0 and the link's; two IO blocks, one core, two programs (one with segments
under two entries of its root, one with a segment in the other's slot), two `Vmm` calls of two kinds, with one page
or two; 58 frames with a hole, so sections are not always at the list's head.
`Written` is empty and `Leftovers` two tables, with a leaf or a branch in slot 2: drivers give frames back
before and between the loads, so roots of both kinds of frame are made. A leftover branch leads to a
table in use here; in the machine it leads anywhere, and an invalid word may have bits that make a leaf of it
once `map` sets it valid.
The memory lasts for all of it but not for much more. Cached translations are followed
for one page. CHECK_DEADLOCK FALSE: boot is over when everything is loaded and
memory is used up.

### What does not hold

* `NeverPanics` without `Clean` (INVARIANT in `Memory.cfg` with `Written <- EveryFrame`,
  `Programs <- OneProgram`, `Calls = {}` and `MaxHarts = 0`): memory as a firmware may leave it, one program, in
  slot 2. Under Sv39 (`vmm.rs:235`) that is where the null task is, at 0x80000000
  (`null_task/virt.lds:7`). The word found in slot 2 of the new root (`vmm.rs:195`) has the form of a
  leaf, and `map` panics with "Didnt expect leaf at index" (`vmm.rs:451`). Under Sv48 and
  Sv57 both programs are in slot 0, which was the link to the entry before the first and is null:
  `map` does not panic there, but whatever the leftovers map is mapped for the
  program, and arena slots are refused where they look valid (`userspace.rs:96`).
* `StackMapped` (INVARIANT in `Memory.cfg`): the loader prints "Mapping .. to .."
  (`userspace.rs:123`) for a stack the processor cannot reach.
  `new_with_upperhalf` (`vmm.rs:195`) does not clear the frame it claims. Word 1 of it
  is the link to the next free frame, and as an entry of a table that
  is invalid but has bits 63 to 54 set. The arena's first slot is 1, `map`
  turns the entry into a branch with `set_ppn` and `set_valid`
  (`vmm.rs:463-464`), and the bits stay. Programs do not notice as long as their `_entry`
  sets a stack pointer of its own.
* `PullsUnused` (PROPERTY in `Memory.cfg` with `Calls <- Constrained`):
  `alloc_constrained` adds 4096 before its first `map` (`vmm.rs:139`), so the first frame
  of a section is never used and the one behind it is, by two holders. `free` then gives
  it to the allocator, whose comment asks for unused memory (`pmm.rs:92`).
  `Scattered` are the other two kinds of calls: the run keeps to those, and for them `PullsUnused`
  holds (`PullsAlwaysUnused` below).

### Left out

Copying the segments (see section 11 for two defects of it), ELF parsing, the
TLB of another hart (cores never leave `core_main`'s loop).

### Proofs

`PageTablesProofs.tla` has what follows from the shape of the tables alone: where each
table lies (`Placed`), and what every walk finds after `map`, `unmap` or a copied half.
`AddressSpacesProofs.tla` builds on it, for every number of levels and entries, every memory
map, bootloader, set of programs and calls that meets the assumptions:

* `MapChangesBlock`: `map` changes what is behind the pages of the block it was
  asked for, under one root, and nothing else; `UnmapChangesPage`: the same of
  `unmap` and one page. Both are about the operators, in any state of the tables.
* `NewRootSharesHalf`: a root made by `new_with_upperhalf` finds what the table
  in use finds in the upper half, whatever was in its frame; every root there was finds what
  it found; and every entry of its lower half but the two links is the one that was in the frame.
  With `Clean` the lower half leads nowhere.
* If no call is `alloc_constrained` (`Regular`), `Spec => [](Clean => P)` for P each of `TypeOK`
  (`TypeCorrect`), `KernelHalfShared` (`KernelAlwaysShared`), `NeverPanics` (`PanicsNever`), and
  `Spec => []` of the properties that have `Clean` in them: `TlbFresh` (`TlbAlwaysFresh`), `PagesMapped`
  (`PagesAlwaysMapped`) and, with `OneHolder`, all of `TablesSound` (`TablesAlwaysSound`).
* `PullsAlwaysUnused`: then no `unmap` pulls a frame that is listed, what pmm.rs:92 asks
  of a caller and `alloc_constrained` does not keep.
* `TablesImplementSpaces`: then every step of the tables is a step of `Spaces` or none.

`Written` and `Leftovers` are arbitrary in all of them. Since `dirty` is never reset, a state that is
`Clean` had only `Clean` states before it (`CleanBefore`), and the inductive argument is about those:
`Inv /\ [Next]_vars /\ Clean' => Inv'`. There a new root is that of a frame which
held nothing but the links (`LinkedRoot`); what a root of any other frame has in common with it is
`UnclearedRoot`.

`TlbFresh` is a fact about two roots and a list of requests, and far from inductive.
`Inv` is what it takes:

| Part | Says | Needed because |
|---|---|---|
| `TreeInv` | every table but the bootloader's has one place: a root, a level, the first page below it | a table with two places would let `map` under one root change another |
| `BootInv`, `FreeInv` | the bootloader's tables stay; the free list repeats nothing and lists no table | a claimed table must not be in use |
| `WorkInv` | whose table the call in progress works on, which half its pages are in, which table is in satp | `map` for a program or a core must not touch the table in use; `init` and `load` do not flush |
| `SectionInv` | sections are disjoint, and so are the pages a call still has to do | a page must not be unmapped twice |
| `GrantInv` | between two steps the kernel's lower half maps the sections, less what is still to map, or with what is still to unmap | a page of `free` is mapped, one of `alloc` is not |
| `FrameInv`, `ClaimInv` | a frame behind such a page, or about to be, is neither listed nor a table, and serves one page | `unmap` puts it back on the list |
| `TlbInv` | `TlbFresh`, about pages of the machine | |

`alloc_constrained` breaks `ClaimInv` in its first step, and with it the
list: `free` then lists a frame twice (`PullsUnused` above).

That no call panics, and what a program finds, takes more: what every entry on
the way to a page may be, before anybody asks for the page. `Whole` is `Inv`,
`NeverPanics` and

| Part | Says | Needed because |
|---|---|---|
| `WaysInv` | of the places of the tables: no leaf on the way to a page that may still be asked for lies above the level it will be mapped at (`Limited`); no entry the processor refuses lies on the way to a page of the kernel, or of a program outside of slot 1 (`Unstale`); the first slot of the upper half is taken in every root (`HalfTaken`) | `map` must not meet a leaf; `virt_to_phys` and the processor must agree; the arena must not hand out the upper half |
| `HalfInv` | the walks of every root agree with the kernel's on the upper half, `virt_to_phys` and the processor alike | IO is mapped before there is a second root |
| `RootsInv` | no program has the kernel's root or that of the program being loaded | the loader must not map under another root |
| `LoadInv` | of the program being loaded: its lower half maps its pages less those still to do, which lie apart in blocks of unused memory | each `map` finds nothing where it maps |
| `ProgInv` | `PagesMapped` of a program, by what `virt_to_phys` finds | later calls leave it so |
| `IoInv` | the IO blocks still to map are apart, and outside of the memory map | the refinement: IO must not be claimable |

`MapKeepsWays`, `CloneKeepsWays` and `RootWays` carry `WaysInv` over `map` and a new root; they
need that the tables a `map` creates are cleared, and that a root has the link in
slot 1 (`Linked`), which is why that slot is left out. Where a program is linked matters therefore: `LoadAssumption` says that no segment
is in slot 1. The two programs are linked at 1 and 2 GiB
(`LSD-Userspace/virt.lds:7`, `null_task/virt.lds:7`), in slot 0 of Sv48 and Sv57; under
Sv39 0x40000000 is slot 1, its pages would be mapped and not reached.

The refinement has one lemma per kind of step: `QuietNext` (the abstract maps stay, frames are claimed),
`NewRootSteps` (and `SpoiltRoot` without `Clean`), `MapNextMapped` (from `MapChangesBlock` and, for the frames,
`MapNextFrames`, which reads `GrantInv`, `LoadInv` or `IoInv` according to the call), and
`UnmapNextMapped`.

`OneHolder` is the count that nothing else makes: `FrameInv` and `ClaimInv` say that no frame
behind the kernel's lower half is used twice, and not that a frame is used at all.
`Full` is `Whole` and

| Part | Says | Needed because |
|---|---|---|
| `UsesInv` | a frame is listed, or a table, or behind one page of one root's lower half, or in one core's stack, or asked for by one request | `OneHolder` without cardinalities; each step moves some frames from one use to another |
| `ReachedInv` | a table that is not the bootloader's is a frame of the memory map, and on the way to some page from some root | with `TreeInv`, a table that is no root has exactly one branch to it: two would be at one place, and one page has one way |
| `RoomInv` | on the way to a block that is still to be mapped above level 1 there is no table below its level yet | `map` overwrites the entry at its target unseen; a branch there would lose the tables below it |
| `FreedInv` | requests of `free` name no frame | `unmap` finds the frame, nobody holds it for the call |

`FullOneHolder` counts. `MapUses` is the step that matters: of the frames `map` takes off
the list each becomes a table on the way to the page (`MapReaches`), or the frame of
the page (`MapAdds`); a frame that the request named is asked for no more (`MapAsks`); the
ways to the other blocks stay free (`MapRoom`, from `IoInv` or the alignment of the
blocks of a stack). `NewRootUses` shows that a root, and the tables
`clone_table_range` claims, are reached and that what it does not need stays listed;
`LoadStackAsks` that nothing hangs below an arena slot, which the loader finds empty.

Walks go down a function that is curried in the level and the table, and sizes
are `Power`, a recursive function, because the provers see neither into `^` nor
into functions of two arguments. `FrameIs`, what a walk returns, and
`DeepestIs`, where it ends, are proved from the least level
that fails (`LeastOf`, `HighestOf`), like the prefixes of section 4. `Prefix` is
the part of a page number above a level; `ChildPage`, `RanksOnce` and
`CopiesFresh` show that `clone_table_range`'s depth-first numbering gives each table it
meets a frame of its own.

Assumptions, named in the modules and evaluated by TLC: `ShapeAssumption` (an
even number of entries, two levels or more); `MemoryAssumption` (the map lists a frame
once, never frame 0, and none the bootloader's tables are in);
`BootAssumption` (those tables are tables and end at level 1);
`RequestAssumption` (IO is mapped in the upper half, programs and sections in the lower
one, the stack fits in a slot); `IoAssumption` (the HHDM takes the first slot of
the upper half, no leaf of the bootloader's is in the way of IO and no table of its is
below it, and its blocks are apart and outside of the memory map: the kernel is linked at
0xfffffffa80000000, `LSD/virt.lds:7`, and IO is mapped at level 3 from
0xffffffff80000000 on, `vmm.rs:271`, under other entries of level 3; if `map` found a
branch there it would drop the copy of a table and `OneHolder` would not hold); `LoadAssumption` (segments are apart, none in
slot 1).

Every property of `memory` is a theorem.

## 6. The kernel heap

`Heap.tla` models `linked_list.rs`: `free` is the list, `live` the blocks, each
operation a step under the allocator's lock. `Fits` is `alloc_from_region`,
`Found` the first fit of `find_region`, `Rest` what is listed again. Its
assumption that HEAP is aligned for a `ListNode` is the one
`add_free_region` asserts; the static is an array of `u8`, and only luck of the linker
makes it true. `HeapBlocks.tla` is what a `GlobalAlloc` promises;
`HeapRefinement.tla` maps the list to it.

`heap` checks `HeapSound` (types, every free region can hold its node, no byte
in two places), `LosesAlignmentOnly`, `FreedComesBack`, `ImplementsHeapBlocks`
over all orders of allocations and frees in 96 bytes at address 40. The three layouts
are smaller than a node, not a multiple of one (a rest of 8 bytes refuses the region), and
aligned beyond a node (a gap is lost). 96 bytes hold five nodes and run out. Regions are never joined, and the
bytes in front of an aligned block are never found again; the property says
nothing else is lost. Deadlock is checked.

### Proofs

`HeapProofs.tla` proves for every heap, node size and alignment, and every set
of layouts that meets the assumption:

* `HeapAlwaysSound`: `Spec => []HeapSound`.
* `FreedAlwaysComesBack`: what was just freed serves the next request of its layout.
* `ImplementsPromise`: every step of the list is a step of `HeapBlocks` or none.

The invariant `IInv` is `Sound(free, live)`, which is `HeapSound` region by
region and block by block and adds that a block is a multiple of the node's
alignment, and `FreedFirst`: after a dealloc its block heads the list. The
first part is what `dealloc` needs to list a block as a region.
`RegionDivides` is the heart of it: block and rest lie in the region, apart from
each other, and the rest holds a node, because `Fits` refuses a smaller one.
`AlignUp`, `MultipleOf` and `SumOf` say what `align_up` and `size_align` compute
for any alignment.

* `OnlyAlignmentLost`: an allocation takes from the list what its block has and
  what it skips to align it, a dealloc loses no byte. `LosesAlignmentOnly` sums
  over sets of regions and blocks with a fold. `Tally` is the recursion the fold
  unfolds to; `TallyExists` (from the library's theorem on recursive functions
  over Nat) and `TallyUnique` give it a meaning for every finite set,
  whatever order it is summed in, and `BytesAdd` and `BytesRemove` are what
  the rest needs. `FiniteAlways` is the invariant that there are finitely many blocks.

## 7. Trap entry

`TrapEntry.tla` is one hart in `stvec_trap_shim` and `trap_handler`, instruction group by
instruction group, and in boot from `main.rs:51` to the first `sret`.
A register's value is `<<whose, which>>`. `ra`, `sp`, `gp`, `tp`, `t6` and `s0` are
named because the shim uses them on its way; `gen` is all others. `own` is what
each context last had.

| Variable | Code |
|---|---|
| `pc`, `ctx`, `cause` | where the hart is in shim and handler, whom it trapped, scause |
| `regs`, `csr`, `fs`, `fp` | registers, sscratch, sepc, sstatus and the mode |
| `stack` | the frame and the floating point registers on the trap stack, `Sscratch::scratch_sp` |
| `saved`, `current` | the frames of the queue, the current entry |
| `boot` | `init` (before `main.rs:52`), `load` (sstatus prepared, programs are loaded and printed about), `armed` (`:63`), `reading` (`start_tasks` has the lock of the queue), `jump` (its print), `sepc`, `regs`, `sret` (steps of `TaskData::load`), `done` |
| `task` | the copy of the current task that `start_tasks` makes (`userspace.rs:18`) |
| `uart` | the lock and pointer of UART, whether the page of the pointer is mapped, and the pointer that the print in progress got |
| `own`, `wrote`, `late` | history: a context's registers, the last writer of the floating point registers, and whether boot was trapped by its timer or between its write to sepc and its `sret` |

`Interrupt` may strike between any two instructions of a task, or of boot with
interrupts on: the UART's at any time, the timer's once boot has set it (`main.rs:63`). Boot's prints take
the lock of UART, store, and unlock; a store to a page that is not mapped faults (`FaultingStore`), and the
handler does what `traps/mod.rs:306-318` does, lock by lock: `ForceUnlock`, `LockAgain` and `MovePointer`
for the pointer, `LockAgain` and `Reported` for its own line, `LockAndForget`. A handler that asks for a
lock which the code under it holds stops there for ever, and has no step.
`Advance` puts the frame into the queue and another one in its place, of any task: which one is
`Scheduler`'s matter. If boot was trapped, it is boot's frame that waits in a task's entry.

### Runs

`trap` checks `ContextSound` (a context finds its registers, the handler the
frame of the trapped context), `ReturnsToTask` (what `main.rs:52` prepares is there when boot jumps, after all
prints, interrupts and store faults: a task runs in user mode with interrupts on, boot goes on in supervisor mode),
`LastWritten` (the floating point registers hold what was written last: one
user of them is right, two share them) and `LockBalanced` (in the code that is returned to, UART is
locked exactly while a print of that code has the lock). Three tasks, two
with floating point: one to leave, one to come back to, one in between. `fs`, SPP, SPIE and the
mapping of the UART's page start with any value.
CHECK_DEADLOCK is FALSE: the model stops where the kernel loops after an exception it does not
know, and where a handler waits for a lock of the code it interrupted. It does not start before
`traps::init`; a trap there would find no sscratch.

`ReturnsToTask` has the condition `~late`, and both ways to be late are in the code:

* `TasksInUserMode` (INVARIANT in `TrapEntry.cfg`) is "we'll jump to user mode on an `sret`" (`main.rs:51`). The timer is armed with interrupts on, 10 ms before boot may be through
  with its print (`main.rs:63`, `userspace.rs:24`). `advance_task` then files boot's frame in the entry
  of the first task and returns to the next one by an `sret` with SPP of boot, in supervisor mode, where pages of
  programs can not be executed. Boot's context stays sound (`ContextSound` holds): it goes on when its entry is next
  and the first task's own frame is lost unless boot had copied it.
* Interrupts are on between `csrw sepc` and `sret` (`task.rs:88`): any trap there leaves its own return address
  in sepc, and boot's `sret` goes back into the kernel in user mode. Take `~late` out of `ReturnsToTask` to see it.

`FallbackTaken` (INVARIANT in `TrapEntry.cfg`) does not hold either: the handler moves the pointer and prints "using HHDM UART"
(`traps/mod.rs:313`), but the store it returns to has the old address in a register and faults again, for ever.
`LockBalanced` holds all the while.

### Proofs

`TrapEntryProofs.tla` proves all four properties of `trap` for any set of tasks and of users of the
floating point registers: `ContextsStaySound`, `AlwaysReturnsToTask`,
`FpAlwaysLastWritten` and `LockAlwaysBalanced`.

None of them is inductive: they speak of two points of the way, the handler's
start and the return. `IInv` says for every step in between where each register of
the context is (`OnTheWayIn`, `OnTheWayOut`): still in the register, in
sscratch (t6, from the first swap to the second), in `scratch_sp` (sp), or in the frame. Its other parts:

| Part | Says |
|---|---|
| `Filed`, `Contextual` | whose frame waits in which entry: a task's own, or boot's in the first one's |
| `TasksOwn` | a task in the queue has the frame it was left with |
| `Copied`, `Loaded` | what `start_tasks` read is a frame that fits the first entry, and what `TaskData::load` has made of it so far |
| `Modes` | where SPP, SPIE and SIE come from, from `main.rs:52` to the `sret` and through every trap |
| `OnTime` | unless boot is late, boot is done when a task runs and every entry holds its own task's frame |
| `FpKept` | what s0 promises of the saved floating point registers |
| `Locked` | who has the lock of UART at each step of a print and of the handler of the store fault |

There is one lemma for each action and in it one step for each part the action can disturb.
The assumption added for the proofs is that no task has the name of another context;
TLC evaluates it.

## 8. Boot and the other cores

`Boot.tla` begins when `traps::init` has turned interrupts on. The boot hart
stores its hart id, routes and enables the UART's interrupt, prints, starts the
cores one after the other through `CORE_INIT`, loads the programs and enters
user mode; each core loads satp and sp, prints, and claims. `Interrupt` runs
`uart_handler` on the boot hart in the middle of it. All print under one spin lock.

`boot` checks `InterruptIsExpected`, `CoresSound` and `BootEnds` with three
cores and two characters. `claimed` is stored true where false is meant
(`main.rs:129`), so only the first core is waited for: `CoresSound` says it has its own stack
and table, and that a later core never runs on those of an earlier one; it may run on a later
one's, with three cores in several ways. `BootEnds` needs weak
fairness of the boot hart and of each core: a hart executes, and
whoever spins on a lock that is free gets it. It holds but for `Deadlocked`, a character that
arrives while the boot hart itself holds the UART lock. CHECK_DEADLOCK is
FALSE because the model ends with the boot.

### Proofs

`BootProofs.tla` proves `InterruptAlwaysExpected` and `CoresStaySound` for any
boot hart, any number of cores and any number of characters. `IInv` adds to the
properties what CORE_INIT holds at each step of `smp_init` (`Handed`), that a
core that runs is not ahead of the boot hart (`Started`), and that nobody
but the first core runs before it has claimed (`FirstClaims`), the only time
`claimed` is of use. `BootEnds` is liveness: TLC only.

## 9. VirtIO

`SplitVirtqueue.tla` is the rings of `splitqueue/mod.rs` as functions.
`SplitQueue.tla` puts a driver, in the order its API is made for, beside a
device (external) that takes in ring order and completes in any order. `List` and `Publish` are the two writes of
`AvailableQueue::push`. `RequestQueue.tla` has neither rings nor indices:
requests come back once each, in the order of their completion;
`SplitQueueRefinement.tla` maps the rings to it.

`split_queue` checks `QueueSound` (types, every descriptor in one place),
`DeviceSeesRequest` and `ImplementsRequestQueue`. Indices wrap at 8, sizes
1 and 2 are accepted and 3 is refused, so the indices wrap more often than the ring.
`ImplementsRequestQueue` includes that every request comes back, given
that the device works and the driver pops (weak fairness of `DeviceTake`,
`DeviceComplete`, `PopUsed`). Those two are what the device and the driver's handler are for;
nothing in the queue blocks them. Deadlock is checked.

`VirtioInput.tla` is the input driver from `virtio::init` to its commands, its
interrupt handler, and the device, with the queue at its full width and size
8. `input_command` shows one command: the descriptor written is the last of
the free list, the one published is 0 (`input/mod.rs:133`), and the handler
panics on the answer (`:186`). `virtio::init` is commented out (`lib.rs:187`), so
the kernel does not meet it. There is no passing run of the driver: it
never gets past its first command.

### Proofs

`SplitQueueProofs.tla` proves for every width of the indices and every set of
sizes and requests:

* `QueueAlwaysSound`: `Spec => []QueueSound`.
* `DeviceAlwaysSeesRequest`: `Spec => []DeviceSeesRequest`.
* `ImplementsRequests`: the initial state and every step are those of
  `RequestQueue`. That every request comes back is liveness: TLC only.

What is offered and what is used are each a `Window` of a ring between two
indices. `MoveStart`, `MoveEnd` and `WriteBehind` say that moving an index drops or
appends one entry and that writing the next slot changes no entry of the window,
even where the index wraps. They need the ring's size to divide the range of the
indices, and room. `Room` gets the room from `OnePlace`: a sequence of
different slots that misses one is shorter than the ring. So the driver's
missing check for a full ring (`push` has none) is made up for by its free list.
`OnePlace` is then a sum that each action leaves at one. `IInv` adds `Listed`,
the ring entry that `Publish` relies on, and `Written`, that all which is
offered is a request.

`SizesAssumption`, which TLC evaluates: sizes are positive, a power of two among
them divides the range of the indices, as it does 2^16, and no request looks like a zeroed
descriptor.

## 10. Time

`Clock.tla` is what reads a clock that goes on meanwhile: `Timeout` under
`wait_ready`, and `Time::read` of the RTC. `clock` checks `WaitInTime` (never
given up before its time, though ticks per microsecond are rounded; overdue by
less than a second), `WaitEnds` and `TimestampWithinTurn`. With
5 ticks to 3 microseconds the division has a rest, as 10 MHz to 10^6 has not
but other clocks do; a limit of 4 is more than one second of the model, so whole seconds and the rest
both count; the RTC's low word wraps at 8, five times before `MaxTime`. Fairness: time passes and the
loop goes on; the device may never answer. CHECK_DEADLOCK is FALSE because time ends at `MaxTime`.

What `Time::read` returns may be ahead by up to a turn of the low word (4.3 s):
it reads the low word of one time and the high word of a later one
(`goldfish_rtc/mod.rs:17`).

### Proofs

`BootProofs.tla` extends `Clock` as well as `Boot`, which share nothing (hence `ClockInit`,
`ClockNext`, `ClockSpec`). For every frequency, limit and width of the low word:

* `TimeLimitKept`: `Spec => []WaitInTime`. `CountsNoMore` and
  `ForgetsLessThanSecond` say that counting in whole ticks per microsecond
  never counts more than has passed, and less than a second too little.
* `ReadWithinTurn`: `Spec => []TimestampWithinTurn`. `Combined` is the arithmetic
  of a high word that is read later than the low word it is joined to.

`ClockInv` adds to the two properties that who gave up had counted the whole
duration between its two looks at the clock (`GaveUp`), and what low word has
been read (`LowOfFrom`).
`ClockAssumption` asks for `Word <= MaxTime`, a bound of the model: a turn of the low
word is within its time.

## 11. What is not modelled

Without a model, and why:

* `date()` of the RTC: called from commented-out lines only (`lib.rs:193`), and wrong on
  its first use: `is_leap` is called with `years % 4 != 0`, `Month::offset` subtracts what it should
  add, and day 365 of a year panics with "Invalid offset".
* `Unit::ticks`: a multiplication that fits for the 1 and 10 ms asked for.
* The entropy driver: commented out, and it publishes descriptor 0 as the input driver does (`entropy/mod.rs:68`).
* PCI probing and NVMe beyond `wait_ready`: not called; `admin_cmd` is empty.
* The walk over the device tree, `init_tls`, CPU feature parsing: pure functions of a table of the firmware.
* `SetOnce`: it sets its flag before its value, with one writer at boot.
* DMA regions: `drop` is empty, so a region is never given back.
* Registers, linker symbols, volatile cells, xtask: no state of their own.
* The print call: it changes nothing but the screen.

Read and not stated as a property, because a model would only repeat the line:

* `syscalls.rs:77` dereferences the page table by its physical address;
  `syscalls.rs:147` counts queue entries from the back and drops from the front.
* `userspace.rs:48` zeroes .bss only when the segment has no file bytes;
  `userspace.rs:56` copies to the start of the first frame, also when
  `p_vaddr` is not page aligned.
* `userspace.rs:96` gives slot 256, the first of the upper half, to the arena if it is not valid.
* `main.rs:116` sets satp mode 9 (Sv48) whatever mode the bootloader gave;
  `main.rs:120` takes the base of a core's stack for its top.
* `lib.rs:175-181` adds the upper half to its arena from the last byte of a slot.
* `Vmm::free` walks the table in use: under a program's table it panics.
* `traps/mod.rs:29-31` does not test that the trap stack was allocated.
* `pmm.rs:190` claims one frame without looking at the alignment.
* `nvme/mod.rs:36-48` may report a time-out although the controller became
  ready between its last look and the clock.
