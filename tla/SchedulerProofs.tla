--------------------------- MODULE SchedulerProofs ---------------------------
(***************************************************************************)
(* Theorems about Scheduler, for every set of programs and every bound.    *)
(***************************************************************************)
EXTENDS SchedulerRefinement, SequenceTheorems, TLAPS

-----------------------------------------------------------------------------
(* Operators on the queue *)

LEMMA TasksFacts ==
    /\ Tasks \subseteq Nat
    /\ Loaded \in [1 .. Len(Loaded) -> Tasks]
    /\ Len(Loaded) \in Nat \ {0}
    /\ Loaded[1] \in Tasks
  BY LoadedAssumption, EmptySeq DEF Tasks

\* Replacing an entry keeps the queue a queue of the same length.
LEMMA ReplaceEntry ==
    ASSUME NEW q \in Seq(TaskData), NEW i \in Indices(q), NEW e \in TaskData
    PROVE  LET r == [q EXCEPT ![i + 1] = e] IN
           /\ r \in Seq(TaskData)
           /\ Len(r) = Len(q)
           /\ Indices(r) = Indices(q)
           /\ \A j \in 1 .. Len(q) : r[j] = IF j = i + 1 THEN e ELSE q[j]
  <1>1. i + 1 \in 1 .. Len(q)
    BY DEF Indices
  <1> QED
    BY <1>1, ExceptSeq DEF Indices

LEMMA EntryType ==
    ASSUME NEW q \in Seq(TaskData), NEW i \in Indices(q)
    PROVE  /\ i + 1 \in 1 .. Len(q)
           /\ At(q, i) \in TaskData
  BY ElementOfSeq DEF Indices, At

\* The fields of an entry that a handler has updated.
LEMMA FramedFields ==
    ASSUME NEW e \in TaskData, NEW f \in Frames
    PROVE  /\ Framed(e, f) \in TaskData
           /\ Framed(e, f).task_id = e.task_id
           /\ Framed(e, f).thread_id = e.thread_id
           /\ Framed(e, f).waiting_on = e.waiting_on
           /\ Framed(e, f).trap_frame = f
  BY DEF TaskData, Framed

LEMMA WaitingFields ==
    ASSUME NEW e \in TaskData, NEW w \in WaitSrc
    PROVE  /\ Waiting(e, w) \in TaskData
           /\ Waiting(e, w).task_id = e.task_id
           /\ Waiting(e, w).thread_id = e.thread_id
           /\ Waiting(e, w).waiting_on = w
           /\ Waiting(e, w).trap_frame = e.trap_frame
  BY DEF TaskData, Waiting

LEMMA GivenFields ==
    ASSUME NEW e \in TaskData, NEW c \in Nat
    PROVE  /\ Given(e, c) \in TaskData
           /\ Given(e, c).task_id = e.task_id
           /\ Given(e, c).thread_id = e.thread_id
           /\ Given(e, c).waiting_on = "None"
           /\ Given(e, c).trap_frame.thr = e.trap_frame.thr
           /\ Given(e, c).trap_frame.pc = e.trap_frame.pc
           /\ Given(e, c).trap_frame.a0 = c
           /\ Given(e, c).trap_frame.a1 = e.trap_frame.a1
  BY DEF TaskData, Frames, WaitSrc, Given

\* SaveFrame changes the saved frame of the current entry and nothing else.
LEMMA SaveFrameFacts ==
    ASSUME NEW q \in Seq(TaskData), cur \in Indices(q), NEW f \in Frames
    PROVE  /\ SaveFrame(q, f) \in Seq(TaskData)
           /\ Len(SaveFrame(q, f)) = Len(q)
           /\ Indices(SaveFrame(q, f)) = Indices(q)
           /\ \A j \in 1 .. Len(q) :
                 SaveFrame(q, f)[j] =
                    IF j = cur + 1 THEN Framed(q[cur + 1], f) ELSE q[j]
  <1>1. q[cur + 1] \in TaskData
    BY EntryType DEF At
  <1>2. Framed(q[cur + 1], f) \in TaskData
    BY <1>1, FramedFields
  <1> QED
    BY <1>2, ReplaceEntry DEF SaveFrame

\* So does setting what the current entry waits for.
LEMMA MarkWaitingFacts ==
    ASSUME NEW q \in Seq(TaskData), cur \in Indices(q), NEW w \in WaitSrc
    PROVE  /\ MarkWaiting(q, w) \in Seq(TaskData)
           /\ Len(MarkWaiting(q, w)) = Len(q)
           /\ Indices(MarkWaiting(q, w)) = Indices(q)
           /\ \A j \in 1 .. Len(q) :
                 MarkWaiting(q, w)[j] =
                    IF j = cur + 1 THEN Waiting(q[cur + 1], w) ELSE q[j]
  <1>1. q[cur + 1] \in TaskData
    BY EntryType DEF At
  <1>2. Waiting(q[cur + 1], w) \in TaskData
    BY <1>1, WaitingFields
  <1> QED
    BY <1>2, ReplaceEntry DEF MarkWaiting

\* swap_remove: one entry fewer, each of them an old one at its old place or
\* the last one at the place of the removed one.
LEMMA SwapRemoveFacts ==
    ASSUME NEW q \in Seq(TaskData), NEW i \in Indices(q)
    PROVE  /\ SwapRemove(q, i) \in Seq(TaskData)
           /\ Len(SwapRemove(q, i)) = Len(q) - 1
           /\ \A j \in 1 .. Len(q) - 1 :
                 SwapRemove(q, i)[j] = IF j = i + 1 THEN q[Len(q)] ELSE q[j]
  <1> DEFINE r == [q EXCEPT ![i + 1] = q[Len(q)]]
  <1>1. Len(q) \in 1 .. Len(q) /\ Len(q) \in Nat \ {0}
    BY LenProperties DEF Indices
  <1>2. q[Len(q)] \in TaskData
    BY <1>1, ElementOfSeq
  <1>3. /\ r \in Seq(TaskData)
        /\ Len(r) = Len(q)
        /\ \A j \in 1 .. Len(q) : r[j] = IF j = i + 1 THEN q[Len(q)] ELSE q[j]
    BY <1>2, ReplaceEntry
  <1>s. SwapRemove(q, i) = SubSeq(r, 1, Len(q) - 1)
    BY DEF SwapRemove
  <1> HIDE DEF r
  <1>4. \A j \in 1 .. Len(q) - 1 : r[j] \in TaskData
    BY <1>1, <1>3, ElementOfSeq
  <1> DEFINE n == Len(q) - 1
  <1>n. n \in Int /\ n \in Nat
    BY <1>1
  <1> HIDE DEF n
  <1>5. /\ SubSeq(r, 1, n) \in Seq(TaskData)
        /\ Len(SubSeq(r, 1, n)) = IF 1 <= n THEN n - 1 + 1 ELSE 0
        /\ \A j \in 1 .. n - 1 + 1 : SubSeq(r, 1, n)[j] = r[1 + j - 1]
    <2>1. \A j \in 1 .. n : r[j] \in TaskData
      BY <1>4 DEF n
    <2> QED
      BY <1>n, <2>1, SubSeqProperties
  <1>6. /\ Len(SubSeq(r, 1, n)) = n
        /\ \A j \in 1 .. n : SubSeq(r, 1, n)[j] = r[j]
    BY <1>n, <1>5
  <1> QED
    BY <1>1, <1>3, <1>s, <1>5, <1>6 DEF n

\* uart_handler touches only a0 and waiting_on of entries that wait for CharIn.
LEMMA DeliverFacts ==
    ASSUME NEW q \in Seq(TaskData), NEW list, NEW c \in Nat
    PROVE  /\ Deliver(q, list, c) \in Seq(TaskData)
           /\ Len(Deliver(q, list, c)) = Len(q)
           /\ \A j \in 1 .. Len(q) :
                 Deliver(q, list, c)[j] =
                    IF Woken(q, list, j) THEN Given(q[j], c) ELSE q[j]
  <1>1. DOMAIN q = 1 .. Len(q) /\ Len(q) \in Nat
    BY LenProperties
  <1>2. \A j \in 1 .. Len(q) : q[j] \in TaskData /\ Given(q[j], c) \in TaskData
    BY ElementOfSeq, GivenFields
  <1>3. Deliver(q, list, c) \in [1 .. Len(q) -> TaskData]
    BY <1>1, <1>2 DEF Deliver
  <1>4. Deliver(q, list, c) \in Seq(TaskData) /\ Len(Deliver(q, list, c)) = Len(q)
    BY <1>1, <1>3
  <1> QED
    BY <1>1, <1>4 DEF Deliver

LEMMA EcallFrameType ==
    ASSUME TypeOK, NEW call \in CallNames
    PROVE  /\ EcallFrame(call) \in Frames
           /\ EcallFrame(call).thr = regs.thr
           /\ EcallFrame(call).pc = call
  <1>1. Root(call) \in Nat /\ Sub(call) \in Nat
    BY DEF Root, Sub, CallNames
  <1> QED
    BY <1>1 DEF TypeOK, EcallFrame, Frames, Pcs

\* What a context switch does: the frame is saved, and either a runnable entry
\* becomes current and is loaded, or the kernel idles where it was.
LEMMA AdvanceTaskFacts ==
    ASSUME NEW q, NEW f, AdvanceTask(q, f)
    PROVE  /\ queue' = SaveFrame(q, f)
           /\ \/ \E i \in Indices(queue') :
                    /\ cur' = i
                    /\ Runnable(queue', i)
                    /\ regs' = At(queue', i).trap_frame
                    /\ satp' = At(queue', i).task_id
                    /\ kernel' = kernel
              \/ /\ kernel' = "idle"
                 /\ UNCHANGED <<cur, regs, satp>>
  BY DEF AdvanceTask, Advances, LoadEntry, Idle

-----------------------------------------------------------------------------
(* Type correctness *)

LEMMA AdvanceTaskType ==
    ASSUME TypeOK, NEW q \in Seq(TaskData), cur \in Indices(q), NEW f \in Frames,
           AdvanceTask(q, f)
    PROVE  /\ queue' \in Seq(TaskData)
           /\ cur' \in Nat
           /\ regs' \in Frames
           /\ satp' \in Tasks
           /\ kernel' \in KernelStates
  <1>1. queue' \in Seq(TaskData)
    BY AdvanceTaskFacts, SaveFrameFacts
  <1>2. CASE \E i \in Indices(queue') :
               /\ cur' = i
               /\ Runnable(queue', i)
               /\ regs' = At(queue', i).trap_frame
               /\ satp' = At(queue', i).task_id
               /\ kernel' = kernel
    <2>1. PICK i \in Indices(queue') :
               /\ cur' = i
               /\ regs' = At(queue', i).trap_frame
               /\ satp' = At(queue', i).task_id
               /\ kernel' = kernel
      BY <1>2
    <2>2. At(queue', i) \in TaskData
      BY <1>1, EntryType
    <2> QED
      BY <1>1, <2>1, <2>2 DEF TypeOK, TaskData, Indices
  <1>3. CASE kernel' = "idle" /\ UNCHANGED <<cur, regs, satp>>
    BY <1>1, <1>3 DEF TypeOK, KernelStates
  <1> QED
    BY <1>2, <1>3, AdvanceTaskFacts

LEMMA InitType == Init => TypeOK
  <1> SUFFICES ASSUME Init PROVE TypeOK
    OBVIOUS
  <1>1. \A t \in Tasks : NewFrame(t) \in Frames
    BY TasksFacts DEF NewFrame, Frames, Threads, Pcs
  <1>2. \A t \in Tasks : LoadedEntry(t) \in TaskData
    BY <1>1, TasksFacts DEF LoadedEntry, TaskData, WaitSrc
  <1>3. queue \in [1 .. Len(Loaded) -> TaskData]
    BY <1>2, TasksFacts DEF Init
  <1>4. queue \in Seq(TaskData)
    BY <1>3, TasksFacts
  <1>5. awaiting \in Seq(Tasks)
    BY EmptySeq DEF Init
  <1>6. threads \in [Tasks -> Nat]
    BY DEF Init
  <1>7. regs \in Frames /\ satp \in Tasks
    BY <1>1, TasksFacts DEF Init
  <1> QED
    BY <1>4, <1>5, <1>6, <1>7 DEF Init, TypeOK, KernelStates

LEMMA SpawnType ==
    ASSUME TypeOK, NEW call \in {"spawn_raw", "spawn_thread"}, Spawn(call)
    PROVE  TypeOK'
  <1> DEFINE saved == SaveFrame(queue, EcallFrame(call))
             id    == At(saved, cur).task_id
             tid   == threads[id]
             child == [At(saved, cur) EXCEPT
                          !.thread_id = tid,
                          !.trap_frame.thr = <<id, tid>>,
                          !.trap_frame.a0 = id,
                          !.trap_frame.a1 = tid]
  <1>1. cur \in Indices(queue) /\ call \in CallNames
    BY DEF Spawn, Makes, InUser, HasCurrent, CallNames
  <1>2. EcallFrame(call) \in Frames
    BY <1>1, EcallFrameType
  <1>3. saved \in Seq(TaskData) /\ At(saved, cur) \in TaskData
    BY <1>1, <1>2, SaveFrameFacts, EntryType DEF TypeOK
  <1>4. queue' = Append(saved, child) /\ threads' = [threads EXCEPT ![id] = @ + 1]
    BY DEF Spawn
  <1> HIDE DEF saved
  <1>5. id \in Tasks /\ tid \in Nat /\ id \in Nat
    BY <1>3, TasksFacts DEF TypeOK, TaskData
  <1>6. child \in TaskData
    BY <1>3, <1>5 DEF TaskData, Frames, Threads
  <1>7. queue' \in Seq(TaskData)
    BY <1>3, <1>4, <1>6
  <1>8. threads' \in [Tasks -> Nat]
    BY <1>4, <1>5 DEF TypeOK
  <1>9. regs' \in Frames
    BY <1>2 DEF Spawn, Frames
  <1> QED
    BY <1>7, <1>8, <1>9 DEF TypeOK, Spawn

LEMMA DropThreadType ==
    ASSUME TypeOK, DropThread
    PROVE  TypeOK'
  <1> DEFINE saved == SaveFrame(queue, EcallFrame("drop"))
  <1>1. cur \in Indices(queue)
    BY DEF DropThread, Makes, InUser, HasCurrent
  <1>2. /\ saved \in Seq(TaskData)
        /\ Indices(saved) = Indices(queue)
    BY <1>1, EcallFrameType, SaveFrameFacts DEF TypeOK, CallNames
  <1>3. awaiting' = awaiting /\ threads' = threads
    BY DEF DropThread
  <1>4. \/ \E i \in Indices(saved) :
             /\ LoadEntry(At(saved, i))
             /\ DropTask(saved, cur, i)
             /\ UNCHANGED kernel
        \/ Idle(saved)
    BY DEF DropThread
  <1> HIDE DEF saved
  <1>5. CASE Idle(saved)
    BY <1>2, <1>3, <1>5 DEF Idle, TypeOK, KernelStates
  <1>6. ASSUME NEW i \in Indices(saved),
               LoadEntry(At(saved, i)),
               DropTask(saved, cur, i),
               UNCHANGED kernel
        PROVE  TypeOK'
    <2>1. At(saved, i) \in TaskData
      BY <1>2, EntryType
    <2>2. regs' \in Frames /\ satp' \in Tasks
      BY <1>6, <2>1 DEF LoadEntry, TaskData
    <2>3. queue' \in Seq(TaskData)
      BY <1>1, <1>2, <1>6, SwapRemoveFacts DEF DropTask
    <2>4. \A k \in Int : k % UsizeMod \in Nat
      BY BoundsAssumption
    <2>5. \E k \in Indices(saved) : cur' = (k - 1) % UsizeMod
      BY <1>6 DEF DropTask
    <2>6. \A k \in Indices(saved) : k - 1 \in Int
      BY DEF Indices
    <2>7. cur' \in Nat
      BY <2>4, <2>5, <2>6
    <2> QED
      BY <1>3, <1>6, <2>2, <2>3, <2>7 DEF TypeOK
  <1> QED
    BY <1>4, <1>5, <1>6

LEMMA NextType == TypeOK /\ [Next]_vars => TypeOK'
  <1> SUFFICES ASSUME TypeOK, [Next]_vars
               PROVE  TypeOK'
    OBVIOUS
  <1>q. queue \in Seq(TaskData) /\ regs \in Frames
    BY DEF TypeOK
  <1>1. CASE Timer
    BY <1>1, <1>q, AdvanceTaskType DEF Timer, InUser, HasCurrent, TypeOK
  <1>2. CASE Uart
    <2>1. PICK c \in Chars : UartInterrupt(c)
      BY <1>2 DEF Uart
    <2>2. queue' \in Seq(TaskData)
      BY <1>q, <2>1, DeliverFacts, CharsAssumption DEF UartInterrupt
    <2> QED
      BY <2>1, <2>2 DEF UartInterrupt, TypeOK
  <1>3. CASE UartPanic
    BY <1>3 DEF UartPanic, Stop, TypeOK, KernelStates
  <1>4. CASE CurrentMissing
    BY <1>4 DEF CurrentMissing, Stop, TypeOK, KernelStates
  <1>5. CASE IdleTimer
    BY <1>5 DEF IdleTimer, Stop, TypeOK, KernelStates
  <1>6. CASE IdleUart
    BY <1>6 DEF IdleUart, Stop, TypeOK, KernelStates
  <1>7. CASE IdleUartNobody
    BY <1>7 DEF IdleUartNobody, Stop, TypeOK, KernelStates
  <1>8. CASE Forfeit
    BY <1>8, <1>q, AdvanceTaskType, EcallFrameType
       DEF Forfeit, Makes, InUser, HasCurrent, TypeOK, CallNames
  <1>9. CASE InChar
    <2>1. cur \in Indices(queue)
      BY <1>9 DEF InChar, Makes, InUser, HasCurrent
    <2>2. /\ MarkWaiting(queue, "CharIn") \in Seq(TaskData)
          /\ cur \in Indices(MarkWaiting(queue, "CharIn"))
      BY <1>q, <2>1, MarkWaitingFacts DEF WaitSrc
    <2>3. At(queue, cur).task_id \in Tasks
      BY <1>q, <2>1, EntryType DEF TaskData
    <2>4. awaiting' \in Seq(Tasks)
      BY <1>9, <2>3 DEF InChar, TypeOK
    <2>5. EcallFrame("in_char") \in Frames
      BY EcallFrameType DEF CallNames
    <2> QED
      BY <1>9, <2>2, <2>4, <2>5, AdvanceTaskType DEF InChar, TypeOK
  <1>10. CASE \E call \in {"spawn_raw", "spawn_thread"} : Spawn(call)
    BY <1>10, SpawnType
  <1>11. CASE DropThread
    BY <1>11, DropThreadType
  <1>12. CASE Exit
    <2> DEFINE saved == SaveFrame(queue, EcallFrame("exit"))
    <2>1. saved \in Seq(TaskData)
      BY <1>12, <1>q, EcallFrameType, SaveFrameFacts
         DEF Exit, Makes, InUser, HasCurrent, CallNames
    <2>2. awaiting' = awaiting /\ threads' = threads
      BY <1>12 DEF Exit
    <2>3. \/ \E i \in Indices(saved) :
               /\ cur' = i
               /\ queue' = saved
               /\ LoadEntry(At(saved, i))
               /\ kernel' = "deadlock"
          \/ Idle(saved)
      BY <1>12 DEF Exit
    <2> HIDE DEF saved
    <2>4. \A i \in Indices(saved) : At(saved, i) \in TaskData /\ i \in Nat
      BY <2>1, EntryType DEF Indices
    <2> QED
      BY <2>1, <2>2, <2>3, <2>4
         DEF LoadEntry, Idle, TypeOK, TaskData, KernelStates
  <1>13. CASE ExtendHeap
    BY <1>13, EcallFrameType DEF ExtendHeap, TypeOK, KernelStates, CallNames
  <1>14. CASE Breakpoint
    <2>1. cur \in Indices(queue)
      BY <1>14 DEF Breakpoint, Makes, InUser, HasCurrent
    <2>2. /\ MarkWaiting(queue, "Breakpoint") \in Seq(TaskData)
          /\ cur \in Indices(MarkWaiting(queue, "Breakpoint"))
      BY <1>q, <2>1, MarkWaitingFacts DEF WaitSrc
    <2>3. [regs EXCEPT !.pc = "ebreak"] \in Frames
      BY <1>q DEF Frames, Pcs, CallNames
    <2> QED
      BY <1>14, <2>2, <2>3, AdvanceTaskType DEF Breakpoint, TypeOK
  <1>15. CASE UserFault
    BY <1>15 DEF UserFault, TypeOK, KernelStates, Frames, Pcs, CallNames
  <1>16. CASE Return
    BY <1>16 DEF Return, TypeOK, Frames, Pcs
  <1>17. CASE UNCHANGED vars
    BY <1>17 DEF vars, TypeOK
  <1> QED
    BY <1>1, <1>2, <1>3, <1>4, <1>5, <1>6, <1>7, <1>8, <1>9, <1>10, <1>11,
       <1>12, <1>13, <1>14, <1>15, <1>16, <1>17 DEF Next

\* Every handler leaves every variable a value of its type: the index stays a
\* usize even where drop_task wraps it.
THEOREM TypeCorrect == Spec => []TypeOK
  BY InitType, NextType, PTL DEF Spec

-----------------------------------------------------------------------------
(* No thread is queued twice *)

\* thread_manager has yet to hand out every id above those in use.
IdsHandedOut ==
    \A i \in DOMAIN queue : queue[i].thread_id < threads[queue[i].task_id]

UniqueInv == TypeOK /\ UniqueThreads /\ IdsHandedOut

\* The ids of the entries, place by place, are those of the queue q.
SameIds(q, r) ==
    /\ Len(r) = Len(q)
    /\ \A j \in 1 .. Len(q) :
          /\ r[j].task_id = q[j].task_id
          /\ r[j].thread_id = q[j].thread_id

LEMMA SaveFrameIds ==
    ASSUME NEW q \in Seq(TaskData), cur \in Indices(q), NEW f \in Frames
    PROVE  SameIds(q, SaveFrame(q, f))
  <1>1. cur + 1 \in 1 .. Len(q) /\ q[cur + 1] \in TaskData
    BY EntryType DEF At
  <1> QED
    BY <1>1, FramedFields, SaveFrameFacts DEF SameIds

LEMMA MarkWaitingIds ==
    ASSUME NEW q \in Seq(TaskData), cur \in Indices(q), NEW w \in WaitSrc
    PROVE  SameIds(q, MarkWaiting(q, w))
  <1>1. cur + 1 \in 1 .. Len(q) /\ q[cur + 1] \in TaskData
    BY EntryType DEF At
  <1> QED
    BY <1>1, WaitingFields, MarkWaitingFacts DEF SameIds

LEMMA DeliverIds ==
    ASSUME NEW q \in Seq(TaskData), NEW list, NEW c \in Nat
    PROVE  SameIds(q, Deliver(q, list, c))
  <1>1. \A j \in 1 .. Len(q) : q[j] \in TaskData
    BY ElementOfSeq
  <1> QED
    <2>1. ASSUME NEW j \in 1 .. Len(q)
          PROVE  /\ Deliver(q, list, c)[j].task_id = q[j].task_id
                 /\ Deliver(q, list, c)[j].thread_id = q[j].thread_id
      <3>1. \/ Deliver(q, list, c)[j] = Given(q[j], c)
            \/ Deliver(q, list, c)[j] = q[j]
        BY DeliverFacts
      <3>2. q[j] \in TaskData
        BY <1>1
      <3>3. /\ Given(q[j], c).task_id = q[j].task_id
            /\ Given(q[j], c).thread_id = q[j].thread_id
        BY <3>2, GivenFields
      <3> QED
        BY <3>1, <3>3
    <2>2. Len(Deliver(q, list, c)) = Len(q)
      BY DeliverFacts
    <2> QED
      BY <2>1, <2>2 DEF SameIds

\* Whatever keeps the ids and the counters keeps the invariant.
LEMMA SameIdsKeep ==
    ASSUME UniqueInv, TypeOK', SameIds(queue, queue'), threads' = threads
    PROVE  UniqueInv'
  <1>1. DOMAIN queue' = DOMAIN queue /\ DOMAIN queue = 1 .. Len(queue)
    BY DEF TypeOK, UniqueInv, SameIds
  <1>2. \A j \in DOMAIN queue : ThreadOf(queue'[j]) = ThreadOf(queue[j])
    BY <1>1 DEF SameIds, ThreadOf
  <1>3. UniqueThreads'
    BY <1>1, <1>2 DEF UniqueInv, UniqueThreads
  <1>4. IdsHandedOut'
    BY <1>1 DEF UniqueInv, IdsHandedOut, SameIds
  <1> QED
    BY <1>3, <1>4 DEF UniqueInv

\* SameIds is transitive and reflexive where the handlers need it.
LEMMA SwitchIds ==
    ASSUME TypeOK, cur \in Indices(queue), NEW f \in Frames,
           NEW q \in Seq(TaskData), SameIds(queue, q), queue' = SaveFrame(q, f)
    PROVE  SameIds(queue, queue')
  <1>1. cur \in Indices(q)
    BY DEF Indices, SameIds
  <1>2. SameIds(q, SaveFrame(q, f))
    BY <1>1, SaveFrameIds
  <1> QED
    BY <1>2 DEF SameIds

LEMMA SpawnUnique ==
    ASSUME UniqueInv, TypeOK', NEW call \in {"spawn_raw", "spawn_thread"},
           Spawn(call)
    PROVE  UniqueInv'
  <1> DEFINE saved == SaveFrame(queue, EcallFrame(call))
             id    == At(saved, cur).task_id
             tid   == threads[id]
             child == [At(saved, cur) EXCEPT
                          !.thread_id = tid,
                          !.trap_frame.thr = <<id, tid>>,
                          !.trap_frame.a0 = id,
                          !.trap_frame.a1 = tid]
             n     == Len(queue)
  <1>1. cur \in Indices(queue) /\ call \in CallNames
    BY DEF Spawn, Makes, InUser, HasCurrent, CallNames
  <1>2. EcallFrame(call) \in Frames
    BY <1>1, EcallFrameType DEF UniqueInv
  <1>3. /\ saved \in Seq(TaskData)
        /\ At(saved, cur) \in TaskData
        /\ SameIds(queue, saved)
    BY <1>1, <1>2, SaveFrameFacts, EntryType, SaveFrameIds DEF TypeOK, UniqueInv
  <1>4. queue' = Append(saved, child) /\ threads' = [threads EXCEPT ![id] = @ + 1]
    BY DEF Spawn
  <1> HIDE DEF saved
  <1>5. id \in Tasks /\ tid \in Nat
    BY <1>3 DEF TypeOK, TaskData, UniqueInv
  <1>6. child.task_id = id /\ child.thread_id = tid
    BY <1>3 DEF TaskData
  <1> HIDE DEF id, tid, child
  <1>7. n \in Nat /\ DOMAIN queue = 1 .. n /\ Len(saved) = n
    BY <1>3 DEF TypeOK, UniqueInv, SameIds
  <1>8. /\ DOMAIN queue' = 1 .. n + 1
        /\ \A j \in 1 .. n : queue'[j] = saved[j]
        /\ queue'[n + 1] = child
    BY <1>3, <1>4, <1>7
  <1>9. \A j \in 1 .. n : /\ queue'[j].task_id = queue[j].task_id
                          /\ queue'[j].thread_id = queue[j].thread_id
    BY <1>3, <1>8 DEF SameIds
  <1>10. \A j \in 1 .. n : /\ queue[j].task_id \in Tasks
                           /\ queue[j].thread_id \in Nat
                           /\ queue[j].thread_id < threads[queue[j].task_id]
                           /\ threads[queue[j].task_id] \in Nat
    <2>1. \A j \in 1 .. n : queue[j] \in TaskData
      BY ElementOfSeq DEF UniqueInv, TypeOK, n
    <2>2. \A j \in 1 .. n : queue[j].task_id \in Tasks
                           /\ queue[j].thread_id \in Nat
      BY <2>1 DEF TaskData
    <2>3. \A t \in Tasks : threads[t] \in Nat
      BY DEF UniqueInv, TypeOK
    <2> QED
      BY <1>7, <2>2, <2>3 DEF UniqueInv, IdsHandedOut
  <1>11. threads[id] = tid
    BY DEF id, tid
  <1>12. IdsHandedOut'
    <2>1. /\ threads' \in [Tasks -> Nat]
          /\ threads'[id] = tid + 1
          /\ \A t \in Tasks : t # id => threads'[t] = threads[t]
      BY <1>4, <1>5, <1>11 DEF TypeOK, UniqueInv
    <2>2. \A j \in 1 .. n : queue'[j].thread_id < threads'[queue'[j].task_id]
      BY <1>5, <1>9, <1>10, <1>11, <2>1
    <2>3. queue'[n + 1].thread_id < threads'[queue'[n + 1].task_id]
      BY <1>5, <1>6, <1>8, <2>1
    <2> QED
      BY <1>7, <1>8, <2>2, <2>3 DEF IdsHandedOut
  <1>13. \A j \in 1 .. n : ThreadOf(queue'[j]) # ThreadOf(child)
    BY <1>5, <1>6, <1>9, <1>10, <1>11 DEF ThreadOf
  <1>14. \A i, j \in 1 .. n :
            ThreadOf(queue'[i]) = ThreadOf(queue'[j]) => i = j
    BY <1>7, <1>9 DEF UniqueInv, UniqueThreads, ThreadOf
  <1>15. UniqueThreads'
    BY <1>7, <1>8, <1>13, <1>14 DEF UniqueThreads
  <1> QED
    BY <1>12, <1>15 DEF UniqueInv

LEMMA DropThreadUnique ==
    ASSUME UniqueInv, TypeOK', DropThread
    PROVE  UniqueInv'
  <1> DEFINE saved == SaveFrame(queue, EcallFrame("drop"))
             n     == Len(queue)
  <1>1. cur \in Indices(queue) /\ threads' = threads
    BY DEF DropThread, Makes, InUser, HasCurrent
  <1>2. /\ saved \in Seq(TaskData)
        /\ SameIds(queue, saved)
        /\ Len(saved) = n
    BY <1>1, EcallFrameType, SaveFrameFacts, SaveFrameIds
       DEF TypeOK, UniqueInv, CallNames
  <1>3. queue' = SwapRemove(saved, cur) \/ queue' = saved
    BY DEF DropThread, DropTask, Idle
  <1> HIDE DEF saved
  <1>4. CASE queue' = saved
    BY <1>1, <1>2, <1>4, SameIdsKeep
  <1>5. CASE queue' = SwapRemove(saved, cur)
    <2>1. n \in Nat \ {0} /\ DOMAIN queue = 1 .. n /\ cur + 1 \in 1 .. n
      BY <1>1 DEF Indices, TypeOK, UniqueInv
    <2>2. /\ queue' \in Seq(TaskData)
          /\ DOMAIN queue' = 1 .. n - 1
          /\ \A j \in 1 .. n - 1 :
                queue'[j] = IF j = cur + 1 THEN saved[n] ELSE saved[j]
      <3>1. cur \in Indices(saved)
        BY <1>1, <1>2 DEF Indices
      <3>2. Len(queue') = n - 1 /\ queue' \in Seq(TaskData)
        BY <1>2, <1>5, <3>1, SwapRemoveFacts
      <3> QED
        BY <1>2, <1>5, <3>1, <3>2, SwapRemoveFacts
    <2> DEFINE from(j) == IF j = cur + 1 THEN n ELSE j
    <2>3. \A j \in 1 .. n - 1 :
             /\ from(j) \in 1 .. n
             /\ queue'[j].task_id = queue[from(j)].task_id
             /\ queue'[j].thread_id = queue[from(j)].thread_id
      <3>1. \A j \in 1 .. n - 1 : from(j) \in 1 .. n /\ queue'[j] = saved[from(j)]
        BY <2>1, <2>2
      <3> QED
        BY <1>2, <3>1 DEF SameIds
    <2>4. \A i, j \in 1 .. n - 1 : from(i) = from(j) => i = j
      BY <2>1
    <2> HIDE DEF from
    <2>5. UniqueThreads'
      BY <2>1, <2>2, <2>3, <2>4 DEF UniqueInv, UniqueThreads, ThreadOf
    <2>6. IdsHandedOut'
      BY <1>1, <2>1, <2>2, <2>3 DEF UniqueInv, IdsHandedOut
    <2> QED
      BY <2>5, <2>6 DEF UniqueInv
  <1> QED
    BY <1>3, <1>4, <1>5

LEMMA InitUnique == Init => UniqueInv
  <1> SUFFICES ASSUME Init PROVE UniqueInv
    OBVIOUS
  <1>1. DOMAIN queue = 1 .. Len(Loaded) /\ DOMAIN Loaded = 1 .. Len(Loaded)
    BY TasksFacts DEF Init
  <1>2. \A i \in DOMAIN queue : /\ queue[i].task_id = Loaded[i]
                                /\ queue[i].thread_id = 0
                                /\ Loaded[i] \in Tasks
    BY <1>1, TasksFacts DEF Init, LoadedEntry
  <1>3. UniqueThreads
    BY <1>1, <1>2, LoadedAssumption DEF UniqueThreads, ThreadOf
  <1>4. IdsHandedOut
    BY <1>1, <1>2 DEF Init, IdsHandedOut
  <1> QED
    BY <1>3, <1>4, InitType DEF UniqueInv

LEMMA NextUnique == UniqueInv /\ [Next]_vars => UniqueInv'
  <1> SUFFICES ASSUME UniqueInv, [Next]_vars
               PROVE  UniqueInv'
    OBVIOUS
  <1>t. TypeOK /\ TypeOK' /\ queue \in Seq(TaskData) /\ regs \in Frames
    BY NextType DEF UniqueInv, TypeOK
  <1>s. SameIds(queue, queue)
    BY DEF SameIds
  <1>k. ASSUME SameIds(queue, queue'), threads' = threads
        PROVE  UniqueInv'
    BY <1>k, <1>t, SameIdsKeep
  <1>1. CASE Timer
    <2>1. cur \in Indices(queue) /\ queue' = SaveFrame(queue, regs)
      BY <1>1, AdvanceTaskFacts DEF Timer, InUser, HasCurrent
    <2> QED
      BY <1>1, <1>k, <1>s, <1>t, <2>1, SwitchIds DEF Timer
  <1>2. CASE Uart
    BY <1>2, <1>k, <1>t, DeliverIds, CharsAssumption DEF Uart, UartInterrupt
  <1>3. CASE UNCHANGED <<queue, threads>>
    BY <1>3, <1>k, <1>s
  <1>4. CASE Forfeit
    <2>1. /\ cur \in Indices(queue)
          /\ queue' = SaveFrame(queue, EcallFrame("forfeit"))
      BY <1>4, AdvanceTaskFacts DEF Forfeit, Makes, InUser, HasCurrent
    <2> QED
      BY <1>4, <1>k, <1>s, <1>t, <2>1, SwitchIds, EcallFrameType
         DEF Forfeit, CallNames
  <1>5. CASE InChar
    <2> DEFINE q == MarkWaiting(queue, "CharIn")
    <2>1. cur \in Indices(queue) /\ queue' = SaveFrame(q, EcallFrame("in_char"))
      BY <1>5, AdvanceTaskFacts DEF InChar, Makes, InUser, HasCurrent
    <2>2. q \in Seq(TaskData) /\ SameIds(queue, q)
      BY <1>t, <2>1, MarkWaitingFacts, MarkWaitingIds DEF WaitSrc
    <2> HIDE DEF q
    <2> QED
      BY <1>5, <1>k, <1>t, <2>1, <2>2, SwitchIds, EcallFrameType
         DEF InChar, CallNames
  <1>6. CASE \E call \in {"spawn_raw", "spawn_thread"} : Spawn(call)
    BY <1>6, <1>t, SpawnUnique
  <1>7. CASE DropThread
    BY <1>7, <1>t, DropThreadUnique
  <1>8. CASE Exit
    <2>1. cur \in Indices(queue) /\ queue' = SaveFrame(queue, EcallFrame("exit"))
      BY <1>8 DEF Exit, Idle, Makes, InUser, HasCurrent
    <2> QED
      BY <1>8, <1>k, <1>s, <1>t, <2>1, SwitchIds, EcallFrameType
         DEF Exit, CallNames
  <1>9. CASE Breakpoint
    <2> DEFINE q == MarkWaiting(queue, "Breakpoint")
    <2>1. /\ cur \in Indices(queue)
          /\ queue' = SaveFrame(q, [regs EXCEPT !.pc = "ebreak"])
      BY <1>9, AdvanceTaskFacts DEF Breakpoint, Makes, InUser, HasCurrent
    <2>2. q \in Seq(TaskData) /\ SameIds(queue, q)
      BY <1>t, <2>1, MarkWaitingFacts, MarkWaitingIds DEF WaitSrc
    <2>3. [regs EXCEPT !.pc = "ebreak"] \in Frames
      BY <1>t DEF Frames, Pcs, CallNames
    <2> HIDE DEF q
    <2> QED
      BY <1>9, <1>k, <1>t, <2>1, <2>2, <2>3, SwitchIds DEF Breakpoint
  <1> QED
    BY <1>1, <1>2, <1>3, <1>4, <1>5, <1>6, <1>7, <1>8, <1>9
       DEF Next, vars, UartPanic, CurrentMissing, IdleTimer, IdleUart,
           IdleUartNobody, ExtendHeap, UserFault, Return

\* Whatever the programs do, and even after an index has gone wrong: no handler
\* ever queues a thread twice (new_task, swap_remove, thread_manager.alloc).
THEOREM ThreadsQueuedOnce == Spec => []UniqueThreads
  <1>1. UniqueInv => UniqueThreads
    BY DEF UniqueInv
  <1> QED
    BY <1>1, InitUnique, NextUnique, PTL DEF Spec

-----------------------------------------------------------------------------
(* The entry at cur_task_idx is the thread on the hart *)

\* The programs spawn threads, read characters, forfeit, fault and exit, but
\* none ends a thread alone: drop_task loses the index (run DropReturns).
NoDrops == \A t \in Tasks : Calls[t] \cap {"drop", "spawn_thread"} = {}

EndPcs == {"spawn_thread", "closure"}

\* No thread is on its way to drop_thread.
NoneEnding ==
    /\ regs.pc \notin EndPcs
    /\ \A i \in DOMAIN queue : queue[i].trap_frame.pc \notin EndPcs

SwitchInv == TypeOK /\ CurrentIsLoaded /\ FramesOwned /\ NoneEnding

\* A queue with the frames and ids of the current one, waits aside.
SameFrames(q) ==
    /\ q \in Seq(TaskData)
    /\ SameIds(queue, q)
    /\ \A j \in 1 .. Len(queue) : q[j].trap_frame = queue[j].trap_frame

LEMMA SavedFrames ==
    ASSUME SwitchInv, kernel = "user", NEW q, SameFrames(q),
           NEW f \in Frames, f.thr = regs.thr, f.pc \notin EndPcs,
           NEW s, s = SaveFrame(q, f)
    PROVE  /\ s \in Seq(TaskData)
           /\ DOMAIN s = 1 .. Len(queue)
           /\ \A j \in DOMAIN s : /\ s[j].trap_frame.thr = ThreadOf(s[j])
                                  /\ s[j].trap_frame.pc \notin EndPcs
  <1> DEFINE n == Len(queue)
  <1>1. /\ cur \in Indices(queue)
        /\ regs.thr = ThreadOf(queue[cur + 1])
        /\ DOMAIN queue = 1 .. n
    BY DEF SwitchInv, CurrentIsLoaded, HasCurrent, TypeOK, At
  <1>2. q \in Seq(TaskData) /\ Len(q) = n /\ cur \in Indices(q)
    BY <1>1 DEF SameFrames, SameIds, Indices
  <1>3. /\ s \in Seq(TaskData)
        /\ Len(s) = n
        /\ \A j \in 1 .. n :
              s[j] = IF j = cur + 1 THEN Framed(q[cur + 1], f) ELSE q[j]
    BY <1>2, SaveFrameFacts
  <1>4. cur + 1 \in 1 .. n /\ q[cur + 1] \in TaskData
    BY <1>2, EntryType DEF At
  <1>5. /\ s[cur + 1].trap_frame = f
        /\ ThreadOf(s[cur + 1]) = ThreadOf(queue[cur + 1])
    <2>1. s[cur + 1] = Framed(q[cur + 1], f)
      BY <1>3, <1>4
    <2>2. /\ s[cur + 1].trap_frame = f
          /\ s[cur + 1].task_id = q[cur + 1].task_id
          /\ s[cur + 1].thread_id = q[cur + 1].thread_id
      BY <1>4, <2>1, FramedFields
    <2> QED
      BY <1>4, <2>2 DEF ThreadOf, SameFrames, SameIds
  <1>6. ASSUME NEW j \in 1 .. n, j # cur + 1
        PROVE  /\ s[j].trap_frame.thr = ThreadOf(s[j])
               /\ s[j].trap_frame.pc \notin EndPcs
    <2>1. s[j] = q[j]
      BY <1>3, <1>6
    <2>2. /\ q[j].trap_frame = queue[j].trap_frame
          /\ ThreadOf(q[j]) = ThreadOf(queue[j])
      BY DEF SameFrames, SameIds, ThreadOf
    <2>3. /\ queue[j].trap_frame.thr = ThreadOf(queue[j])
          /\ queue[j].trap_frame.pc \notin EndPcs
      BY <1>1 DEF SwitchInv, FramesOwned, NoneEnding
    <2> QED
      BY <2>1, <2>2, <2>3
  <1>7. DOMAIN s = 1 .. n
    BY <1>3
  <1> QED
    BY <1>1, <1>3, <1>5, <1>6, <1>7

\* Loading a runnable entry of such a queue restores the invariant; so does
\* stopping on it, whatever the index.
LEMMA AdvanceKeeps ==
    ASSUME SwitchInv, TypeOK', kernel = "user", NEW q, SameFrames(q),
           NEW f \in Frames, f.thr = regs.thr, f.pc \notin EndPcs,
           AdvanceTask(q, f)
    PROVE  SwitchInv'
  <1>1. /\ queue' = SaveFrame(q, f)
        /\ \/ \E i \in Indices(queue') :
                 /\ cur' = i
                 /\ Runnable(queue', i)
                 /\ regs' = At(queue', i).trap_frame
                 /\ satp' = At(queue', i).task_id
                 /\ kernel' = kernel
           \/ /\ kernel' = "idle"
              /\ UNCHANGED <<cur, regs, satp>>
    BY AdvanceTaskFacts
  <1>2. /\ queue' \in Seq(TaskData)
        /\ \A j \in DOMAIN queue' :
              /\ queue'[j].trap_frame.thr = ThreadOf(queue'[j])
              /\ queue'[j].trap_frame.pc \notin EndPcs
    BY <1>1, SavedFrames
  <1>3. FramesOwned'
    BY <1>2 DEF FramesOwned
  <1>4. CASE kernel' = "idle" /\ UNCHANGED <<cur, regs, satp>>
    BY <1>2, <1>3, <1>4 DEF SwitchInv, CurrentIsLoaded, NoneEnding
  <1>5. ASSUME NEW i \in Indices(queue'),
               cur' = i,
               Runnable(queue', i),
               regs' = At(queue', i).trap_frame,
               satp' = At(queue', i).task_id
        PROVE  SwitchInv'
    <2>1. i + 1 \in DOMAIN queue'
      BY <1>2 DEF Indices
    <2>2. /\ regs'.thr = ThreadOf(At(queue', i))
          /\ regs'.pc \notin EndPcs
      BY <1>2, <1>5, <2>1 DEF At
    <2>3. CurrentIsLoaded'
      BY <1>5, <2>2 DEF CurrentIsLoaded, HasCurrent
    <2>4. NoneEnding'
      BY <1>2, <2>2 DEF NoneEnding
    <2> QED
      BY <1>3, <2>3, <2>4 DEF SwitchInv
  <1> QED
    BY <1>1, <1>4, <1>5

LEMMA MarkedFrames ==
    ASSUME SwitchInv, cur \in Indices(queue), NEW w \in WaitSrc
    PROVE  SameFrames(MarkWaiting(queue, w))
  <1>1. queue \in Seq(TaskData)
    BY DEF SwitchInv, TypeOK
  <1>2. queue[cur + 1] \in TaskData
    BY <1>1, EntryType DEF At
  <1>3. Waiting(queue[cur + 1], w).trap_frame = queue[cur + 1].trap_frame
    BY <1>2, WaitingFields
  <1> QED
    BY <1>1, <1>3, MarkWaitingFacts, MarkWaitingIds DEF SameFrames

LEMMA UnmarkedFrames ==
    ASSUME SwitchInv
    PROVE  SameFrames(queue)
  BY DEF SwitchInv, TypeOK, SameFrames, SameIds

\* A handler that stops the kernel and saves no frame.
LEMMA StopKeeps ==
    ASSUME SwitchInv, TypeOK', kernel' # "user", queue' = queue,
           regs'.pc \notin EndPcs
    PROVE  SwitchInv'
  BY DEF SwitchInv, CurrentIsLoaded, FramesOwned, NoneEnding

LEMMA UartKeeps ==
    ASSUME SwitchInv, TypeOK', NEW c \in Chars, UartInterrupt(c)
    PROVE  SwitchInv'
  <1> DEFINE n == Len(queue)
  <1>1. /\ kernel = "user"
        /\ cur \in Indices(queue)
        /\ queue \in Seq(TaskData)
        /\ DOMAIN queue = 1 .. n
        /\ Runnable(queue, cur)
        /\ regs.thr = ThreadOf(At(queue, cur))
        /\ satp = At(queue, cur).task_id
    BY DEF UartInterrupt, SwitchInv, CurrentIsLoaded, HasCurrent, TypeOK
  <1>2. /\ queue' \in Seq(TaskData)
        /\ Len(queue') = n
        /\ \A j \in 1 .. n :
              queue'[j] = IF Woken(queue, awaiting, j) THEN Given(queue[j], c)
                                                       ELSE queue[j]
    BY <1>1, DeliverFacts, CharsAssumption DEF UartInterrupt
  <1>3. ASSUME NEW j \in 1 .. n
        PROVE  /\ ThreadOf(queue'[j]) = ThreadOf(queue[j])
               /\ queue'[j].trap_frame.thr = queue[j].trap_frame.thr
               /\ queue'[j].trap_frame.pc = queue[j].trap_frame.pc
    <2>1. queue[j] \in TaskData /\ c \in Nat
      BY <1>1, ElementOfSeq, CharsAssumption
    <2>2. queue'[j] = Given(queue[j], c) \/ queue'[j] = queue[j]
      BY <1>2
    <2>3. /\ ThreadOf(Given(queue[j], c)) = ThreadOf(queue[j])
          /\ Given(queue[j], c).trap_frame.thr = queue[j].trap_frame.thr
          /\ Given(queue[j], c).trap_frame.pc = queue[j].trap_frame.pc
      BY <2>1, GivenFields DEF ThreadOf
    <2> QED
      BY <2>2, <2>3
  <1>4. cur + 1 \in 1 .. n
    BY <1>1 DEF Indices
  <1>5. ~Woken(queue, awaiting, cur + 1)
    BY <1>1 DEF Woken, Runnable, At
  <1>6. queue'[cur + 1] = queue[cur + 1]
    BY <1>2, <1>4, <1>5
  <1>7. DOMAIN queue' = 1 .. n
    BY <1>2
  <1>8. cur' = cur /\ regs' = regs /\ satp' = satp
    BY DEF UartInterrupt
  <1>9. CurrentIsLoaded'
    BY <1>1, <1>2, <1>6, <1>8
       DEF CurrentIsLoaded, HasCurrent, At, Runnable, Indices
  <1>10. FramesOwned'
    BY <1>1, <1>3, <1>7 DEF SwitchInv, FramesOwned
  <1>11. NoneEnding'
    BY <1>1, <1>3, <1>7, <1>8 DEF SwitchInv, NoneEnding
  <1> QED
    BY <1>9, <1>10, <1>11 DEF SwitchInv

LEMMA SpawnKeeps ==
    ASSUME SwitchInv, TypeOK', Spawn("spawn_raw")
    PROVE  SwitchInv'
  <1> DEFINE f     == EcallFrame("spawn_raw")
             saved == SaveFrame(queue, f)
             id    == At(saved, cur).task_id
             tid   == threads[id]
             child == [At(saved, cur) EXCEPT
                          !.thread_id = tid,
                          !.trap_frame.thr = <<id, tid>>,
                          !.trap_frame.a0 = id,
                          !.trap_frame.a1 = tid]
             n     == Len(queue)
  <1>1. cur \in Indices(queue) /\ kernel = "user"
    BY DEF Spawn, Makes, InUser, HasCurrent
  <1>2. /\ f \in Frames
        /\ f.thr = regs.thr
        /\ f.pc = "spawn_raw"
        /\ f.pc \notin EndPcs
    BY EcallFrameType DEF SwitchInv, CallNames, EndPcs
  <1>3. /\ saved \in Seq(TaskData)
        /\ DOMAIN saved = 1 .. n
        /\ \A j \in 1 .. n : /\ saved[j].trap_frame.thr = ThreadOf(saved[j])
                             /\ saved[j].trap_frame.pc \notin EndPcs
    BY <1>1, <1>2, UnmarkedFrames, SavedFrames
  <1>4. /\ queue' = Append(saved, child)
        /\ regs' = [f EXCEPT !.a0 = 0]
        /\ UNCHANGED <<cur, satp, awaiting, kernel>>
    BY DEF Spawn
  <1>5. /\ queue \in Seq(TaskData)
        /\ cur + 1 \in 1 .. n
        /\ queue[cur + 1] \in TaskData
    BY <1>1, EntryType DEF SwitchInv, TypeOK, At
  <1>6. /\ saved[cur + 1] = Framed(queue[cur + 1], f)
        /\ saved[cur + 1].task_id = queue[cur + 1].task_id
        /\ ThreadOf(saved[cur + 1]) = ThreadOf(queue[cur + 1])
        /\ saved[cur + 1].waiting_on = queue[cur + 1].waiting_on
        /\ saved[cur + 1].trap_frame = f
    <2>1. saved[cur + 1] = Framed(queue[cur + 1], f)
      BY <1>1, <1>2, <1>5, SaveFrameFacts
    <2> QED
      BY <1>2, <1>5, <2>1, FramedFields DEF ThreadOf
  <1>7. saved[cur + 1] \in TaskData /\ At(saved, cur) = saved[cur + 1]
    BY <1>3, <1>5, ElementOfSeq DEF At
  <1> HIDE DEF f, saved
  <1>8. /\ child.trap_frame.thr = <<id, tid>>
        /\ child.trap_frame.pc = f.pc
        /\ ThreadOf(child) = <<id, tid>>
    BY <1>6, <1>7 DEF TaskData, Frames, ThreadOf
  <1> HIDE DEF child
  <1>9. n \in Nat /\ Len(saved) = n
    BY <1>3, <1>5, LenProperties
  <1>10. /\ DOMAIN queue' = 1 .. n + 1
         /\ Len(queue') = n + 1
         /\ \A j \in 1 .. n : queue'[j] = saved[j]
         /\ queue'[n + 1] = child
    BY <1>3, <1>4, <1>9
  <1>11. FramesOwned'
    BY <1>3, <1>8, <1>9, <1>10 DEF FramesOwned
  <1>12. regs'.thr = f.thr /\ regs'.pc = f.pc
    BY <1>2, <1>4 DEF Frames
  <1>13. NoneEnding'
    BY <1>2, <1>3, <1>8, <1>9, <1>10, <1>12 DEF NoneEnding
  <1>14. At(queue', cur) = saved[cur + 1]
    BY <1>5, <1>10 DEF At
  <1>15. /\ regs.thr = ThreadOf(queue[cur + 1])
         /\ satp = queue[cur + 1].task_id
         /\ queue[cur + 1].waiting_on = "None"
    BY <1>1 DEF SwitchInv, CurrentIsLoaded, Runnable, At
  <1>16. cur \in Indices(queue')
    BY <1>1, <1>9, <1>10 DEF Indices
  <1>17. CurrentIsLoaded'
    BY <1>2, <1>4, <1>6, <1>12, <1>14, <1>15, <1>16
       DEF CurrentIsLoaded, HasCurrent, Runnable
  <1> QED
    BY <1>11, <1>13, <1>17 DEF SwitchInv

LEMMA InitSwitch == Init => SwitchInv
  <1> SUFFICES ASSUME Init PROVE SwitchInv
    OBVIOUS
  <1>1. /\ DOMAIN queue = 1 .. Len(Loaded)
        /\ Len(queue) = Len(Loaded)
        /\ Len(Loaded) \in Nat \ {0}
        /\ \A i \in DOMAIN queue : queue[i] = LoadedEntry(Loaded[i])
    BY TasksFacts DEF Init
  <1>2. FramesOwned
    BY <1>1 DEF FramesOwned, LoadedEntry, NewFrame, ThreadOf
  <1>3. NoneEnding
    BY <1>1 DEF Init, NoneEnding, LoadedEntry, NewFrame, EndPcs
  <1>4. cur \in Indices(queue) /\ At(queue, cur) = LoadedEntry(Loaded[1])
    BY <1>1 DEF Init, Indices, At
  <1>5. CurrentIsLoaded
    BY <1>4 DEF Init, CurrentIsLoaded, HasCurrent, LoadedEntry, NewFrame,
                ThreadOf, Runnable
  <1> QED
    BY <1>2, <1>3, <1>5, InitType DEF SwitchInv

LEMMA NextSwitch ==
    ASSUME NoDrops
    PROVE  SwitchInv /\ [Next]_vars => SwitchInv'
  <1> SUFFICES ASSUME SwitchInv, [Next]_vars
               PROVE  SwitchInv'
    OBVIOUS
  <1>t. TypeOK /\ TypeOK' /\ regs \in Frames
    BY NextType DEF SwitchInv, TypeOK
  <1>u. SameFrames(queue)
    BY UnmarkedFrames
  <1>e. regs.pc \notin EndPcs
    BY DEF SwitchInv, NoneEnding
  <1>m. ASSUME NEW call \in CallNames, Makes(call)
        PROVE  /\ kernel = "user"
               /\ cur \in Indices(queue)
               /\ regs.thr[1] \in Tasks
               /\ call \in Calls[regs.thr[1]]
               /\ call \notin {"drop", "spawn_thread"}
               /\ EcallFrame(call) \in Frames
               /\ EcallFrame(call).thr = regs.thr
               /\ EcallFrame(call).pc \notin EndPcs
    <2>1. regs.thr[1] \in Tasks
      BY <1>t DEF Frames, Threads
    <2>2. call \in Calls[regs.thr[1]] /\ kernel = "user" /\ cur \in Indices(queue)
      BY <1>m DEF Makes, InUser, HasCurrent
    <2>3. call \notin {"drop", "spawn_thread"}
      BY <2>1, <2>2 DEF NoDrops
    <2> QED
      BY <1>t, <2>1, <2>2, <2>3, EcallFrameType DEF EndPcs, CallNames
  <1>1. CASE Timer
    BY <1>1, <1>t, <1>u, <1>e, AdvanceKeeps DEF Timer, InUser
  <1>2. CASE Uart
    BY <1>2, <1>t, UartKeeps DEF Uart
  <1>3. CASE UartPanic
    BY <1>3, <1>t, <1>e, StopKeeps DEF UartPanic, Stop
  <1>4. CASE CurrentMissing
    BY <1>4, <1>t, <1>e, StopKeeps DEF CurrentMissing, Stop
  <1>5. CASE IdleTimer
    BY <1>5, <1>t, <1>e, StopKeeps DEF IdleTimer, Stop
  <1>6. CASE IdleUart
    BY <1>6, <1>t, <1>e, StopKeeps DEF IdleUart, Stop
  <1>7. CASE IdleUartNobody
    BY <1>7, <1>t, <1>e, StopKeeps DEF IdleUartNobody, Stop
  <1>8. CASE Forfeit
    BY <1>8, <1>m, <1>t, <1>u, AdvanceKeeps DEF Forfeit, CallNames
  <1>9. CASE InChar
    <2>1. Makes("in_char") /\ "in_char" \in CallNames
      BY <1>9 DEF InChar, CallNames
    <2>2. SameFrames(MarkWaiting(queue, "CharIn"))
      BY <1>m, <2>1, MarkedFrames DEF WaitSrc
    <2> QED
      BY <1>9, <1>m, <1>t, <2>1, <2>2, AdvanceKeeps DEF InChar
  <1>10. CASE \E call \in {"spawn_raw", "spawn_thread"} : Spawn(call)
    <2>1. PICK call \in {"spawn_raw", "spawn_thread"} : Spawn(call)
      BY <1>10
    <2>2. Makes(call) /\ call \in CallNames
      BY <2>1 DEF Spawn, CallNames
    <2>3. call = "spawn_raw"
      BY <1>m, <2>1, <2>2
    <2> QED
      BY <1>t, <2>1, <2>3, SpawnKeeps
  <1>11. CASE DropThread
    <2>1. Makes("drop") /\ "drop" \in CallNames
      BY <1>11, <1>e DEF DropThread, EndPcs, CallNames
    <2> QED
      BY <1>m, <2>1
  <1>12. CASE Exit
    <2> DEFINE f == EcallFrame("exit")
    <2>1. /\ f \in Frames /\ f.thr = regs.thr /\ f.pc \notin EndPcs
          /\ kernel = "user"
      BY <1>12, <1>m DEF Exit, CallNames
    <2>2. /\ queue' = SaveFrame(queue, f)
          /\ kernel' # "user"
          /\ \/ \E i \in Indices(queue') : regs' = At(queue', i).trap_frame
             \/ regs' = regs
      BY <1>12 DEF Exit, Idle, LoadEntry
    <2> HIDE DEF f
    <2>3. /\ queue' \in Seq(TaskData)
          /\ \A j \in DOMAIN queue' :
                /\ queue'[j].trap_frame.thr = ThreadOf(queue'[j])
                /\ queue'[j].trap_frame.pc \notin EndPcs
      BY <1>u, <2>1, <2>2, SavedFrames
    <2>4. regs'.pc \notin EndPcs
      <3>1. \A i \in Indices(queue') : i + 1 \in DOMAIN queue'
        BY <2>3 DEF Indices
      <3> QED
        BY <1>e, <2>2, <2>3, <3>1 DEF At
    <2> QED
      BY <1>t, <2>2, <2>3, <2>4
         DEF SwitchInv, CurrentIsLoaded, FramesOwned, NoneEnding
  <1>13. CASE ExtendHeap
    <2>1. Makes("extend_heap") /\ "extend_heap" \in CallNames
      BY <1>13 DEF ExtendHeap, CallNames
    <2>2. regs'.pc \notin EndPcs
      BY <1>13, <1>m, <2>1 DEF ExtendHeap
    <2> QED
      BY <1>13, <1>t, <2>2, StopKeeps DEF ExtendHeap
  <1>14. CASE Breakpoint
    <2> DEFINE f == [regs EXCEPT !.pc = "ebreak"]
    <2>1. Makes("ebreak") /\ "ebreak" \in CallNames
      BY <1>14 DEF Breakpoint, CallNames
    <2>2. SameFrames(MarkWaiting(queue, "Breakpoint"))
      BY <1>m, <2>1, MarkedFrames DEF WaitSrc
    <2>3. f \in Frames /\ f.thr = regs.thr /\ f.pc \notin EndPcs
      BY <1>t DEF Frames, Pcs, CallNames, EndPcs
    <2> QED
      BY <1>14, <1>m, <1>t, <2>1, <2>2, <2>3, AdvanceKeeps DEF Breakpoint
  <1>15. CASE UserFault
    <2>1. regs'.pc \notin EndPcs
      BY <1>15, <1>t DEF UserFault, Frames, EndPcs
    <2> QED
      BY <1>15, <1>t, <2>1, StopKeeps DEF UserFault
  <1>16. CASE Return
    <2>1. /\ regs'.thr = regs.thr
          /\ regs'.pc = "run"
          /\ UNCHANGED <<queue, cur, satp, kernel>>
      BY <1>16, <1>t, <1>e DEF Return, Frames, EndPcs
    <2> QED
      BY <1>t, <2>1 DEF SwitchInv, CurrentIsLoaded, HasCurrent, FramesOwned,
                        NoneEnding, EndPcs
  <1>17. CASE UNCHANGED vars
    BY <1>t, <1>17 DEF vars, SwitchInv, CurrentIsLoaded, HasCurrent,
                       FramesOwned, NoneEnding
  <1> QED
    BY <1>1, <1>2, <1>3, <1>4, <1>5, <1>6, <1>7, <1>8, <1>9, <1>10, <1>11,
       <1>12, <1>13, <1>14, <1>15, <1>16, <1>17 DEF Next

\* As long as no program ends a thread alone, the registers and the page table
\* on the hart are those of the entry at cur_task_idx, which is runnable, for
\* any programs, any number of threads and any interleaving of interrupts.
THEOREM CurrentAlwaysLoaded ==
    ASSUME NoDrops
    PROVE  Spec => []CurrentIsLoaded
  <1>1. SwitchInv => CurrentIsLoaded
    BY DEF SwitchInv
  <1>2. Init => SwitchInv
    BY InitSwitch
  <1>3. SwitchInv /\ [Next]_vars => SwitchInv'
    BY NextSwitch
  <1> QED
    BY <1>1, <1>2, <1>3, PTL DEF Spec

\* And no thread's registers are saved into another thread's entry.
THEOREM FramesAlwaysOwned ==
    ASSUME NoDrops
    PROVE  Spec => []FramesOwned
  <1>1. SwitchInv => FramesOwned
    BY DEF SwitchInv
  <1>2. Init => SwitchInv
    BY InitSwitch
  <1>3. SwitchInv /\ [Next]_vars => SwitchInv'
    BY NextSwitch
  <1> QED
    BY <1>1, <1>2, <1>3, PTL DEF Spec

-----------------------------------------------------------------------------
(* What the handlers do to the queue, entry by entry *)

\* The entry of the thread that trapped holds the frame f and waits for w.
Saves(w, f) ==
    /\ queue' \in Seq(TaskData)
    /\ Len(queue') = Len(queue)
    /\ \A j \in 1 .. Len(queue) : j # cur + 1 => queue'[j] = queue[j]
    /\ ThreadOf(queue'[cur + 1]) = ThreadOf(queue[cur + 1])
    /\ queue'[cur + 1].task_id = queue[cur + 1].task_id
    /\ queue'[cur + 1].waiting_on = w
    /\ queue'[cur + 1].trap_frame = f

\* Then a runnable entry is loaded, or nobody is runnable.
Loads ==
    \/ \E i \in Indices(queue') :
          /\ cur' = i
          /\ Runnable(queue', i)
          /\ regs' = At(queue', i).trap_frame
          /\ kernel' = kernel
    \/ /\ kernel' = "idle"
       /\ NoneRunnable(queue')

\* Where the hart is, and what the caller may have called.
LEMMA UserFacts ==
    ASSUME SwitchInv, kernel = "user"
    PROVE  /\ queue \in Seq(TaskData) /\ Len(queue) \in Nat /\ DOMAIN queue = 1 .. Len(queue)
           /\ cur \in Indices(queue) /\ cur + 1 \in 1 .. Len(queue)
           /\ queue[cur + 1] \in TaskData
           /\ queue[cur + 1].waiting_on = "None"
           /\ regs \in Frames
           /\ regs.thr = ThreadOf(queue[cur + 1])
           /\ regs.thr[1] = queue[cur + 1].task_id
           /\ regs.pc \notin EndPcs
  <1>1. queue \in Seq(TaskData) /\ regs \in Frames /\ regs.pc \notin EndPcs
    BY DEF SwitchInv, TypeOK, NoneEnding
  <1>2. /\ cur \in Indices(queue)
        /\ regs.thr = ThreadOf(queue[cur + 1])
        /\ queue[cur + 1].waiting_on = "None"
    BY DEF SwitchInv, CurrentIsLoaded, HasCurrent, Runnable, At
  <1>3. cur + 1 \in 1 .. Len(queue) /\ queue[cur + 1] \in TaskData
    BY <1>1, <1>2, EntryType DEF At
  <1> QED
    BY <1>1, <1>2, <1>3, LenProperties DEF ThreadOf

LEMMA SaveEffect ==
    ASSUME SwitchInv, kernel = "user", NEW f \in Frames,
           queue' = SaveFrame(queue, f)
    PROVE  Saves("None", f)
  <1>1. /\ queue \in Seq(TaskData) /\ cur \in Indices(queue) /\ cur + 1 \in 1 .. Len(queue)
        /\ queue[cur + 1] \in TaskData /\ queue[cur + 1].waiting_on = "None"
    BY UserFacts
  <1>2. /\ queue' \in Seq(TaskData)
        /\ Len(queue') = Len(queue)
        /\ \A j \in 1 .. Len(queue) :
              queue'[j] = IF j = cur + 1 THEN Framed(queue[cur + 1], f) ELSE queue[j]
    BY <1>1, SaveFrameFacts
  <1>3. queue'[cur + 1] = Framed(queue[cur + 1], f)
    BY <1>1, <1>2
  <1> QED
    BY <1>1, <1>2, <1>3, FramedFields DEF Saves, ThreadOf

LEMMA MarkEffect ==
    ASSUME SwitchInv, kernel = "user", NEW f \in Frames, NEW w \in WaitSrc,
           queue' = SaveFrame(MarkWaiting(queue, w), f)
    PROVE  Saves(w, f)
  <1> DEFINE q == MarkWaiting(queue, w)
  <1>1. /\ queue \in Seq(TaskData) /\ cur \in Indices(queue) /\ cur + 1 \in 1 .. Len(queue)
        /\ queue[cur + 1] \in TaskData
    BY UserFacts
  <1>2. /\ q \in Seq(TaskData) /\ Len(q) = Len(queue) /\ Indices(q) = Indices(queue)
        /\ \A j \in 1 .. Len(queue) :
              q[j] = IF j = cur + 1 THEN Waiting(queue[cur + 1], w) ELSE queue[j]
    BY <1>1, MarkWaitingFacts
  <1> HIDE DEF q
  <1>3. /\ SaveFrame(q, f) \in Seq(TaskData)
        /\ Len(SaveFrame(q, f)) = Len(q)
        /\ \A j \in 1 .. Len(q) :
              SaveFrame(q, f)[j] = IF j = cur + 1 THEN Framed(q[cur + 1], f) ELSE q[j]
    BY <1>1, <1>2, SaveFrameFacts
  <1>4. queue' = SaveFrame(q, f)
    BY DEF q
  <1>5. q[cur + 1] = Waiting(queue[cur + 1], w) /\ q[cur + 1] \in TaskData
    BY <1>1, <1>2, WaitingFields
  <1>6. queue'[cur + 1] = Framed(q[cur + 1], f)
    BY <1>1, <1>2, <1>3, <1>4
  <1>7. /\ Waiting(queue[cur + 1], w).task_id = queue[cur + 1].task_id
        /\ Waiting(queue[cur + 1], w).thread_id = queue[cur + 1].thread_id
        /\ Waiting(queue[cur + 1], w).waiting_on = w
    BY <1>1, WaitingFields
  <1>8. /\ queue'[cur + 1].task_id = q[cur + 1].task_id
        /\ queue'[cur + 1].thread_id = q[cur + 1].thread_id
        /\ queue'[cur + 1].waiting_on = q[cur + 1].waiting_on
        /\ queue'[cur + 1].trap_frame = f
    BY <1>5, <1>6, FramedFields
  <1>9. \A j \in 1 .. Len(queue) : j # cur + 1 => queue'[j] = queue[j]
    BY <1>1, <1>2, <1>3, <1>4
  <1> QED
    BY <1>2, <1>3, <1>4, <1>5, <1>7, <1>8, <1>9 DEF Saves, ThreadOf

LEMMA LoadEffect ==
    ASSUME NEW q, NEW f, AdvanceTask(q, f)
    PROVE  queue' = SaveFrame(q, f) /\ Loads
  BY DEF AdvanceTask, Advances, LoadEntry, Idle, Loads

\* One more entry, for a new thread of the caller's task.
Grows ==
    /\ queue' \in Seq(TaskData)
    /\ Len(queue') = Len(queue) + 1
    /\ \A j \in 1 .. Len(queue) :
          /\ j # cur + 1 => queue'[j] = queue[j]
          /\ ThreadOf(queue'[j]) = ThreadOf(queue[j])
          /\ queue'[j].task_id = queue[j].task_id
          /\ queue'[j].waiting_on = queue[j].waiting_on
    /\ LET new == queue'[Len(queue) + 1]
           id  == queue[cur + 1].task_id
       IN /\ new.task_id = id
          /\ ThreadOf(new) = <<id, threads[id]>>
          /\ new.waiting_on = "None"
          /\ Context(new.trap_frame) = [pc |-> "spawn_raw", a0 |-> id, a1 |-> threads[id]]
    /\ regs'.thr = regs.thr /\ regs'.pc = "spawn_raw"
    /\ UNCHANGED <<cur, satp, awaiting, kernel>>

LEMMA SpawnEffect ==
    ASSUME SwitchInv, Spawn("spawn_raw")
    PROVE  Grows
  <1> DEFINE f     == EcallFrame("spawn_raw")
             saved == SaveFrame(queue, f)
             id    == At(saved, cur).task_id
             tid   == threads[id]
             child == [At(saved, cur) EXCEPT
                          !.thread_id = tid,
                          !.trap_frame.thr = <<id, tid>>,
                          !.trap_frame.a0 = id,
                          !.trap_frame.a1 = tid]
             n     == Len(queue)
  <1>1. kernel = "user"
    BY DEF Spawn, Makes, InUser
  <1>2. /\ queue \in Seq(TaskData) /\ n \in Nat /\ cur \in Indices(queue)
        /\ cur + 1 \in 1 .. n
        /\ queue[cur + 1] \in TaskData /\ queue[cur + 1].waiting_on = "None"
    BY <1>1, UserFacts
  <1>3. f \in Frames /\ f.thr = regs.thr /\ f.pc = "spawn_raw"
    BY EcallFrameType DEF SwitchInv, CallNames
  <1>4. /\ queue' = Append(saved, child)
        /\ regs' = [f EXCEPT !.a0 = 0]
        /\ UNCHANGED <<cur, satp, awaiting, kernel>>
    BY DEF Spawn
  <1>5. /\ saved \in Seq(TaskData)
        /\ Len(saved) = n
        /\ \A j \in 1 .. n :
              saved[j] = IF j = cur + 1 THEN Framed(queue[cur + 1], f) ELSE queue[j]
    BY <1>2, <1>3, SaveFrameFacts
  <1>6. /\ saved[cur + 1] = Framed(queue[cur + 1], f)
        /\ At(saved, cur) = saved[cur + 1]
        /\ saved[cur + 1] \in TaskData
    BY <1>2, <1>3, <1>5, FramedFields DEF At
  <1> HIDE DEF f, saved
  <1>7. /\ saved[cur + 1].task_id = queue[cur + 1].task_id
        /\ saved[cur + 1].thread_id = queue[cur + 1].thread_id
        /\ saved[cur + 1].waiting_on = "None"
        /\ saved[cur + 1].trap_frame = f
    BY <1>2, <1>3, <1>6, FramedFields
  <1>8. id \in Tasks /\ tid \in Nat /\ id = queue[cur + 1].task_id
    BY <1>6, <1>7 DEF SwitchInv, TypeOK, TaskData
  <1>9. /\ child.task_id = id /\ child.thread_id = tid /\ child.waiting_on = "None"
        /\ child.trap_frame.pc = "spawn_raw"
        /\ child.trap_frame.a0 = id /\ child.trap_frame.a1 = tid
        /\ child \in TaskData
    <2>1. id \in Nat /\ <<id, tid>> \in Threads
      BY <1>8, TasksFacts DEF Threads
    <2> HIDE DEF id, tid
    <2> QED
      BY <1>3, <1>6, <1>7, <1>8, <2>1 DEF TaskData, Frames
  <1> HIDE DEF child, id, tid
  <1>10. /\ queue' \in Seq(TaskData)
         /\ Len(queue') = n + 1
         /\ \A j \in 1 .. n : queue'[j] = saved[j]
         /\ queue'[n + 1] = child
    BY <1>2, <1>4, <1>5, <1>9
  <1>11. regs'.thr = regs.thr /\ regs'.pc = "spawn_raw"
    BY <1>3, <1>4 DEF Frames
  <1>12. ASSUME NEW j \in 1 .. n
         PROVE  /\ j # cur + 1 => queue'[j] = queue[j]
                /\ ThreadOf(queue'[j]) = ThreadOf(queue[j])
                /\ queue'[j].task_id = queue[j].task_id
                /\ queue'[j].waiting_on = queue[j].waiting_on
    BY <1>2, <1>5, <1>7, <1>10 DEF ThreadOf
  <1> QED
    BY <1>4, <1>8, <1>9, <1>10, <1>11, <1>12 DEF Grows, ThreadOf, Context, tid

\* One character for every entry that is listed and waits for it.
Delivers(c) ==
    /\ queue' \in Seq(TaskData)
    /\ Len(queue') = Len(queue)
    /\ \A j \in 1 .. Len(queue) :
          /\ queue'[j].task_id = queue[j].task_id
          /\ ThreadOf(queue'[j]) = ThreadOf(queue[j])
          /\ ~Woken(queue, awaiting, j) => queue'[j] = queue[j]
          /\ Woken(queue, awaiting, j) =>
                /\ queue'[j].waiting_on = "None"
                /\ queue'[j].trap_frame.pc = queue[j].trap_frame.pc
                /\ queue'[j].trap_frame.a0 = c
                /\ queue'[j].trap_frame.a1 = queue[j].trap_frame.a1
    /\ queue'[cur + 1] = queue[cur + 1]
    /\ UNCHANGED <<cur, regs, satp, threads, kernel>>

LEMMA UartEffect ==
    ASSUME SwitchInv, NEW c \in Chars, UartInterrupt(c)
    PROVE  Delivers(c)
  <1> DEFINE n == Len(queue)
  <1>1. /\ kernel = "user" /\ queue' = Deliver(queue, awaiting, c) /\ c \in Nat
        /\ UNCHANGED <<cur, regs, satp, threads, kernel>>
    BY CharsAssumption DEF UartInterrupt
  <1>2. /\ queue \in Seq(TaskData) /\ cur + 1 \in 1 .. n
        /\ queue[cur + 1].waiting_on = "None"
    BY <1>1, UserFacts
  <1>3. /\ queue' \in Seq(TaskData)
        /\ Len(queue') = n
        /\ \A j \in 1 .. n :
              queue'[j] = IF Woken(queue, awaiting, j) THEN Given(queue[j], c) ELSE queue[j]
    BY <1>1, <1>2, DeliverFacts
  <1>4. queue'[cur + 1] = queue[cur + 1]
    BY <1>2, <1>3 DEF Woken
  <1>5. \A j \in 1 .. n : queue[j] \in TaskData
    BY <1>2, ElementOfSeq
  <1>6. ASSUME NEW j \in 1 .. n
        PROVE  /\ queue'[j].task_id = queue[j].task_id
               /\ ThreadOf(queue'[j]) = ThreadOf(queue[j])
               /\ ~Woken(queue, awaiting, j) => queue'[j] = queue[j]
               /\ Woken(queue, awaiting, j) =>
                     /\ queue'[j].waiting_on = "None"
                     /\ queue'[j].trap_frame.pc = queue[j].trap_frame.pc
                     /\ queue'[j].trap_frame.a0 = c
                     /\ queue'[j].trap_frame.a1 = queue[j].trap_frame.a1
    <2>1. CASE Woken(queue, awaiting, j)
      <3>1. queue'[j] = Given(queue[j], c)
        BY <1>3, <2>1
      <3> QED
        BY <1>1, <1>5, <2>1, <3>1, GivenFields DEF ThreadOf
    <2>2. CASE ~Woken(queue, awaiting, j)
      <3>1. queue'[j] = queue[j]
        BY <1>3, <2>2
      <3> QED
        BY <2>2, <3>1
    <2> QED
      BY <2>1, <2>2
  <1> QED
    BY <1>1, <1>3, <1>4, <1>6 DEF Delivers

-----------------------------------------------------------------------------
(* The kinds of step of a kernel none of whose threads ends *)

\* The thread on the hart is one of a program that makes this call.
Calling(call) ==
    /\ kernel = "user"
    /\ regs.pc = "run"
    /\ call \in Calls[queue[cur + 1].task_id]

Preempted ==
    /\ kernel = "user"
    /\ Saves("None", regs) /\ Loads
    /\ UNCHANGED <<awaiting, threads>>

\* A call whose handler switches to another thread, to leave the caller waiting for w.
Switches(call, w) ==
    /\ Calling(call)
    /\ \E f \in Frames : f.pc = call /\ Saves(w, f)
    /\ Loads
    /\ awaiting' = IF call = "in_char" THEN Append(awaiting, queue[cur + 1].task_id)
                                       ELSE awaiting
    /\ UNCHANGED threads

Exits ==
    /\ Calling("exit")
    /\ \E f \in Frames : Saves("None", f)
    /\ kernel' # "user"
    /\ UNCHANGED <<awaiting, threads>>

Spawns ==
    /\ Calling("spawn_raw")
    /\ Grows
    /\ threads' = [threads EXCEPT ![queue[cur + 1].task_id] = @ + 1]

Types ==
    /\ kernel = "user"
    /\ ~ListedTaskGone
    /\ \E c \in Chars : Delivers(c)
    /\ awaiting' = << >>

Resumes ==
    /\ kernel = "user"
    /\ regs.pc \in {"forfeit", "in_char", "spawn_raw"}
    /\ Context(regs') = [pc |-> "run", a0 |-> 0, a1 |-> 0]
    /\ UNCHANGED <<queue, cur, awaiting, threads, kernel>>

\* The kernel stops for one of three reasons, or has stopped already.
Stops ==
    /\ kernel' # "user"
    /\ kernel = "user" => ListedTaskGone \/ Calling("extend_heap") \/ Calling("fault")
    /\ kernel # "user" => UNCHANGED <<cur, regs>>
    /\ UNCHANGED <<queue, awaiting, threads>>

LEMMA StepKinds ==
    ASSUME NoDrops, SwitchInv, Next
    PROVE  \/ Preempted
           \/ \E call \in {"forfeit", "in_char", "ebreak"} :
                 Switches(call, CASE call = "forfeit" -> "None"
                                  [] call = "in_char" -> "CharIn"
                                  [] call = "ebreak" -> "Breakpoint")
           \/ Exits \/ Spawns \/ Types \/ Resumes \/ Stops
  <1>r. regs \in Frames
    BY DEF SwitchInv, TypeOK
  <1>m. ASSUME NEW call \in CallNames, Makes(call)
        PROVE  /\ kernel = "user" /\ Calling(call)
               /\ call \notin {"drop", "spawn_thread"}
               /\ EcallFrame(call) \in Frames /\ EcallFrame(call).pc = call
    <2>1. kernel = "user" /\ regs.pc = "run" /\ call \in Calls[regs.thr[1]]
      BY <1>m DEF Makes, InUser
    <2>2. regs.thr[1] = queue[cur + 1].task_id
      BY <2>1, UserFacts
    <2>3. regs.thr[1] \in Tasks
      BY <1>r DEF Frames, Threads
    <2>4. call \notin {"drop", "spawn_thread"}
      BY <2>1, <2>3 DEF NoDrops
    <2>5. EcallFrame(call) \in Frames /\ EcallFrame(call).pc = call
      BY EcallFrameType DEF SwitchInv
    <2> QED
      BY <2>1, <2>2, <2>4, <2>5 DEF Calling
  <1>1. CASE Timer
    <2>1. kernel = "user" /\ AdvanceTask(queue, regs) /\ UNCHANGED <<awaiting, threads>>
      BY <1>1 DEF Timer, InUser
    <2>2. queue' = SaveFrame(queue, regs) /\ Loads
      BY <2>1, LoadEffect
    <2>3. Saves("None", regs)
      BY <1>r, <2>1, <2>2, SaveEffect
    <2> QED
      BY <2>1, <2>2, <2>3 DEF Preempted
  <1>2. CASE Uart
    <2>1. PICK c \in Chars : UartInterrupt(c)
      BY <1>2 DEF Uart
    <2>2. Delivers(c)
      BY <2>1, UartEffect
    <2> QED
      BY <2>1, <2>2 DEF Types, UartInterrupt
  <1>3. CASE UartPanic
    BY <1>3 DEF UartPanic, Stop, Stops
  <1>4. CASE CurrentMissing
    BY <1>4 DEF CurrentMissing, SwitchInv, CurrentIsLoaded
  <1>5. CASE IdleTimer \/ IdleUart \/ IdleUartNobody
    BY <1>5 DEF IdleTimer, IdleUart, IdleUartNobody, Stop, Stops
  <1>8. CASE Forfeit
    <2> DEFINE f == EcallFrame("forfeit")
    <2>1. /\ Makes("forfeit") /\ AdvanceTask(queue, f) /\ UNCHANGED <<awaiting, threads>>
      BY <1>8 DEF Forfeit
    <2>2. kernel = "user" /\ Calling("forfeit") /\ f \in Frames /\ f.pc = "forfeit"
      BY <1>m, <2>1 DEF CallNames
    <2>3. queue' = SaveFrame(queue, f) /\ Loads
      BY <2>1, LoadEffect
    <2> HIDE DEF f
    <2>4. Saves("None", f)
      BY <2>2, <2>3, SaveEffect
    <2>5. Switches("forfeit", "None")
      BY <2>1, <2>2, <2>3, <2>4 DEF Switches
    <2> QED
      BY <2>5
  <1>9. CASE InChar
    <2> DEFINE f == EcallFrame("in_char")
    <2>1. /\ Makes("in_char") /\ AdvanceTask(MarkWaiting(queue, "CharIn"), f)
          /\ awaiting' = Append(awaiting, queue[cur + 1].task_id) /\ UNCHANGED threads
      BY <1>9 DEF InChar, At
    <2>2. kernel = "user" /\ Calling("in_char") /\ f \in Frames /\ f.pc = "in_char"
      BY <1>m, <2>1 DEF CallNames
    <2>3. queue' = SaveFrame(MarkWaiting(queue, "CharIn"), f) /\ Loads
      BY <2>1, LoadEffect
    <2> HIDE DEF f
    <2>4. Saves("CharIn", f)
      BY <2>2, <2>3, MarkEffect DEF WaitSrc
    <2>5. Switches("in_char", "CharIn")
      BY <2>1, <2>2, <2>3, <2>4 DEF Switches
    <2> QED
      BY <2>5
  <1>10. CASE \E call \in {"spawn_raw", "spawn_thread"} : Spawn(call)
    <2>1. PICK call \in {"spawn_raw", "spawn_thread"} : Spawn(call)
      BY <1>10
    <2>2. Makes(call) /\ call \in CallNames
      BY <2>1 DEF Spawn, CallNames
    <2>3. call = "spawn_raw" /\ kernel = "user" /\ Calling(call)
      BY <1>m, <2>1, <2>2
    <2>4. Grows
      BY <2>1, <2>3, SpawnEffect
    <2>5. threads' = [threads EXCEPT ![queue[cur + 1].task_id] = @ + 1]
      <3>1. Spawn("spawn_raw")
        BY <2>1, <2>3
      <3>2. EcallFrame("spawn_raw") \in Frames
        BY <2>2, <2>3, <1>m
      <3>3. /\ cur \in Indices(queue) /\ queue \in Seq(TaskData)
            /\ cur + 1 \in 1 .. Len(queue) /\ queue[cur + 1] \in TaskData
        BY <2>3, UserFacts
      <3>4. SaveFrame(queue, EcallFrame("spawn_raw"))[cur + 1]
               = Framed(queue[cur + 1], EcallFrame("spawn_raw"))
        BY <3>2, <3>3, SaveFrameFacts
      <3>5. At(SaveFrame(queue, EcallFrame("spawn_raw")), cur).task_id = queue[cur + 1].task_id
        BY <3>2, <3>3, <3>4, FramedFields DEF At
      <3> QED
        BY <3>1, <3>5 DEF Spawn
    <2> QED
      BY <2>3, <2>4, <2>5 DEF Spawns
  <1>11. CASE DropThread
    <2>1. Makes("drop") /\ "drop" \in CallNames
      BY <1>11 DEF DropThread, EndPcs, CallNames, SwitchInv, NoneEnding
    <2> QED
      BY <1>m, <2>1
  <1>12. CASE Exit
    <2> DEFINE f == EcallFrame("exit")
    <2>1. /\ Makes("exit") /\ queue' = SaveFrame(queue, f) /\ UNCHANGED <<awaiting, threads>>
          /\ kernel' # "user"
      BY <1>12 DEF Exit, Idle
    <2>2. kernel = "user" /\ Calling("exit") /\ f \in Frames
      BY <1>m, <2>1 DEF CallNames
    <2> HIDE DEF f
    <2>3. Saves("None", f)
      BY <2>1, <2>2, SaveEffect
    <2> QED
      BY <2>1, <2>2, <2>3 DEF Exits
  <1>13. CASE ExtendHeap
    <2>1. Calling("extend_heap")
      BY <1>13, <1>m DEF ExtendHeap, CallNames
    <2> QED
      BY <1>13, <2>1 DEF ExtendHeap, Stops, Calling
  <1>14. CASE Breakpoint
    <2> DEFINE f == [regs EXCEPT !.pc = "ebreak"]
    <2>1. /\ Makes("ebreak") /\ AdvanceTask(MarkWaiting(queue, "Breakpoint"), f)
          /\ UNCHANGED <<awaiting, threads>>
      BY <1>14 DEF Breakpoint
    <2>2. kernel = "user" /\ Calling("ebreak")
      BY <1>m, <2>1 DEF CallNames
    <2>3. f \in Frames /\ f.pc = "ebreak"
      BY <1>r DEF Frames, Pcs, CallNames
    <2>4. queue' = SaveFrame(MarkWaiting(queue, "Breakpoint"), f) /\ Loads
      BY <2>1, LoadEffect
    <2> HIDE DEF f
    <2>5. Saves("Breakpoint", f)
      BY <2>2, <2>3, <2>4, MarkEffect DEF WaitSrc
    <2>6. Switches("ebreak", "Breakpoint")
      BY <2>1, <2>2, <2>3, <2>4, <2>5 DEF Switches
    <2> QED
      BY <2>6
  <1>15. CASE UserFault
    <2>1. Calling("fault")
      BY <1>15, <1>m DEF UserFault, CallNames
    <2> QED
      BY <1>15, <2>1 DEF UserFault, Stops, Calling
  <1>16. CASE Return
    <2>1. /\ kernel = "user" /\ regs.pc \in {"forfeit", "in_char", "spawn_raw"}
          /\ UNCHANGED <<queue, cur, awaiting, threads, kernel>>
      BY <1>16 DEF Return, SwitchInv, NoneEnding, EndPcs
    <2>2. regs' = [regs EXCEPT !.pc = "run", !.a0 = 0, !.a1 = 0]
      BY <1>16, <2>1 DEF Return
    <2>3. Context(regs') = [pc |-> "run", a0 |-> 0, a1 |-> 0]
      BY <1>r, <2>2 DEF Context, Frames
    <2> QED
      BY <2>1, <2>3 DEF Resumes
  <1> QED
    BY <1>1, <1>2, <1>3, <1>4, <1>5, <1>8, <1>9, <1>10, <1>11, <1>12, <1>13, <1>14, <1>15, <1>16
       DEF Next

\* The same for [Next]_vars, with the waits spelled out.
Keeps == UNCHANGED <<queue, cur, regs, awaiting, threads, kernel>>

LEMMA NextKinds ==
    ASSUME NoDrops, SwitchInv, [Next]_vars
    PROVE  \/ Preempted \/ Switches("forfeit", "None") \/ Switches("in_char", "CharIn")
           \/ Switches("ebreak", "Breakpoint") \/ Exits \/ Spawns \/ Types \/ Resumes
           \/ Stops \/ Keeps
  <1>1. CASE UNCHANGED vars
    BY <1>1 DEF vars, Keeps
  <1>2. CASE Next
    <2>1. ASSUME NEW call \in {"forfeit", "in_char", "ebreak"},
                 Switches(call, CASE call = "forfeit" -> "None"
                                  [] call = "in_char" -> "CharIn"
                                  [] call = "ebreak" -> "Breakpoint")
          PROVE  \/ Switches("forfeit", "None") \/ Switches("in_char", "CharIn")
                 \/ Switches("ebreak", "Breakpoint")
      BY <2>1
    <2> QED
      BY <1>2, <2>1, StepKinds
  <1> QED
    BY <1>1, <1>2

-----------------------------------------------------------------------------
(* Whoever waits for a character is found *)

\* A program that reads characters has one thread: find_task_mut finds the
\* first entry of a task only, so a second thread may never be woken.
ReadersAlone ==
    \A t \in Tasks : "in_char" \in Calls[t] => "spawn_raw" \notin Calls[t]

Reader(i) == "in_char" \in Calls[queue[i].task_id]

ReaderInv ==
    /\ \A i, j \in DOMAIN queue :
          Reader(i) /\ queue[i].task_id = queue[j].task_id => i = j
    /\ \A i \in DOMAIN queue :
          queue[i].waiting_on = "CharIn" =>
             Reader(i) /\ \E k \in DOMAIN awaiting : awaiting[k] = queue[i].task_id

LEMMA ReaderListed ==
    ASSUME TypeOK, ReaderInv
    PROVE  WaitersListed
  <1> SUFFICES ASSUME NEW i \in DOMAIN queue, queue[i].waiting_on = "CharIn"
               PROVE  \E k \in DOMAIN awaiting : FirstOf(queue, awaiting[k], i)
    BY DEF WaitersListed
  <1>1. PICK k \in DOMAIN awaiting : awaiting[k] = queue[i].task_id
    BY DEF ReaderInv
  <1>2. DOMAIN queue = 1 .. Len(queue) /\ Len(queue) \in Nat
    BY DEF TypeOK
  <1>3. \A j \in 1 .. i - 1 : j \in DOMAIN queue /\ j # i
    BY <1>2
  <1>4. \A j \in 1 .. i - 1 : queue[j].task_id # awaiting[k]
    BY <1>1, <1>3 DEF ReaderInv
  <1> QED
    BY <1>1, <1>4 DEF FirstOf

LEMMA ReaderInit == Init => ReaderInv
  <1> SUFFICES ASSUME Init PROVE ReaderInv
    OBVIOUS
  <1>1. /\ DOMAIN queue = 1 .. Len(Loaded)
        /\ \A i \in DOMAIN queue : queue[i] = LoadedEntry(Loaded[i])
    BY TasksFacts DEF Init
  <1>2. \A i \in DOMAIN queue :
           queue[i].task_id = Loaded[i] /\ queue[i].waiting_on = "None"
    BY <1>1 DEF LoadedEntry
  <1>3. DOMAIN Loaded = 1 .. Len(Loaded)
    BY TasksFacts
  <1> QED
    BY <1>1, <1>2, <1>3, LoadedAssumption DEF ReaderInv

\* The queue keeps its entries and nobody new waits; the list keeps its own.
LEMMA ReaderSame ==
    ASSUME ReaderInv, TypeOK, queue' \in Seq(TaskData), Len(queue') = Len(queue),
           \A j \in 1 .. Len(queue) :
              /\ queue'[j].task_id = queue[j].task_id
              /\ queue'[j].waiting_on = "CharIn" => queue[j].waiting_on = "CharIn",
           awaiting' = awaiting
    PROVE  ReaderInv'
  <1>1. /\ DOMAIN queue = 1 .. Len(queue) /\ DOMAIN queue' = 1 .. Len(queue)
    BY DEF TypeOK
  <1> QED
    BY <1>1 DEF ReaderInv, Reader

LEMMA ReaderStep ==
    ASSUME NoDrops, ReadersAlone
    PROVE  SwitchInv /\ ReaderInv /\ [Next]_vars => ReaderInv'
  <1> SUFFICES ASSUME SwitchInv, ReaderInv, [Next]_vars
               PROVE  ReaderInv'
    OBVIOUS
  <1>t. /\ TypeOK /\ queue \in Seq(TaskData) /\ Len(queue) \in Nat
        /\ DOMAIN queue = 1 .. Len(queue) /\ awaiting \in Seq(Tasks)
    BY DEF SwitchInv, TypeOK
  <1>s. ASSUME NEW f, Saves("None", f), kernel = "user", awaiting' = awaiting
        PROVE  ReaderInv'
    <2>1. ASSUME NEW j \in 1 .. Len(queue)
          PROVE  /\ queue'[j].task_id = queue[j].task_id
                 /\ queue'[j].waiting_on = "CharIn" => queue[j].waiting_on = "CharIn"
      BY <1>s DEF Saves
    <2> QED
      BY <1>s, <1>t, <2>1, ReaderSame DEF Saves
  <1>w. ASSUME NEW f, NEW w \in {"None", "Breakpoint"}, Saves(w, f), kernel = "user",
               awaiting' = awaiting
        PROVE  ReaderInv'
    <2>1. ASSUME NEW j \in 1 .. Len(queue)
          PROVE  /\ queue'[j].task_id = queue[j].task_id
                 /\ queue'[j].waiting_on = "CharIn" => queue[j].waiting_on = "CharIn"
      BY <1>w DEF Saves
    <2> QED
      BY <1>w, <1>t, <2>1, ReaderSame DEF Saves
  <1>1. CASE Preempted
    BY <1>1, <1>s DEF Preempted
  <1>2. CASE Switches("forfeit", "None")
    BY <1>2, <1>s DEF Switches, Calling
  <1>3. CASE Switches("in_char", "CharIn")
    <2>1. PICK f \in Frames : Saves("CharIn", f)
      BY <1>3 DEF Switches
    <2> DEFINE id == queue[cur + 1].task_id
    <2>2. /\ awaiting' = Append(awaiting, id)
          /\ kernel = "user" /\ "in_char" \in Calls[id]
      BY <1>3 DEF Switches, Calling
    <2>3. cur + 1 \in 1 .. Len(queue) /\ queue[cur + 1] \in TaskData
      BY <2>2, UserFacts
    <2>4. id \in Tasks
      BY <2>3 DEF TaskData
    <2> HIDE DEF id
    <2>5. /\ \A k \in DOMAIN awaiting : k \in DOMAIN awaiting' /\ awaiting'[k] = awaiting[k]
          /\ Len(awaiting) + 1 \in DOMAIN awaiting' /\ awaiting'[Len(awaiting) + 1] = id
      BY <1>t, <2>2, <2>4
    <2>6. DOMAIN queue' = DOMAIN queue /\ \A j \in DOMAIN queue : queue'[j].task_id = queue[j].task_id
      BY <1>t, <2>1 DEF Saves
    <2>7. ASSUME NEW i \in DOMAIN queue, queue'[i].waiting_on = "CharIn"
          PROVE  /\ "in_char" \in Calls[queue'[i].task_id]
                 /\ \E k \in DOMAIN awaiting' : awaiting'[k] = queue'[i].task_id
      <3>1. CASE i = cur + 1
        BY <2>2, <2>5, <2>6, <3>1 DEF id
      <3>2. CASE i # cur + 1
        <4>1. queue[i].waiting_on = "CharIn"
          BY <1>t, <2>1, <2>7, <3>2 DEF Saves
        <4>2. Reader(i) /\ \E k \in DOMAIN awaiting : awaiting[k] = queue[i].task_id
          BY <4>1 DEF ReaderInv
        <4> QED
          BY <2>5, <2>6, <4>2 DEF Reader
      <3> QED
        BY <3>1, <3>2
    <2> QED
      BY <2>6, <2>7 DEF ReaderInv, Reader
  <1>4. CASE Switches("ebreak", "Breakpoint")
    BY <1>4, <1>w DEF Switches, Calling
  <1>5. CASE Exits
    BY <1>5, <1>s DEF Exits, Calling
  <1>6. CASE Spawns
    <2> DEFINE n == Len(queue)
               id == queue[cur + 1].task_id
    <2>1. /\ Grows /\ "spawn_raw" \in Calls[id] /\ kernel = "user"
      BY <1>6 DEF Spawns, Calling
    <2>2. cur + 1 \in 1 .. n /\ queue[cur + 1] \in TaskData
      BY <2>1, UserFacts
    <2>3. id \in Tasks
      BY <2>2 DEF TaskData
    <2>4. "in_char" \notin Calls[id]
      BY <2>1, <2>3 DEF ReadersAlone
    <2>5. /\ DOMAIN queue' = 1 .. n + 1
          /\ \A j \in 1 .. n : /\ queue'[j].task_id = queue[j].task_id
                               /\ queue'[j].waiting_on = queue[j].waiting_on
          /\ queue'[n + 1].task_id = id /\ queue'[n + 1].waiting_on = "None"
          /\ awaiting' = awaiting
      BY <1>t, <2>1 DEF Grows
    <2>6. \A i \in 1 .. n + 1 : i \in DOMAIN queue \/ i = n + 1
      BY <1>t
    <2> HIDE DEF n, id
    <2>7. ASSUME NEW i \in DOMAIN queue', NEW j \in DOMAIN queue', Reader(i)',
                 queue'[i].task_id = queue'[j].task_id
          PROVE  i = j
      <3>1. queue'[i].task_id # id
        BY <2>4, <2>7 DEF Reader
      <3>2. i \in DOMAIN queue /\ j \in DOMAIN queue
        BY <2>5, <2>6, <2>7, <3>1
      <3> QED
        BY <1>t, <2>5, <2>7, <3>2 DEF ReaderInv, Reader, n
    <2>8. ASSUME NEW i \in DOMAIN queue', queue'[i].waiting_on = "CharIn"
          PROVE  Reader(i)' /\ \E k \in DOMAIN awaiting' : awaiting'[k] = queue'[i].task_id
      <3>1. i \in DOMAIN queue
        BY <2>5, <2>6, <2>8
      <3> QED
        BY <1>t, <2>5, <2>8, <3>1 DEF ReaderInv, Reader, n
    <2> QED
      BY <2>7, <2>8 DEF ReaderInv
  <1>7. CASE Types
    <2>1. PICK c \in Chars : Delivers(c)
      BY <1>7 DEF Types
    <2>2. /\ DOMAIN queue' = DOMAIN queue
          /\ \A j \in DOMAIN queue : queue'[j].task_id = queue[j].task_id
      BY <1>t, <2>1 DEF Delivers
    <2>3. ASSUME NEW j \in DOMAIN queue
          PROVE  queue'[j].waiting_on # "CharIn"
      <3>1. CASE Woken(queue, awaiting, j)
        BY <1>t, <2>1, <3>1 DEF Delivers
      <3>2. CASE ~Woken(queue, awaiting, j)
        <4>1. queue[j].waiting_on # "CharIn"
          BY <1>t, <3>2, ReaderListed DEF WaitersListed, Woken
        <4> QED
          BY <1>t, <2>1, <3>2, <4>1 DEF Delivers
      <3> QED
        BY <3>1, <3>2
    <2> QED
      BY <2>2, <2>3 DEF ReaderInv, Reader
  <1>8. CASE Resumes \/ Stops \/ Keeps
    BY <1>8 DEF Resumes, Stops, Keeps, ReaderInv, Reader
  <1> QED
    BY <1>1, <1>2, <1>3, <1>4, <1>5, <1>6, <1>7, <1>8, NextKinds

\* uart.rs, uart_handler: no thread that waits for a character is passed over, as
\* long as programs that read have one thread and none ends a thread alone.
THEOREM WaitersAlwaysListed ==
    ASSUME NoDrops, ReadersAlone
    PROVE  Spec => []WaitersListed
  <1> DEFINE Inv == SwitchInv /\ ReaderInv
  <1>1. Inv => WaitersListed
    BY ReaderListed DEF SwitchInv
  <1>2. Init => Inv
    BY InitSwitch, ReaderInit
  <1>3. Inv /\ [Next]_vars => Inv'
    BY NextSwitch, ReaderStep
  <1> QED
    BY <1>1, <1>2, <1>3, PTL DEF Spec

-----------------------------------------------------------------------------
(* in_char returns what was typed *)

\* A thread that is not on the hart and no longer waits has its character.
CharHeld ==
    kernel = "user" =>
        /\ regs.pc = "in_char" => regs.a0 \in Chars
        /\ \A i \in DOMAIN queue :
              /\ i # cur + 1
              /\ queue[i].waiting_on = "None"
              /\ queue[i].trap_frame.pc = "in_char"
              => queue[i].trap_frame.a0 \in Chars

LEMMA HeldInit == Init => CharHeld
  <1> SUFFICES ASSUME Init PROVE CharHeld
    OBVIOUS
  <1>1. /\ DOMAIN queue = 1 .. Len(Loaded)
        /\ \A i \in DOMAIN queue : queue[i] = LoadedEntry(Loaded[i])
    BY TasksFacts DEF Init
  <1> QED
    BY <1>1 DEF Init, CharHeld, LoadedEntry, NewFrame

\* A switch away from a thread that waits, or is through with in_char and has
\* its character.
LEMMA HeldSwitch ==
    ASSUME SwitchInv, CharHeld, kernel = "user", NEW w, NEW f, Saves(w, f), Loads,
           w = "None" /\ f.pc = "in_char" => f.a0 \in Chars
    PROVE  CharHeld'
  <1>1. /\ queue \in Seq(TaskData) /\ DOMAIN queue = 1 .. Len(queue) /\ Len(queue) \in Nat
        /\ cur + 1 \in 1 .. Len(queue)
    BY UserFacts
  <1>2. DOMAIN queue' = DOMAIN queue
    BY <1>1 DEF Saves
  <1>3. ASSUME NEW i \in DOMAIN queue, queue'[i].waiting_on = "None",
               queue'[i].trap_frame.pc = "in_char"
        PROVE  queue'[i].trap_frame.a0 \in Chars
    <2>1. CASE i = cur + 1
      BY <1>3, <2>1 DEF Saves
    <2>2. CASE i # cur + 1
      <3>1. queue'[i] = queue[i]
        BY <1>1, <2>2 DEF Saves
      <3> QED
        BY <1>3, <2>2, <3>1 DEF CharHeld
    <2> QED
      BY <2>1, <2>2
  <1>4. CASE kernel' = "idle"
    BY <1>4 DEF CharHeld
  <1>5. CASE \E i \in Indices(queue') :
                /\ cur' = i
                /\ Runnable(queue', i)
                /\ regs' = At(queue', i).trap_frame
    <2>1. PICK i \in Indices(queue') :
             Runnable(queue', i) /\ regs' = At(queue', i).trap_frame
      BY <1>5
    <2>2. i + 1 \in DOMAIN queue
      BY <1>1, <1>2, <2>1 DEF Indices, Saves
    <2>3. regs'.pc = "in_char" => regs'.a0 \in Chars
      BY <1>3, <2>1, <2>2 DEF Runnable, At
    <2> QED
      BY <1>2, <1>3, <2>3 DEF CharHeld
  <1> QED
    BY <1>4, <1>5 DEF Loads

LEMMA HeldStep ==
    ASSUME NoDrops
    PROVE  SwitchInv /\ CharHeld /\ [Next]_vars => CharHeld'
  <1> SUFFICES ASSUME SwitchInv, CharHeld, [Next]_vars, kernel' = "user"
               PROVE  CharHeld'
    BY DEF CharHeld
  <1>1. CASE Preempted
    BY <1>1, HeldSwitch DEF Preempted, CharHeld
  <1>2. CASE Switches("forfeit", "None")
    <2>1. PICK f \in Frames : f.pc = "forfeit" /\ Saves("None", f)
      BY <1>2 DEF Switches
    <2> QED
      BY <1>2, <2>1, HeldSwitch DEF Switches, Calling
  <1>3. CASE Switches("in_char", "CharIn")
    BY <1>3, HeldSwitch DEF Switches, Calling
  <1>4. CASE Switches("ebreak", "Breakpoint")
    BY <1>4, HeldSwitch DEF Switches, Calling
  <1>6. CASE Spawns
    <2> DEFINE n == Len(queue)
    <2>1. Grows /\ kernel = "user"
      BY <1>6 DEF Spawns, Calling
    <2>2. DOMAIN queue = 1 .. n /\ n \in Nat
      BY <2>1, UserFacts
    <2>3. DOMAIN queue' = 1 .. n + 1
      BY <2>1, <2>2 DEF Grows
    <2>4. /\ queue'[n + 1].trap_frame.pc = "spawn_raw"
          /\ regs'.pc = "spawn_raw" /\ cur' = cur
          /\ \A j \in 1 .. n : j # cur + 1 => queue'[j] = queue[j]
      BY <2>1 DEF Grows, Context
    <2>5. \A i \in 1 .. n + 1 : i \in DOMAIN queue \/ i = n + 1
      BY <2>2
    <2> HIDE DEF n
    <2> QED
      BY <2>1, <2>2, <2>3, <2>4, <2>5 DEF CharHeld
  <1>7. CASE Types
    <2>1. PICK c \in Chars : Delivers(c) /\ kernel = "user"
      BY <1>7 DEF Types
    <2>2. DOMAIN queue = 1 .. Len(queue) /\ DOMAIN queue' = DOMAIN queue
      BY <2>1, UserFacts DEF Delivers
    <2>3. ASSUME NEW i \in DOMAIN queue, i # cur + 1, queue'[i].waiting_on = "None",
                 queue'[i].trap_frame.pc = "in_char"
          PROVE  queue'[i].trap_frame.a0 \in Chars
      <3>1. CASE Woken(queue, awaiting, i)
        BY <2>1, <2>2, <3>1 DEF Delivers
      <3>2. CASE ~Woken(queue, awaiting, i)
        <4>1. queue'[i] = queue[i]
          BY <2>1, <2>2, <3>2 DEF Delivers
        <4> QED
          BY <2>1, <2>3, <4>1 DEF CharHeld
      <3> QED
        BY <3>1, <3>2
    <2>4. regs' = regs /\ cur' = cur
      BY <2>1 DEF Delivers
    <2> QED
      BY <2>1, <2>2, <2>3, <2>4 DEF CharHeld
  <1>8. CASE Resumes
    <2>1. /\ kernel = "user" /\ UNCHANGED <<queue, cur>>
          /\ Context(regs').pc = "run"
      BY <1>8 DEF Resumes
    <2>2. regs'.pc = "run"
      BY <2>1 DEF Context
    <2> QED
      BY <2>1, <2>2 DEF CharHeld
  <1>9. CASE Exits \/ Stops
    BY <1>9 DEF Exits, Stops
  <1>10. CASE Keeps
    BY <1>10 DEF Keeps, CharHeld
  <1> QED
    BY <1>1, <1>2, <1>3, <1>4, <1>6, <1>7, <1>8, <1>9, <1>10, NextKinds

\* syscalls.rs, kernel_io(2), and uart_handler: in_char never returns the call number
\* that a0 held when the thread was switched away, but a character that was typed.
THEOREM CharTypedReturned ==
    ASSUME NoDrops
    PROVE  Spec => []InCharReturnsChar
  <1> DEFINE Inv == SwitchInv /\ CharHeld
  <1>1. Inv => InCharReturnsChar
    BY DEF CharHeld, InCharReturnsChar
  <1>2. Init => Inv
    BY InitSwitch, HeldInit
  <1>3. Inv /\ [Next]_vars => Inv'
    BY NextSwitch, HeldStep
  <1> QED
    BY <1>1, <1>2, <1>3, PTL DEF Spec

-----------------------------------------------------------------------------
(* The kernel goes on *)

\* No program faults, exits or extends its heap, and one, as null_task, neither
\* waits for a character nor stops at a breakpoint.
AlwaysReady(t) == Calls[t] \cap {"in_char", "ebreak"} = {}

Calm ==
    /\ \A t \in Tasks : Calls[t] \cap {"exit", "extend_heap", "fault"} = {}
    /\ \E t \in Tasks : AlwaysReady(t)

\* Somebody is runnable, and every listed task has an entry.
RunsInv ==
    /\ kernel = "user"
    /\ \E i \in DOMAIN queue :
          AlwaysReady(queue[i].task_id) /\ queue[i].waiting_on = "None"
    /\ ~ListedTaskGone

LEMMA RunsInit ==
    ASSUME Calm
    PROVE  Init => RunsInv
  <1> SUFFICES ASSUME Init PROVE RunsInv
    OBVIOUS
  <1>1. /\ DOMAIN queue = 1 .. Len(Loaded)
        /\ \A i \in DOMAIN queue : queue[i] = LoadedEntry(Loaded[i])
    BY TasksFacts DEF Init
  <1>2. \A i \in DOMAIN queue :
           queue[i].task_id = Loaded[i] /\ queue[i].waiting_on = "None"
    BY <1>1 DEF LoadedEntry
  <1>3. DOMAIN Loaded = 1 .. Len(Loaded)
    BY TasksFacts
  <1>4. PICK t \in Tasks : AlwaysReady(t)
    BY DEF Calm
  <1>5. PICK i \in DOMAIN Loaded : Loaded[i] = t
    BY DEF Tasks
  <1>6. ~ListedTaskGone
    BY DEF Init, ListedTaskGone
  <1> QED
    BY <1>1, <1>2, <1>3, <1>4, <1>5, <1>6 DEF Init, RunsInv

\* A switch away from a caller, to leave it waiting for w.
LEMMA RunsSwitch ==
    ASSUME SwitchInv, RunsInv, NEW w, NEW f, Saves(w, f), Loads, awaiting' = awaiting,
           w # "None" => ~AlwaysReady(queue[cur + 1].task_id)
    PROVE  RunsInv'
  <1>1. kernel = "user" /\ DOMAIN queue = 1 .. Len(queue) /\ Len(queue) \in Nat
    BY UserFacts DEF RunsInv
  <1>2. PICK i \in DOMAIN queue :
           AlwaysReady(queue[i].task_id) /\ queue[i].waiting_on = "None"
    BY DEF RunsInv
  <1>3. /\ DOMAIN queue' = DOMAIN queue
        /\ \A j \in DOMAIN queue : queue'[j].task_id = queue[j].task_id
    BY <1>1 DEF Saves
  <1>4. AlwaysReady(queue'[i].task_id) /\ queue'[i].waiting_on = "None"
    <2>1. CASE i = cur + 1
      BY <1>2, <1>3, <2>1 DEF Saves
    <2>2. CASE i # cur + 1
      BY <1>1, <1>2, <2>2 DEF Saves
    <2> QED
      BY <2>1, <2>2
  <1>5. ~NoneRunnable(queue')
    <2>1. i - 1 \in Indices(queue') /\ i - 1 + 1 = i
      BY <1>1 DEF Indices, Saves
    <2>2. Runnable(queue', i - 1)
      BY <1>4, <2>1 DEF Runnable, At
    <2> QED
      BY <2>1, <2>2 DEF NoneRunnable
  <1>6. kernel' = "user"
    BY <1>1, <1>5 DEF Loads
  <1>7. ~ListedTaskGone'
    BY <1>3 DEF RunsInv, ListedTaskGone
  <1> QED
    BY <1>3, <1>4, <1>6, <1>7 DEF RunsInv

LEMMA RunsStep ==
    ASSUME NoDrops, Calm
    PROVE  SwitchInv /\ RunsInv /\ [Next]_vars => RunsInv'
  <1> SUFFICES ASSUME SwitchInv, RunsInv, [Next]_vars
               PROVE  RunsInv'
    OBVIOUS
  <1>u. /\ kernel = "user" /\ DOMAIN queue = 1 .. Len(queue) /\ Len(queue) \in Nat
        /\ cur + 1 \in 1 .. Len(queue) /\ queue[cur + 1].task_id \in Tasks
    BY UserFacts DEF RunsInv, TaskData
  <1>c. \A call \in {"exit", "extend_heap", "fault"} : ~Calling(call)
    BY <1>u DEF Calm, Calling
  <1>1. CASE Preempted
    BY <1>1, RunsSwitch DEF Preempted
  <1>2. CASE Switches("forfeit", "None")
    BY <1>2, RunsSwitch DEF Switches
  <1>3. CASE Switches("in_char", "CharIn")
    <2>1. PICK f \in Frames : Saves("CharIn", f)
      BY <1>3 DEF Switches
    <2> DEFINE id == queue[cur + 1].task_id
    <2>2. /\ Loads /\ awaiting' = Append(awaiting, id) /\ ~AlwaysReady(id)
      BY <1>3 DEF Switches, Calling, AlwaysReady
    <2>3. awaiting \in Seq(Tasks) /\ id \in Tasks
      BY <1>u DEF SwitchInv, TypeOK
    <2>4. PICK i \in DOMAIN queue :
             AlwaysReady(queue[i].task_id) /\ queue[i].waiting_on = "None"
      BY DEF RunsInv
    <2>5. /\ DOMAIN queue' = DOMAIN queue
          /\ \A j \in DOMAIN queue : queue'[j].task_id = queue[j].task_id
      BY <1>u, <2>1 DEF Saves
    <2>6. queue'[i] = queue[i]
      BY <1>u, <2>1, <2>2, <2>4 DEF Saves
    <2> HIDE DEF id
    <2>7. \A k \in DOMAIN awaiting' :
             (k \in DOMAIN awaiting /\ awaiting'[k] = awaiting[k]) \/ awaiting'[k] = id
      BY <2>2, <2>3
    <2>8. ~ListedTaskGone'
      <3> SUFFICES ASSUME NEW k \in DOMAIN awaiting'
                   PROVE  \E j \in DOMAIN queue' : queue'[j].task_id = awaiting'[k]
        BY DEF ListedTaskGone
      <3>1. CASE awaiting'[k] = id
        BY <1>u, <2>5, <3>1 DEF id
      <3>2. CASE k \in DOMAIN awaiting /\ awaiting'[k] = awaiting[k]
        <4>1. PICK j \in DOMAIN queue : queue[j].task_id = awaiting[k]
          BY <3>2 DEF RunsInv, ListedTaskGone
        <4> QED
          BY <2>5, <3>2, <4>1
      <3> QED
        BY <2>7, <3>1, <3>2
    <2>9. ~NoneRunnable(queue')
      <3>1. i - 1 \in Indices(queue') /\ i - 1 + 1 = i
        BY <1>u, <2>1 DEF Indices, Saves
      <3>2. Runnable(queue', i - 1)
        BY <2>4, <2>6, <3>1 DEF Runnable, At
      <3> QED
        BY <3>1, <3>2 DEF NoneRunnable
    <2>10. kernel' = "user"
      BY <1>u, <2>2, <2>9 DEF Loads
    <2> QED
      BY <2>4, <2>5, <2>6, <2>8, <2>10 DEF RunsInv
  <1>4. CASE Switches("ebreak", "Breakpoint")
    <2>1. ~AlwaysReady(queue[cur + 1].task_id)
      BY <1>4 DEF Switches, Calling, AlwaysReady
    <2> QED
      BY <1>4, <2>1, RunsSwitch DEF Switches
  <1>6. CASE Spawns
    <2> DEFINE n == Len(queue)
    <2>1. Grows
      BY <1>6 DEF Spawns
    <2>2. \A j \in DOMAIN queue : /\ j \in DOMAIN queue'
                                  /\ queue'[j].task_id = queue[j].task_id
                                  /\ queue'[j].waiting_on = queue[j].waiting_on
      BY <1>u, <2>1 DEF Grows
    <2>3. kernel' = "user" /\ awaiting' = awaiting
      BY <1>u, <2>1 DEF Grows
    <2>4. ~ListedTaskGone'
      BY <2>2, <2>3 DEF RunsInv, ListedTaskGone
    <2> QED
      BY <2>2, <2>3, <2>4 DEF RunsInv
  <1>7. CASE Types
    <2>1. PICK c \in Chars : Delivers(c)
      BY <1>7 DEF Types
    <2>2. awaiting' = << >> /\ kernel' = "user"
      BY <1>7, <1>u, <2>1 DEF Types, Delivers
    <2>3. ~ListedTaskGone'
      BY <2>2 DEF ListedTaskGone
    <2>4. PICK i \in DOMAIN queue :
             AlwaysReady(queue[i].task_id) /\ queue[i].waiting_on = "None"
      BY DEF RunsInv
    <2>5. /\ DOMAIN queue' = DOMAIN queue /\ queue'[i].task_id = queue[i].task_id
          /\ queue'[i].waiting_on = "None"
      BY <1>u, <2>1, <2>4 DEF Delivers, Woken
    <2> QED
      BY <2>2, <2>3, <2>4, <2>5 DEF RunsInv
  <1>8. CASE Resumes \/ Keeps
    BY <1>8 DEF Resumes, Keeps, RunsInv, ListedTaskGone
  <1>9. CASE Exits \/ Stops
    BY <1>9, <1>c, <1>u DEF Exits, Stops, RunsInv
  <1> QED
    BY <1>1, <1>2, <1>3, <1>4, <1>6, <1>7, <1>8, <1>9, NextKinds

\* task.rs, advance, and uart_handler: the kernel never idles, panics or deadlocks
\* while calm programs run and one of them, as null_task, never waits.
THEOREM KernelAlwaysRuns ==
    ASSUME NoDrops, Calm
    PROVE  Spec => []KernelRuns
  <1> DEFINE Inv == SwitchInv /\ RunsInv
  <1>1. Inv => KernelRuns
    BY DEF RunsInv, KernelRuns
  <1>2. Init => Inv
    BY InitSwitch, RunsInit
  <1>3. Inv /\ [Next]_vars => Inv'
    BY NextSwitch, RunsStep
  <1> QED
    BY <1>1, <1>2, <1>3, PTL DEF Spec

-----------------------------------------------------------------------------
(* The task queue implements ThreadPool *)

\* What the thread of entry j sees of the hart.
Sees(j) == IF j = cur + 1 THEN Context(regs) ELSE Context(queue[j].trap_frame)

\* The abstract state, entry by entry.
Mapped ==
    /\ DOMAIN queue = 1 .. Len(queue) /\ Len(queue) \in Nat
    /\ Contexts = [t \in Live |-> Contexts[t]]
    /\ Blocked = [t \in Live |-> Blocked[t]]
    /\ \A t \in Live : \E j \in DOMAIN queue : t = ThreadOf(queue[j])
    /\ \A j \in DOMAIN queue :
          /\ ThreadOf(queue[j]) \in Live
          /\ Blocked[ThreadOf(queue[j])] = queue[j].waiting_on
    /\ cur \in Indices(queue) =>
          /\ Current = ThreadOf(queue[cur + 1])
          /\ \A j \in DOMAIN queue :
                /\ Contexts[ThreadOf(queue[j])] = Sees(j)
                /\ ThreadOf(queue[j]) = Current => j = cur + 1

LEMMA StateMapped == UniqueInv => Mapped
  <1> SUFFICES ASSUME UniqueInv PROVE Mapped
    OBVIOUS
  <1>1. DOMAIN queue = 1 .. Len(queue) /\ Len(queue) \in Nat
    BY LenProperties DEF UniqueInv, TypeOK
  <1>2. ASSUME NEW j \in DOMAIN queue
        PROVE  /\ ThreadOf(queue[j]) \in Live
               /\ EntryOf(ThreadOf(queue[j])) = queue[j]
    <2>1. \A i \in DOMAIN queue : ThreadOf(queue[i]) = ThreadOf(queue[j]) => i = j
      BY DEF UniqueInv, UniqueThreads
    <2>2. (CHOOSE i \in DOMAIN queue : ThreadOf(queue[i]) = ThreadOf(queue[j])) = j
      BY <2>1
    <2> QED
      BY <2>2 DEF EntryOf, Live
  <1>3. ASSUME NEW t \in Live
        PROVE  \E j \in DOMAIN queue : t = ThreadOf(queue[j])
    BY DEF Live
  <1>4. ASSUME NEW j \in DOMAIN queue
        PROVE  Blocked[ThreadOf(queue[j])] = queue[j].waiting_on
    BY <1>2 DEF Blocked
  <1>5. ASSUME cur \in Indices(queue)
        PROVE  /\ Current = ThreadOf(queue[cur + 1])
               /\ \A j \in DOMAIN queue :
                     /\ Contexts[ThreadOf(queue[j])] = Sees(j)
                     /\ ThreadOf(queue[j]) = Current => j = cur + 1
    <2>1. cur + 1 \in DOMAIN queue /\ Current = ThreadOf(queue[cur + 1])
      BY <1>1, <1>5 DEF Indices, Current, HasCurrent, At
    <2>2. ASSUME NEW j \in DOMAIN queue
          PROVE  ThreadOf(queue[j]) = Current <=> j = cur + 1
      BY <2>1 DEF UniqueInv, UniqueThreads
    <2>3. ASSUME NEW j \in DOMAIN queue
          PROVE  Contexts[ThreadOf(queue[j])] = Sees(j)
      <3>1. ThreadOf(queue[j]) \in Live /\ EntryOf(ThreadOf(queue[j])) = queue[j]
        BY <1>2
      <3>2. Contexts[ThreadOf(queue[j])] =
               IF ThreadOf(queue[j]) = Current THEN Context(regs)
               ELSE Context(EntryOf(ThreadOf(queue[j])).trap_frame)
        BY <3>1 DEF Contexts
      <3> QED
        BY <2>2, <3>1, <3>2 DEF Sees
    <2> QED
      BY <2>1, <2>2, <2>3
  <1>6. /\ Contexts = [t \in Live |-> Contexts[t]]
        /\ Blocked = [t \in Live |-> Blocked[t]]
    BY DEF Contexts, Blocked
  <1> QED
    BY <1>1, <1>2, <1>3, <1>4, <1>5, <1>6 DEF Mapped

LEMMA InitMapped == Init => Pool!Init
  <1> SUFFICES ASSUME Init PROVE Pool!Init
    OBVIOUS
  <1>1. /\ DOMAIN queue = 1 .. Len(Loaded) /\ Len(Loaded) \in Nat \ {0}
        /\ DOMAIN Loaded = 1 .. Len(Loaded)
        /\ \A i \in DOMAIN queue : queue[i] = LoadedEntry(Loaded[i])
        /\ Len(queue) = Len(Loaded)
    BY TasksFacts DEF Init
  <1>2. ASSUME NEW i \in DOMAIN queue
        PROVE  /\ ThreadOf(queue[i]) = <<Loaded[i], 0>>
               /\ queue[i].waiting_on = "None"
               /\ Context(queue[i].trap_frame) = [pc |-> "run", a0 |-> Loaded[i], a1 |-> 0]
    BY <1>1 DEF LoadedEntry, ThreadOf, Context, NewFrame
  <1>m. Mapped
    BY InitUnique, StateMapped
  <1>3. cur = 0 /\ 1 \in DOMAIN queue /\ cur \in Indices(queue) /\ cur + 1 = 1
    BY <1>1 DEF Init, Indices
  <1>4. Context(regs) = [pc |-> "run", a0 |-> Loaded[1], a1 |-> 0]
    BY DEF Init, Context, NewFrame
  <1>5. Live = {<<t, 0>> : t \in Tasks}
    <2>1. ASSUME NEW t \in Live PROVE t \in {<<k, 0>> : k \in Tasks}
      <3>1. PICK i \in DOMAIN queue : t = ThreadOf(queue[i])
        BY <1>m DEF Mapped
      <3>2. t = <<Loaded[i], 0>> /\ Loaded[i] \in Tasks
        BY <1>1, <1>2, <3>1, TasksFacts
      <3> QED
        BY <3>2
    <2>2. ASSUME NEW k \in Tasks PROVE <<k, 0>> \in Live
      <3>1. PICK i \in DOMAIN Loaded : k = Loaded[i]
        BY DEF Tasks
      <3> QED
        BY <1>1, <1>2, <1>m, <3>1 DEF Mapped
    <2> QED
      BY <2>1, <2>2
  <1>6. ASSUME NEW t \in Live
        PROVE  /\ Contexts[t] = [pc |-> "run", a0 |-> t[1], a1 |-> 0]
               /\ Blocked[t] = "None"
    <2>1. PICK i \in DOMAIN queue : t = ThreadOf(queue[i])
      BY <1>m DEF Mapped
    <2>t. t = <<Loaded[i], 0>>
      BY <1>2, <2>1
    <2>2. t[1] = Loaded[i]
      BY <2>t
    <2>3. Contexts[t] = Sees(i) /\ Blocked[t] = queue[i].waiting_on
      BY <1>3, <1>m, <2>1 DEF Mapped
    <2> QED
      BY <1>2, <1>3, <1>4, <2>2, <2>3 DEF Sees
  <1>7. Contexts = [t \in Live |-> [pc |-> "run", a0 |-> t[1], a1 |-> 0]]
    BY <1>6, <1>m DEF Mapped
  <1>8. Blocked = [t \in Live |-> "None"]
    BY <1>6, <1>m DEF Mapped
  <1>9. Current = <<Loaded[1], 0>>
    BY <1>2, <1>3, <1>m DEF Mapped
  <1>10. kernel = "user"
    BY DEF Init
  <1> QED
    BY <1>5, <1>7, <1>8, <1>9, <1>10 DEF Pool!Init

\* The hart has changed hands: everybody sees its saved frame.
LEMMA LoadedSees ==
    ASSUME SwitchInv, SwitchInv', kernel = "user", kernel' = "user",
           NEW w, NEW f, Saves(w, f), Loads, Mapped'
    PROVE  /\ Current' = ThreadOf(queue'[cur' + 1])
           /\ cur' \in Indices(queue')
           /\ cur' + 1 \in DOMAIN queue'
           /\ queue'[cur' + 1].waiting_on = "None"
           /\ \A j \in DOMAIN queue' : Sees(j)' = Context(queue'[j].trap_frame)
  <1>1. PICK i \in Indices(queue') :
           cur' = i /\ Runnable(queue', i) /\ regs' = At(queue', i).trap_frame
    BY DEF Loads
  <1>2. i + 1 \in 1 .. Len(queue') /\ DOMAIN queue' = 1 .. Len(queue')
    BY DEF Indices, Mapped
  <1> QED
    BY <1>1, <1>2 DEF Mapped, Sees, Runnable, At

\* A switch: the caller's thread sees f from now on and waits for w.
LEMMA SwitchMapped ==
    ASSUME SwitchInv, SwitchInv', kernel = "user", kernel' = "user",
           NEW w, NEW f, Saves(w, f), Loads, Mapped, Mapped'
    PROVE  /\ Current \in Live /\ Live' = Live
           /\ Contexts' = [Contexts EXCEPT ![Current] = Context(f)]
           /\ Blocked' = [Blocked EXCEPT ![Current] = w]
           /\ Current' \in Live
           /\ Blocked'[Current'] = "None"
           /\ Contexts[Current] = Context(regs)
           /\ Blocked[Current] = "None"
  <1>1. /\ DOMAIN queue = 1 .. Len(queue) /\ Len(queue) \in Nat
        /\ cur \in Indices(queue) /\ cur + 1 \in DOMAIN queue
        /\ queue[cur + 1].waiting_on = "None"
    BY UserFacts
  <1>2. /\ DOMAIN queue' = DOMAIN queue
        /\ \A j \in DOMAIN queue :
              /\ ThreadOf(queue'[j]) = ThreadOf(queue[j])
              /\ j # cur + 1 => queue'[j] = queue[j]
        /\ queue'[cur + 1].waiting_on = w
        /\ queue'[cur + 1].trap_frame = f
    BY <1>1 DEF Saves, Mapped
  <1>3. /\ Current = ThreadOf(queue[cur + 1]) /\ Current \in Live
        /\ Contexts[Current] = Context(regs) /\ Blocked[Current] = "None"
    BY <1>1 DEF Mapped, Sees
  <1>4. Live' = Live
    BY <1>2 DEF Live
  <1>5. /\ Current' = ThreadOf(queue'[cur' + 1]) /\ cur' + 1 \in DOMAIN queue'
        /\ queue'[cur' + 1].waiting_on = "None"
        /\ cur' \in Indices(queue')
        /\ \A j \in DOMAIN queue' : Sees(j)' = Context(queue'[j].trap_frame)
    BY LoadedSees
  <1>6. /\ Current' \in Live
        /\ Blocked'[Current'] = "None"
    BY <1>4, <1>5 DEF Mapped
  <1>7. ASSUME NEW t \in Live
        PROVE  /\ Contexts'[t] = IF t = Current THEN Context(f) ELSE Contexts[t]
               /\ Blocked'[t] = IF t = Current THEN w ELSE Blocked[t]
    <2>1. PICK j \in DOMAIN queue : t = ThreadOf(queue[j])
      BY DEF Mapped
    <2>2. t = Current <=> j = cur + 1
      BY <1>1, <1>3, <2>1 DEF Mapped
    <2>3. /\ Contexts[t] = Sees(j) /\ Blocked[t] = queue[j].waiting_on
      BY <1>1, <2>1 DEF Mapped
    <2>4. t = ThreadOf(queue'[j]) /\ j \in DOMAIN queue'
      BY <1>2, <2>1
    <2>5. /\ Contexts'[t] = Sees(j)' /\ Blocked'[t] = queue'[j].waiting_on
      BY <1>5, <2>4 DEF Mapped
    <2>6. Contexts'[t] = Context(queue'[j].trap_frame)
      BY <1>5, <2>4, <2>5
    <2>7. CASE j = cur + 1
      BY <1>2, <2>2, <2>5, <2>6, <2>7
    <2>8. CASE j # cur + 1
      <3>1. queue'[j] = queue[j]
        BY <1>2, <2>8
      <3> QED
        BY <2>2, <2>3, <2>5, <2>6, <2>8, <3>1 DEF Sees
    <2> QED
      BY <2>7, <2>8
  <1>8. /\ Contexts = [t \in Live |-> Contexts[t]]
        /\ Blocked = [t \in Live |-> Blocked[t]]
        /\ Contexts' = [t \in Live |-> Contexts'[t]]
        /\ Blocked' = [t \in Live |-> Blocked'[t]]
    BY <1>4 DEF Mapped
  <1>9. Contexts' = [Contexts EXCEPT ![Current] = Context(f)]
    BY <1>7, <1>8
  <1>10. Blocked' = [Blocked EXCEPT ![Current] = w]
    BY <1>7, <1>8
  <1> QED
    BY <1>3, <1>4, <1>6, <1>9, <1>10

LEMMA SpawnMapped ==
    ASSUME SwitchInv, UniqueInv, Spawns, Mapped, Mapped'
    PROVE  \E child \in Live' : Pool!Spawn(child)
  <1> DEFINE n     == Len(queue)
             id    == queue[cur + 1].task_id
             child == <<id, threads[id]>>
  <1>1. /\ DOMAIN queue = 1 .. n /\ n \in Nat
        /\ cur \in Indices(queue) /\ cur + 1 \in DOMAIN queue
        /\ queue[cur + 1].waiting_on = "None"
        /\ regs.pc = "run"
    BY UserFacts DEF Spawns, Calling
  <1>2. Grows
    BY DEF Spawns
  <1>3. /\ DOMAIN queue' = 1 .. n + 1
        /\ \A j \in DOMAIN queue :
              /\ j \in DOMAIN queue'
              /\ ThreadOf(queue'[j]) = ThreadOf(queue[j])
              /\ j # cur + 1 => queue'[j] = queue[j]
              /\ queue'[j].waiting_on = queue[j].waiting_on
        /\ n + 1 \in DOMAIN queue' /\ n + 1 # cur + 1
        /\ ThreadOf(queue'[n + 1]) = child
        /\ queue'[n + 1].waiting_on = "None"
        /\ Context(queue'[n + 1].trap_frame)
              = [pc |-> "spawn_raw", a0 |-> id, a1 |-> threads[id]]
        /\ cur' = cur /\ cur' \in Indices(queue') /\ kernel' = kernel
        /\ regs'.pc = "spawn_raw"
    BY <1>1, <1>2 DEF Grows, Mapped, Indices
  <1>4. \A j \in DOMAIN queue' : j \in DOMAIN queue \/ j = n + 1
    BY <1>1, <1>3
  <1>5. child \notin Live
    <2> SUFFICES ASSUME NEW j \in DOMAIN queue, child = ThreadOf(queue[j])
                 PROVE  FALSE
      BY DEF Mapped
    <2>1. queue[j].task_id = id /\ queue[j].thread_id = threads[id]
      BY DEF ThreadOf
    <2>2. queue[j] \in TaskData
      BY <1>1, ElementOfSeq DEF SwitchInv, TypeOK
    <2> QED
      BY <2>1, <2>2 DEF UniqueInv, IdsHandedOut, TaskData
  <1>6. /\ Current = ThreadOf(queue[cur + 1]) /\ Current \in Live
        /\ Current' = Current
    BY <1>1, <1>3 DEF Mapped
  <1>7. Live' = Live \cup {child}
    BY <1>3, <1>4 DEF Live
  <1>8. /\ Contexts[Current] = Context(regs)
        /\ Contexts'[Current] = Context(regs')
    <2>1. Contexts[Current] = Sees(cur + 1)
      BY <1>1, <1>6 DEF Mapped
    <2>2. Contexts'[Current] = Sees(cur + 1)'
      BY <1>1, <1>3, <1>6 DEF Mapped
    <2> QED
      BY <1>1, <1>3, <2>1, <2>2 DEF Sees
  <1>9. /\ Contexts'[child] = [pc |-> "spawn_raw", a0 |-> child[1], a1 |-> child[2]]
        /\ Blocked'[child] = "None"
    <2>1. ASSUME NEW k \in DOMAIN queue', k # cur + 1
          PROVE  /\ Contexts'[ThreadOf(queue'[k])] = Context(queue'[k].trap_frame)
                 /\ Blocked'[ThreadOf(queue'[k])] = queue'[k].waiting_on
      BY <1>3, <2>1 DEF Mapped, Sees
    <2> QED
      BY <1>3, <2>1
  <1>10. ASSUME NEW t \in Live
         PROVE  /\ t # Current => Contexts'[t] = Contexts[t]
                /\ Blocked'[t] = Blocked[t]
    <2>1. PICK j \in DOMAIN queue : t = ThreadOf(queue[j])
      BY DEF Mapped
    <2>2. t # Current => j # cur + 1
      BY <1>6, <2>1
    <2>3. /\ Contexts[t] = Sees(j) /\ Blocked[t] = queue[j].waiting_on
      BY <1>1, <2>1 DEF Mapped
    <2>4. t = ThreadOf(queue'[j]) /\ j \in DOMAIN queue'
      BY <1>3, <2>1
    <2>5. /\ Contexts'[t] = Sees(j)' /\ Blocked'[t] = queue'[j].waiting_on
      BY <1>3, <2>4 DEF Mapped
    <2>6. j # cur + 1 => Sees(j)' = Sees(j)
      BY <1>3 DEF Sees
    <2> QED
      BY <1>3, <2>2, <2>3, <2>5, <2>6
  <1>11. /\ DOMAIN Contexts = Live /\ DOMAIN Blocked = Live
         /\ DOMAIN Contexts' = Live'
         /\ Blocked' = [t \in Live' |-> Blocked'[t]]
    BY DEF Mapped, Contexts, Blocked
  <1>12. Context(regs).pc = "run" /\ Context(regs').pc = "spawn_raw"
    BY <1>1, <1>3 DEF Context
  <1>13. child \in Live'
    BY <1>7
  <1>14. (kernel = "user")' = (kernel = "user")
    BY <1>3
  <1> HIDE DEF child
  <1>15. Blocked' = [t \in Live' |-> IF t = child THEN "None" ELSE Blocked[t]]
    BY <1>7, <1>9, <1>10, <1>11
  <1>16. Pool!Spawn(child)
    BY <1>5, <1>6, <1>7, <1>8, <1>9, <1>10, <1>11, <1>12, <1>14, <1>15 DEF Pool!Spawn
  <1> QED
    BY <1>13, <1>16

LEMMA TypesMapped ==
    ASSUME SwitchInv, ReaderInv, kernel = "user", NEW c \in Chars, Delivers(c),
           Mapped, Mapped'
    PROVE  Pool!Type(c)
  <1>1. /\ DOMAIN queue = 1 .. Len(queue) /\ Len(queue) \in Nat
        /\ cur \in Indices(queue) /\ cur + 1 \in DOMAIN queue
        /\ queue[cur + 1].waiting_on = "None"
    BY UserFacts
  <1>2. /\ DOMAIN queue' = DOMAIN queue
        /\ \A j \in DOMAIN queue : ThreadOf(queue'[j]) = ThreadOf(queue[j])
        /\ cur' = cur /\ cur' \in Indices(queue') /\ kernel' = kernel /\ regs' = regs
    BY <1>1 DEF Delivers, Mapped, Indices
  <1>3. ASSUME NEW j \in DOMAIN queue
        PROVE  Woken(queue, awaiting, j) <=> queue[j].waiting_on = "CharIn"
    BY ReaderListed DEF SwitchInv, WaitersListed, Woken
  <1>4. Live' = Live
    BY <1>2 DEF Live
  <1>5. Current' = Current
    BY <1>1, <1>2 DEF Mapped
  <1>6. ASSUME NEW t \in Live
        PROVE  /\ Contexts'[t] = IF Blocked[t] = "CharIn"
                                   THEN [Contexts[t] EXCEPT !.a0 = c] ELSE Contexts[t]
               /\ Blocked'[t] = IF Blocked[t] = "CharIn" THEN "None" ELSE Blocked[t]
    <2>1. PICK j \in DOMAIN queue : t = ThreadOf(queue[j])
      BY DEF Mapped
    <2>2. /\ Contexts[t] = Sees(j) /\ Blocked[t] = queue[j].waiting_on
      BY <1>1, <2>1 DEF Mapped
    <2>3. t = ThreadOf(queue'[j]) /\ j \in DOMAIN queue'
      BY <1>2, <2>1
    <2>4. /\ Contexts'[t] = Sees(j)' /\ Blocked'[t] = queue'[j].waiting_on
      BY <1>2, <2>3 DEF Mapped
    <2>5. CASE Woken(queue, awaiting, j)
      <3>1. j # cur + 1 /\ Blocked[t] = "CharIn"
        BY <1>1, <1>3, <2>2, <2>5
      <3>2. /\ queue'[j].waiting_on = "None"
            /\ queue'[j].trap_frame.pc = queue[j].trap_frame.pc
            /\ queue'[j].trap_frame.a0 = c
            /\ queue'[j].trap_frame.a1 = queue[j].trap_frame.a1
        BY <1>1, <2>5 DEF Delivers
      <3>3. /\ Sees(j) = Context(queue[j].trap_frame)
            /\ Sees(j)' = Context(queue'[j].trap_frame)
        BY <1>2, <3>1 DEF Sees
      <3>4. Context(queue'[j].trap_frame) = [Context(queue[j].trap_frame) EXCEPT !.a0 = c]
        BY <3>2 DEF Context
      <3> QED
        BY <2>2, <2>4, <3>1, <3>2, <3>3, <3>4
    <2>6. CASE ~Woken(queue, awaiting, j)
      <3>1. queue'[j] = queue[j] /\ Blocked[t] # "CharIn"
        BY <1>1, <1>3, <2>2, <2>6 DEF Delivers
      <3>2. Sees(j)' = Sees(j)
        BY <1>2, <3>1 DEF Sees
      <3> QED
        BY <2>2, <2>4, <3>1, <3>2
    <2> QED
      BY <2>5, <2>6
  <1>7. /\ DOMAIN Contexts = Live /\ DOMAIN Blocked = Live
        /\ Contexts' = [t \in Live |-> Contexts'[t]]
        /\ Blocked' = [t \in Live |-> Blocked'[t]]
    BY <1>4 DEF Mapped, Contexts, Blocked
  <1>8. Contexts' = [t \in Live |-> IF Blocked[t] = "CharIn"
                                      THEN [Contexts[t] EXCEPT !.a0 = c] ELSE Contexts[t]]
    BY <1>6, <1>7
  <1>9. Blocked' = [t \in Live |-> IF Blocked[t] = "CharIn" THEN "None" ELSE Blocked[t]]
    BY <1>6, <1>7
  <1>10. (kernel = "user")' = (kernel = "user")
    BY <1>2
  <1> QED
    BY <1>5, <1>7, <1>8, <1>9, <1>10 DEF Pool!Type

LEMMA ResumesMapped ==
    ASSUME SwitchInv, Resumes, Mapped, Mapped'
    PROVE  Pool!Resume
  <1>1. /\ DOMAIN queue = 1 .. Len(queue) /\ Len(queue) \in Nat
        /\ cur \in Indices(queue) /\ cur + 1 \in DOMAIN queue
    BY UserFacts DEF Resumes
  <1>2. /\ queue' = queue /\ cur' = cur /\ kernel' = kernel
        /\ Context(regs') = [pc |-> "run", a0 |-> 0, a1 |-> 0]
        /\ regs.pc \in {"forfeit", "in_char", "spawn_raw"}
    BY DEF Resumes
  <1>3. Live' = Live /\ Current' = Current /\ Current \in Live
    BY <1>1, <1>2 DEF Live, Mapped
  <1>4. ASSUME NEW t \in Live
        PROVE  /\ Contexts'[t] = IF t = Current THEN [pc |-> "run", a0 |-> 0, a1 |-> 0]
                                                ELSE Contexts[t]
               /\ Blocked'[t] = Blocked[t]
    <2>1. PICK j \in DOMAIN queue : t = ThreadOf(queue[j])
      BY DEF Mapped
    <2>2. t = Current <=> j = cur + 1
      BY <1>1, <2>1 DEF Mapped
    <2>3. /\ Contexts[t] = Sees(j) /\ Blocked[t] = queue[j].waiting_on
      BY <1>1, <2>1 DEF Mapped
    <2>4. /\ Contexts'[t] = Sees(j)' /\ Blocked'[t] = queue[j].waiting_on
      BY <1>1, <1>2, <2>1 DEF Mapped
    <2>5. Sees(j)' = IF j = cur + 1 THEN Context(regs') ELSE Sees(j)
      BY <1>2 DEF Sees
    <2> QED
      BY <1>2, <2>2, <2>3, <2>4, <2>5
  <1>5. /\ Contexts[Current].pc \in {"forfeit", "in_char", "spawn_raw"}
    <2>1. Contexts[Current] = Context(regs)
      BY <1>1 DEF Mapped, Sees
    <2> QED
      BY <1>2, <2>1 DEF Context
  <1>6. /\ Contexts = [t \in Live |-> Contexts[t]]
        /\ Blocked = [t \in Live |-> Blocked[t]]
        /\ Contexts' = [t \in Live |-> Contexts'[t]]
        /\ Blocked' = [t \in Live |-> Blocked'[t]]
    BY <1>3 DEF Mapped
  <1>7. Contexts' = [Contexts EXCEPT ![Current] = [pc |-> "run", a0 |-> 0, a1 |-> 0]]
    BY <1>4, <1>6
  <1>8. Blocked' = Blocked
    BY <1>4, <1>6
  <1>9. (kernel = "user")' = (kernel = "user")
    BY <1>2
  <1> QED
    BY <1>3, <1>5, <1>7, <1>8, <1>9 DEF Pool!Resume

\* Every step maps to one of the pool, to a stop, or to a stutter behind a stop.
LEMMA StepMapped ==
    ASSUME NoDrops, ReadersAlone
    PROVE  /\ SwitchInv /\ UniqueInv /\ ReaderInv
           /\ SwitchInv' /\ UniqueInv'
           /\ [Next]_vars
           => [Pool!Next]_(Pool!vars)
  <1> SUFFICES ASSUME SwitchInv, UniqueInv, ReaderInv, SwitchInv', UniqueInv', [Next]_vars
               PROVE  [Pool!Next]_(Pool!vars)
    OBVIOUS
  <1>m. Mapped
    BY StateMapped
  <1>n. Mapped'
    BY StateMapped, PTL
  <1>h. ASSUME kernel = "user", kernel' # "user"
        PROVE  Pool!Next
    BY <1>h DEF Pool!Next, Pool!Halt
  <1>k. CASE UNCHANGED <<queue, cur, regs, kernel>>
    BY <1>k DEF Pool!vars, Contexts, Blocked, Live, Current, EntryOf, HasCurrent
  <1>s. ASSUME kernel # "user", Stops
        PROVE  UNCHANGED Pool!vars
    BY <1>s DEF Stops, Pool!vars, Contexts, Blocked, Live, Current, EntryOf, HasCurrent
  <1>u. ASSUME kernel = "user", kernel' = "user",
               NEW w, NEW f \in Frames, Saves(w, f), Loads
        PROVE  /\ Current \in Live /\ Live' = Live
               /\ DOMAIN Contexts = Live /\ DOMAIN Blocked = Live
               /\ DOMAIN Blocked' = Live
               /\ Contexts' = [Contexts EXCEPT ![Current] = Context(f)]
               /\ Blocked' = [Blocked EXCEPT ![Current] = w]
               /\ Current' \in Live
               /\ Blocked'[Current'] = "None"
               /\ Contexts[Current] = Context(regs)
               /\ Blocked[Current] = "None"
    BY <1>u, <1>m, <1>n, SwitchMapped DEF Contexts, Blocked
  <1>1. CASE Preempted /\ kernel' = "user"
    <2>1. regs \in Frames /\ kernel = "user" /\ kernel' = "user"
      BY <1>1 DEF SwitchInv, TypeOK, Preempted
    <2>2. Saves("None", regs) /\ Loads
      BY <1>1 DEF Preempted
    <2>3. /\ Contexts' = [Contexts EXCEPT ![Current] = Context(regs)]
          /\ Blocked' = [Blocked EXCEPT ![Current] = "None"]
          /\ Contexts[Current] = Context(regs) /\ Blocked[Current] = "None"
          /\ Current' \in Live /\ DOMAIN Blocked' = Live /\ Blocked'[Current'] = "None"
      BY <1>u, <2>1, <2>2
    <2>4. /\ Contexts = [t \in Live |-> Contexts[t]]
          /\ Blocked = [t \in Live |-> Blocked[t]]
      BY <1>m DEF Mapped
    <2>5. Contexts' = Contexts /\ Blocked' = Blocked
      BY <2>3, <2>4
    <2>6. Pool!Switch
      BY <2>3 DEF Pool!Switch, Pool!Ready
    <2>7. Pool!Preempt
      BY <2>1, <2>5, <2>6 DEF Pool!Preempt
    <2> QED
      BY <2>1, <2>7 DEF Pool!Next, Pool!Live
  <1>c. ASSUME NEW call, NEW w, Switches(call, w), kernel' = "user"
        PROVE  /\ Pool!CallMade(call) /\ Pool!Switch
               /\ Blocked' = [Blocked EXCEPT ![Current] = w]
               /\ w = "None" => Blocked' = Blocked
               /\ kernel = "user"
    <2>1. /\ kernel = "user" /\ regs.pc = "run" /\ Loads
      BY <1>c DEF Switches, Calling
    <2>2. PICK f \in Frames : f.pc = call /\ Saves(w, f)
      BY <1>c DEF Switches
    <2>3. /\ Current \in Live /\ Live' = Live
          /\ DOMAIN Contexts = Live
          /\ Contexts' = [Contexts EXCEPT ![Current] = Context(f)]
          /\ Blocked' = [Blocked EXCEPT ![Current] = w]
          /\ Current' \in Live /\ DOMAIN Blocked' = Live /\ Blocked'[Current'] = "None"
          /\ Contexts[Current] = Context(regs) /\ Blocked[Current] = "None"
      BY <1>c, <1>u, <2>1, <2>2
    <2>4. Context(regs).pc = "run" /\ Context(f).pc = call
      BY <2>1, <2>2 DEF Context
    <2>5. Pool!CallMade(call)
      BY <2>3, <2>4 DEF Pool!CallMade
    <2>6. Pool!Switch
      BY <2>3 DEF Pool!Switch, Pool!Ready
    <2>7. Blocked = [t \in Live |-> Blocked[t]]
      BY <1>m DEF Mapped
    <2>8. w = "None" => Blocked' = Blocked
      BY <2>3, <2>7
    <2> QED
      BY <2>1, <2>3, <2>5, <2>6, <2>8
  <1>2. CASE Switches("forfeit", "None") /\ kernel' = "user"
    <2>1. Pool!Yield
      BY <1>2, <1>c DEF Pool!Yield
    <2> QED
      BY <1>2, <1>c, <2>1 DEF Pool!Next, Pool!Live
  <1>3. CASE Switches("in_char", "CharIn") /\ kernel' = "user"
    <2>1. Pool!Block("in_char", "CharIn")
      BY <1>3, <1>c DEF Pool!Block
    <2> QED
      BY <1>3, <1>c, <2>1 DEF Pool!Next, Pool!Live
  <1>4. CASE Switches("ebreak", "Breakpoint") /\ kernel' = "user"
    <2>1. Pool!Block("ebreak", "Breakpoint")
      BY <1>4, <1>c DEF Pool!Block
    <2> QED
      BY <1>4, <1>c, <2>1 DEF Pool!Next, Pool!Live
  <1>5. CASE Spawns
    <2>1. PICK child \in Live' : Pool!Spawn(child)
      BY <1>5, <1>m, <1>n, SpawnMapped
    <2>2. kernel = "user" /\ DOMAIN Contexts' = Live'
      BY <1>5 DEF Spawns, Calling, Contexts
    <2> QED
      BY <2>1, <2>2 DEF Pool!Next, Pool!Live
  <1>6. CASE Types
    <2>1. PICK c \in Chars : Delivers(c) /\ kernel = "user"
      BY <1>6 DEF Types
    <2>2. Pool!Type(c)
      BY <1>m, <1>n, <2>1, TypesMapped
    <2> QED
      BY <2>1, <2>2 DEF Pool!Next, Pool!Live
  <1>7. CASE Resumes
    <2>1. Pool!Resume /\ kernel = "user"
      BY <1>7, <1>m, <1>n, ResumesMapped DEF Resumes
    <2> QED
      BY <2>1 DEF Pool!Next, Pool!Live
  <1>8. CASE Stops
    <2>1. CASE kernel = "user"
      BY <1>8, <1>h, <2>1 DEF Stops
    <2>2. CASE kernel # "user"
      BY <1>8, <1>s, <2>2
    <2> QED
      BY <2>1, <2>2
  <1>9. CASE Exits
    BY <1>9, <1>h DEF Exits, Calling
  <1>10. CASE Keeps
    BY <1>10, <1>k DEF Keeps
  <1>11. CASE kernel' # "user" /\ ~Stops /\ ~Keeps
    <2>1. kernel = "user"
      BY <1>11, NextKinds DEF Preempted, Switches, Calling, Exits, Spawns, Types, Resumes
    <2> QED
      BY <1>11, <1>h, <2>1
  <1>12. CASE kernel' = "user" \/ Stops \/ Keeps
    BY <1>1, <1>2, <1>3, <1>4, <1>5, <1>6, <1>7, <1>8, <1>9, <1>10, <1>12, NextKinds
  <1> QED
    BY <1>11, <1>12

\* task.rs, syscalls.rs and uart.rs: a thread sees its own registers, as it left
\* them, whatever switches, spawns, calls and characters came between.
THEOREM QueueImplementsPool ==
    ASSUME NoDrops, ReadersAlone
    PROVE  Spec => ImplementsPool
  <1> DEFINE Inv == SwitchInv /\ UniqueInv /\ ReaderInv
  <1>1. Init => Inv
    BY InitSwitch, InitUnique, ReaderInit
  <1>2. Inv /\ [Next]_vars => Inv'
    BY NextSwitch, NextUnique, ReaderStep
  <1>3. Init => Pool!Init
    BY InitMapped
  <1>4. Inv /\ Inv' /\ [Next]_vars => [Pool!Next]_(Pool!vars)
    BY StepMapped
  <1> HIDE DEF Inv
  <1> QED
    BY <1>1, <1>2, <1>3, <1>4, PTL DEF Spec, ImplementsPool, Pool!Spec
=============================================================================
