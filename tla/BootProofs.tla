------------------------------ MODULE BootProofs ------------------------------
(***************************************************************************)
(* Proofs about Boot and Clock, two machines that share nothing. For every *)
(* number of cores, every boot hart and any number of characters the       *)
(* UART's interrupt is expected when it may come, and no core takes the    *)
(* stack or the table of an earlier one. The time limit of wait_ready is   *)
(* kept whatever the frequency of the timer, and a timestamp of the RTC is *)
(* off by less than one turn of its low word.                              *)
(***************************************************************************)
EXTENDS Boot, Clock, TLAPS

(* Boot *)

\* The steps of smp_init for one core, from its table on, and from its stack on.
WithSp == {"starting", "starting_out", "start", "wait"}
WithSatp == WithSp \cup {"sp"}

CorePcs == {"off", "satp", "sp", "print", "printing", "claim", "up"}
CoreStates == [pc : CorePcs, sp : {Null} \cup 1 .. Cores, satp : {Null} \cup 1 .. Cores]

Types ==
    /\ lock \in {Null, BspHart} \cup {BspHart + c : c \in 1 .. Cores}
    /\ next \in 1 .. Cores + 1
    /\ init \in [sp : 0 .. Cores, satp : 0 .. Cores, claimed : BOOLEAN]

CoreTypes == core \in [1 .. Cores -> CoreStates]

\* What the interrupt needs, in the order it is stored.
Expected ==
    /\ plic \in [context : {Null} \cup Nat, handler : {"unknown", "uart_handler"}]
    /\ boot = "plic" => hart_id = BspHart
    /\ boot \notin {"hart_id", "plic"} => plic.context = Context(BspHart)
    /\ boot \notin {"hart_id", "plic", "handler"} => plic.handler = "uart_handler"
    /\ ier => boot \notin {"hart_id", "plic", "handler", "set_int", "setting"}

\* CORE_INIT is that of the core that is being started, or of the last one.
Handed ==
    /\ boot \in WithSatp => next <= Cores
    /\ init.satp = IF boot \in WithSatp THEN next ELSE next - 1
    /\ init.sp = IF boot \in WithSp THEN next ELSE next - 1

\* Which cores run.
Started ==
    \A c \in 1 .. Cores : core[c].pc # "off" => c < next \/ (c = next /\ boot = "wait")

\* Until the first core has claimed, there is no other.
FirstClaims ==
    /\ ~ init.claimed => next = 1
    /\ Cores > 0 /\ core[1].pc # "up" => ~ init.claimed

IInv == /\ Types /\ CoreTypes /\ Expected /\ Handed /\ Started /\ FirstClaims
        /\ FirstCoreOwnsStack /\ NeverBehind

-----------------------------------------------------------------------------

\* Before interrupts are routed and before the first core.
LEMMA InitIInv == Init => IInv
<1> SUFFICES ASSUME Init PROVE IInv
  OBVIOUS
<1>1. Types
  BY BootAssumption DEF Init, Types
<1>2. CoreTypes
  BY DEF Init, CoreTypes, CoreStates, CorePcs
<1>3. Expected
  BY DEF Init, Expected
<1>4. Handed /\ Started /\ FirstClaims
  BY BootAssumption DEF Init, Handed, Started, FirstClaims, WithSatp, WithSp
<1>5. FirstCoreOwnsStack /\ NeverBehind
  BY BootAssumption DEF Init, FirstCoreOwnsStack, NeverBehind
<1> QED
  BY <1>1, <1>2, <1>3, <1>4, <1>5 DEF IInv

\* StoreHartId: HART_ID is the boot hart's.
LEMMA StoreHartIdStep ==
    ASSUME IInv, StoreHartId
    PROVE  IInv'
<1>3. Expected'
  BY BootAssumption DEF IInv, Expected, StoreHartId, Step
<1>4. Handed'
  BY BootAssumption DEF IInv, Handed, Types, WithSatp, WithSp, StoreHartId, Step
<1>5. Started'
  BY BootAssumption DEF IInv, Started, Types, CoreTypes, StoreHartId, Step
<1>9. (Types /\ CoreTypes /\ FirstClaims /\ FirstCoreOwnsStack /\ NeverBehind)'
  BY DEF IInv, Types, CoreTypes, FirstClaims, FirstCoreOwnsStack, NeverBehind, StoreHartId, Step
<1> QED
  BY <1>3, <1>4, <1>5, <1>9 DEF IInv

\* EnableSerial: the interrupt goes to that hart.
LEMMA EnableSerialStep ==
    ASSUME IInv, EnableSerial
    PROVE  IInv'
<1>3. Expected'
  BY BootAssumption DEF IInv, Expected, EnableSerial, Step, Context
<1>4. Handed'
  BY BootAssumption DEF IInv, Handed, Types, WithSatp, WithSp, EnableSerial, Step, Context
<1>5. Started'
  BY BootAssumption DEF IInv, Started, Types, CoreTypes, EnableSerial, Step, Context
<1>9. (Types /\ CoreTypes /\ FirstClaims /\ FirstCoreOwnsStack /\ NeverBehind)'
  BY DEF IInv, Types, CoreTypes, FirstClaims, FirstCoreOwnsStack, NeverBehind, EnableSerial, Step
<1> QED
  BY <1>3, <1>4, <1>5, <1>9 DEF IInv

\* StoreHandler: the interrupt has its handler.
LEMMA StoreHandlerStep ==
    ASSUME IInv, StoreHandler
    PROVE  IInv'
<1>3. Expected'
  BY BootAssumption DEF IInv, Expected, StoreHandler, Step
<1>4. Handed'
  BY BootAssumption DEF IInv, Handed, Types, WithSatp, WithSp, StoreHandler, Step
<1>5. Started'
  BY BootAssumption DEF IInv, Started, Types, CoreTypes, StoreHandler, Step
<1>9. (Types /\ CoreTypes /\ FirstClaims /\ FirstCoreOwnsStack /\ NeverBehind)'
  BY DEF IInv, Types, CoreTypes, FirstClaims, FirstCoreOwnsStack, NeverBehind, StoreHandler, Step
<1> QED
  BY <1>3, <1>4, <1>5, <1>9 DEF IInv

\* LockUart: nothing but the lock.
LEMMA LockUartStep ==
    ASSUME IInv, LockUart
    PROVE  IInv'
<1>1. Types'
  BY BootAssumption DEF IInv, Types, LockUart, Step, Locks
<1>3. Expected'
  BY BootAssumption DEF IInv, Expected, LockUart, Step, Locks
<1>4. Handed'
  BY BootAssumption DEF IInv, Handed, Types, WithSatp, WithSp, LockUart, Step, Locks
<1>5. Started'
  BY BootAssumption DEF IInv, Started, Types, CoreTypes, LockUart, Step, Locks
<1>9. (CoreTypes /\ FirstClaims /\ FirstCoreOwnsStack /\ NeverBehind)'
  BY DEF IInv, CoreTypes, FirstClaims, FirstCoreOwnsStack, NeverBehind, LockUart, Step
<1> QED
  BY <1>1, <1>3, <1>4, <1>5, <1>9 DEF IInv

\* SetInt: the interrupt may come, and is expected.
LEMMA SetIntStep ==
    ASSUME IInv, SetInt
    PROVE  IInv'
<1>3. Expected'
  BY BootAssumption DEF IInv, Expected, SetInt, Step
<1>4. Handed'
  BY BootAssumption DEF IInv, Handed, Types, WithSatp, WithSp, SetInt, Step
<1>5. Started'
  BY BootAssumption DEF IInv, Started, Types, CoreTypes, SetInt, Step
<1>9. (Types /\ CoreTypes /\ FirstClaims /\ FirstCoreOwnsStack /\ NeverBehind)'
  BY DEF IInv, Types, CoreTypes, FirstClaims, FirstCoreOwnsStack, NeverBehind, SetInt, Step
<1> QED
  BY <1>3, <1>4, <1>5, <1>9 DEF IInv

\* Printed: the lock is free.
LEMMA PrintedStep ==
    ASSUME IInv, Printed
    PROVE  IInv'
<1>1. Types'
  BY BootAssumption DEF IInv, Types, Printed, Unlock, Step
<1>3. Expected'
  BY BootAssumption DEF IInv, Expected, Printed, Unlock, Step
<1>4. Handed'
  BY BootAssumption DEF IInv, Handed, Types, WithSatp, WithSp, Printed, Unlock, Step
<1>5. Started'
  BY BootAssumption DEF IInv, Started, Types, CoreTypes, Printed, Unlock, Step
<1>9. (CoreTypes /\ FirstClaims /\ FirstCoreOwnsStack /\ NeverBehind)'
  BY DEF IInv, CoreTypes, FirstClaims, FirstCoreOwnsStack, NeverBehind, Printed, Unlock, Step
<1> QED
  BY <1>1, <1>3, <1>4, <1>5, <1>9 DEF IInv

\* SetSatp: CORE_INIT has the next core's table ...
LEMMA SetSatpStep ==
    ASSUME IInv, SetSatp
    PROVE  IInv'
<1>1. Types'
  BY BootAssumption DEF IInv, Types, Handed, WithSatp, WithSp, SetSatp, Step
<1>3. Expected'
  BY BootAssumption DEF IInv, Expected, SetSatp, Step
<1>4. Handed'
  BY BootAssumption DEF IInv, Handed, Types, WithSatp, WithSp, SetSatp, Step
<1>5. Started'
  BY BootAssumption DEF IInv, Started, Types, CoreTypes, Handed, WithSatp, WithSp, SetSatp, Step
<1>6. FirstClaims'
  BY BootAssumption DEF IInv, FirstClaims, Types, CoreTypes, Started, SetSatp, Step
<1>9. (CoreTypes /\ FirstCoreOwnsStack /\ NeverBehind)'
  BY DEF IInv, CoreTypes, FirstCoreOwnsStack, NeverBehind, SetSatp, Step
<1> QED
  BY <1>1, <1>3, <1>4, <1>5, <1>6, <1>9 DEF IInv

\* SetSp: ... and its stack ...
LEMMA SetSpStep ==
    ASSUME IInv, SetSp
    PROVE  IInv'
<1>1. Types'
  BY BootAssumption DEF IInv, Types, Handed, WithSatp, WithSp, SetSp, Step
<1>3. Expected'
  BY BootAssumption DEF IInv, Expected, SetSp, Step
<1>4. Handed'
  BY BootAssumption DEF IInv, Handed, Types, WithSatp, WithSp, SetSp, Step
<1>5. Started'
  BY BootAssumption DEF IInv, Started, Types, CoreTypes, Handed, WithSatp, WithSp, SetSp, Step
<1>6. FirstClaims'
  BY BootAssumption DEF IInv, FirstClaims, Types, CoreTypes, Started, SetSp, Step
<1>9. (CoreTypes /\ FirstCoreOwnsStack /\ NeverBehind)'
  BY DEF IInv, CoreTypes, FirstCoreOwnsStack, NeverBehind, SetSp, Step
<1> QED
  BY <1>1, <1>3, <1>4, <1>5, <1>6, <1>9 DEF IInv

\* StartCore: ... before the core runs.
LEMMA StartCoreStep ==
    ASSUME IInv, StartCore
    PROVE  IInv'
<1>2. CoreTypes'
  <2>1. next \in 1 .. Cores
    BY BootAssumption DEF IInv, Types, Handed, WithSatp, WithSp, StartCore, Step
  <2>2. [core[next] EXCEPT !.pc = "satp"] \in CoreStates
    BY <2>1 DEF IInv, CoreTypes, CoreStates, CorePcs
  <2>3. core' = [core EXCEPT ![next] = [core[next] EXCEPT !.pc = "satp"]]
    BY <2>1 DEF IInv, CoreTypes, StartCore
  <2> QED
    BY <2>1, <2>2, <2>3 DEF IInv, CoreTypes
<1>3. Expected'
  BY BootAssumption DEF IInv, Expected, StartCore, Step
<1>4. Handed'
  BY BootAssumption DEF IInv, Handed, Types, WithSatp, WithSp, StartCore, Step
<1>5. Started'
  BY BootAssumption DEF IInv, Started, Types, CoreTypes, Handed, WithSatp, WithSp, StartCore, Step
<1>6. FirstClaims'
  BY BootAssumption DEF IInv, FirstClaims, Types, CoreTypes, Started, StartCore, Step
<1>7. FirstCoreOwnsStack'
  BY BootAssumption DEF IInv, FirstCoreOwnsStack, Types, CoreTypes, StartCore, Step
<1>8. NeverBehind'
  BY BootAssumption DEF IInv, NeverBehind, Types, CoreTypes, StartCore, Step
<1>9. (Types)'
  BY DEF IInv, Types, StartCore, Step
<1> QED
  BY <1>2, <1>3, <1>4, <1>5, <1>6, <1>7, <1>8, <1>9 DEF IInv

\* WaitClaimed: the core is no longer the next one.
LEMMA WaitClaimedStep ==
    ASSUME IInv, WaitClaimed
    PROVE  IInv'
<1>1. Types'
  <2>1. next' \in 1 .. Cores + 1
    BY BootAssumption DEF IInv, Types, Handed, WithSatp, WithSp, WaitClaimed, Step
  <2>2. init' \in [sp : 0 .. Cores, satp : 0 .. Cores, claimed : BOOLEAN]
    BY DEF IInv, Types, WaitClaimed
  <2> QED
    BY <2>1, <2>2 DEF IInv, Types, WaitClaimed
<1>3. Expected'
  BY BootAssumption DEF IInv, Expected, WaitClaimed, Step
<1>4. Handed'
  BY BootAssumption DEF IInv, Handed, Types, WithSatp, WithSp, WaitClaimed, Step
<1>5. Started'
  BY BootAssumption DEF IInv, Started, Types, CoreTypes, Handed, WithSatp, WithSp, WaitClaimed, Step
<1>6. FirstClaims'
  BY BootAssumption DEF IInv, FirstClaims, Types, CoreTypes, Started, WaitClaimed, Step
<1>9. (CoreTypes /\ FirstCoreOwnsStack /\ NeverBehind)'
  BY DEF IInv, CoreTypes, FirstCoreOwnsStack, NeverBehind, WaitClaimed, Step
<1> QED
  BY <1>1, <1>3, <1>4, <1>5, <1>6, <1>9 DEF IInv

\* LoadTasks: every core is started.
LEMMA LoadTasksStep ==
    ASSUME IInv, LoadTasks
    PROVE  IInv'
<1>3. Expected'
  BY BootAssumption DEF IInv, Expected, LoadTasks, Step
<1>4. Handed'
  BY BootAssumption DEF IInv, Handed, Types, WithSatp, WithSp, LoadTasks, Step
<1>5. Started'
  BY BootAssumption DEF IInv, Started, Types, CoreTypes, Handed, WithSatp, WithSp, LoadTasks, Step
<1>9. (Types /\ CoreTypes /\ FirstClaims /\ FirstCoreOwnsStack /\ NeverBehind)'
  BY DEF IInv, Types, CoreTypes, FirstClaims, FirstCoreOwnsStack, NeverBehind, LoadTasks, Step
<1> QED
  BY <1>3, <1>4, <1>5, <1>9 DEF IInv

\* LoadSatp: the table of this core or, if others have started since, of a later one.
LEMMA LoadSatpStep ==
    ASSUME IInv, NEW c \in 1 .. Cores, LoadSatp(c)
    PROVE  IInv'
<1>2. CoreTypes'
  <2>1. core[c] \in CoreStates
    BY DEF IInv, CoreTypes
  <2>2. init.satp \in 1 .. Cores
    BY BootAssumption DEF IInv, Types, Handed, Started, WithSatp, WithSp, LoadSatp
  <2> QED
    BY <2>1, <2>2 DEF IInv, CoreTypes, CoreStates, CorePcs, LoadSatp, bootVars
<1>5. Started'
  BY BootAssumption DEF IInv, Started, Types, CoreTypes, LoadSatp, bootVars
<1>6. FirstClaims'
  BY BootAssumption DEF IInv, FirstClaims, Types, CoreTypes, Started, LoadSatp, bootVars
<1>7. FirstCoreOwnsStack'
  BY BootAssumption DEF IInv, FirstCoreOwnsStack, Types, CoreTypes, Handed, WithSatp, WithSp, Started, FirstClaims, LoadSatp, bootVars
<1>8. NeverBehind'
  BY BootAssumption DEF IInv, NeverBehind, Types, CoreTypes, Handed, WithSatp, WithSp, Started, FirstClaims, LoadSatp, bootVars
<1>9. (Types /\ Expected /\ Handed)'
  BY DEF IInv, Types, Expected, Handed, LoadSatp, bootVars
<1> QED
  BY <1>2, <1>5, <1>6, <1>7, <1>8, <1>9 DEF IInv

\* LoadSp: likewise its stack.
LEMMA LoadSpStep ==
    ASSUME IInv, NEW c \in 1 .. Cores, LoadSp(c)
    PROVE  IInv'
<1>2. CoreTypes'
  <2>1. core[c] \in CoreStates
    BY DEF IInv, CoreTypes
  <2>2. init.sp \in 1 .. Cores
    BY BootAssumption DEF IInv, Types, Handed, Started, WithSatp, WithSp, LoadSp
  <2> QED
    BY <2>1, <2>2 DEF IInv, CoreTypes, CoreStates, CorePcs, LoadSp, bootVars
<1>5. Started'
  BY BootAssumption DEF IInv, Started, Types, CoreTypes, LoadSp, bootVars
<1>6. FirstClaims'
  BY BootAssumption DEF IInv, FirstClaims, Types, CoreTypes, Started, LoadSp, bootVars
<1>7. FirstCoreOwnsStack'
  BY BootAssumption DEF IInv, FirstCoreOwnsStack, Types, CoreTypes, Handed, WithSatp, WithSp, Started, FirstClaims, LoadSp, bootVars
<1>8. NeverBehind'
  BY BootAssumption DEF IInv, NeverBehind, Types, CoreTypes, Handed, WithSatp, WithSp, Started, FirstClaims, LoadSp, bootVars
<1>9. (Types /\ Expected /\ Handed)'
  BY DEF IInv, Types, Expected, Handed, LoadSp, bootVars
<1> QED
  BY <1>2, <1>5, <1>6, <1>7, <1>8, <1>9 DEF IInv

\* CorePrints: nothing but the lock.
LEMMA CorePrintsStep ==
    ASSUME IInv, NEW c \in 1 .. Cores, CorePrints(c)
    PROVE  IInv'
<1>1. Types'
  BY BootAssumption DEF IInv, Types, CorePrints, CoreStep, bootVars
<1>2. CoreTypes'
  BY BootAssumption DEF IInv, CoreTypes, CoreStates, CorePcs, CorePrints, CoreStep, bootVars
<1>5. Started'
  BY BootAssumption DEF IInv, Started, Types, CoreTypes, CorePrints, CoreStep, bootVars
<1>6. FirstClaims'
  BY BootAssumption DEF IInv, FirstClaims, Types, CoreTypes, Started, CorePrints, CoreStep, bootVars
<1>7. FirstCoreOwnsStack'
  BY BootAssumption DEF IInv, FirstCoreOwnsStack, Types, CoreTypes, CorePrints, CoreStep, bootVars
<1>8. NeverBehind'
  BY BootAssumption DEF IInv, NeverBehind, Types, CoreTypes, CorePrints, CoreStep, bootVars
<1>9. (Expected /\ Handed)'
  BY DEF IInv, Expected, Handed, CorePrints, bootVars
<1> QED
  BY <1>1, <1>2, <1>5, <1>6, <1>7, <1>8, <1>9 DEF IInv

\* CorePrinted: the lock is free.
LEMMA CorePrintedStep ==
    ASSUME IInv, NEW c \in 1 .. Cores, CorePrinted(c)
    PROVE  IInv'
<1>1. Types'
  BY BootAssumption DEF IInv, Types, CorePrinted, CoreStep, bootVars
<1>2. CoreTypes'
  <2>1. [core[c] EXCEPT !.pc = "claim"] \in CoreStates
    BY DEF IInv, CoreTypes, CoreStates, CorePcs
  <2>2. core' = [core EXCEPT ![c] = [core[c] EXCEPT !.pc = "claim"]]
    BY DEF IInv, CoreTypes, CorePrinted, CoreStep
  <2> QED
    BY <2>1, <2>2 DEF IInv, CoreTypes
<1>5. Started'
  BY BootAssumption DEF IInv, Started, Types, CoreTypes, CorePrinted, CoreStep, bootVars
<1>6. FirstClaims'
  BY BootAssumption DEF IInv, FirstClaims, Types, CoreTypes, Started, CorePrinted, CoreStep, bootVars
<1>7. FirstCoreOwnsStack'
  BY BootAssumption DEF IInv, FirstCoreOwnsStack, Types, CoreTypes, CorePrinted, CoreStep, bootVars
<1>8. NeverBehind'
  BY BootAssumption DEF IInv, NeverBehind, Types, CoreTypes, CorePrinted, CoreStep, bootVars
<1>9. (Expected /\ Handed)'
  BY DEF IInv, Expected, Handed, CorePrinted, bootVars
<1> QED
  BY <1>1, <1>2, <1>5, <1>6, <1>7, <1>8, <1>9 DEF IInv

\* Claim: the first core has its stack before claimed is true.
LEMMA ClaimStep ==
    ASSUME IInv, NEW c \in 1 .. Cores, Claim(c)
    PROVE  IInv'
<1>1. Types'
  BY BootAssumption DEF IInv, Types, Claim, CoreStep, bootVars
<1>2. CoreTypes'
  BY BootAssumption DEF IInv, CoreTypes, CoreStates, CorePcs, Claim, CoreStep, bootVars
<1>4. Handed'
  BY BootAssumption DEF IInv, Handed, Types, WithSatp, WithSp, Claim, CoreStep, bootVars
<1>5. Started'
  BY BootAssumption DEF IInv, Started, Types, CoreTypes, Claim, CoreStep, bootVars
<1>6. FirstClaims'
  BY BootAssumption DEF IInv, FirstClaims, Types, CoreTypes, Started, Claim, CoreStep, bootVars
<1>7. FirstCoreOwnsStack'
  BY BootAssumption DEF IInv, FirstCoreOwnsStack, Types, CoreTypes, Claim, CoreStep, bootVars
<1>8. NeverBehind'
  BY BootAssumption DEF IInv, NeverBehind, Types, CoreTypes, Claim, CoreStep, bootVars
<1>9. (Expected)'
  BY DEF IInv, Expected, Claim, bootVars
<1> QED
  BY <1>1, <1>2, <1>4, <1>5, <1>6, <1>7, <1>8, <1>9 DEF IInv

\* Characters and their interrupts change nothing of it.
LEMMA KeyStep ==
    ASSUME IInv, Type \/ Interrupt \/ ReadKey \/ UNCHANGED vars
    PROVE  IInv'
<1>1. UNCHANGED <<bootVars, init, core>> /\ lock' = lock
  BY DEF Type, Interrupt, ReadKey, vars, bootVars
<1>2. (Types /\ CoreTypes /\ Expected /\ Handed)'
  BY <1>1 DEF IInv, Types, CoreTypes, Expected, Handed, bootVars
<1>3. (Started /\ FirstClaims /\ FirstCoreOwnsStack /\ NeverBehind)'
  BY <1>1 DEF IInv, Started, FirstClaims, FirstCoreOwnsStack, NeverBehind, bootVars
<1> QED
  BY <1>2, <1>3 DEF IInv

\* The inductive invariant: at every step of smp_init, whose stack CORE_INIT
\* has and which cores may take it.
THEOREM IInvHolds == Spec => []IInv
<1>1. IInv /\ [Next]_vars => IInv'
  BY StoreHartIdStep, EnableSerialStep, StoreHandlerStep, LockUartStep, SetIntStep, PrintedStep, SetSatpStep, SetSpStep, StartCoreStep, WaitClaimedStep, LoadTasksStep, LoadSatpStep, LoadSpStep, CorePrintsStep, CorePrintedStep, ClaimStep,
     KeyStep DEF Next, BootHart, Core
<1> QED
  BY <1>1, InitIInv, PTL DEF Spec

\* An interrupt of the UART goes to the boot hart and finds uart_handler,
\* whatever the hart's id.
THEOREM InterruptAlwaysExpected == Spec => []InterruptIsExpected
<1>1. IInv => InterruptIsExpected
  BY DEF IInv, Expected, InterruptIsExpected
<1> QED
  BY <1>1, IInvHolds, PTL

\* The first of any number of cores runs on its own stack and table, and none
\* on those of an earlier one.
THEOREM CoresStaySound == Spec => []CoresSound
<1>1. IInv => CoresSound
  BY DEF IInv, Types, CoreTypes, CoreStates, CoresSound, TypeOK
<1> QED
  BY <1>1, IInvHolds, PTL

-----------------------------------------------------------------------------
(* Clock: the arithmetic *)

\* What the assumption says of each constant.
LEMMA Constants ==
    /\ Freq \in Nat /\ Micros \in Nat /\ Word \in Nat /\ Second \in Nat
    /\ Freq > 0 /\ Micros > 0 /\ Word > 0 /\ Second > 0
    /\ Duration \in Nat /\ MaxTime \in Nat /\ Word <= MaxTime
BY ClockAssumption DEF ClockAssumption

\* Division with remainder.
LEMMA Division ==
    ASSUME NEW a \in Nat, NEW d \in Nat, d > 0
    PROVE  /\ a \div d \in Nat /\ a % d \in 0 .. d - 1
           /\ a = d * (a \div d) + (a % d)
OBVIOUS

\* Products keep order.
LEMMA Times ==
    ASSUME NEW a \in Nat, NEW b \in Nat, NEW k \in Nat, a <= b
    PROVE  a * k <= b * k
OBVIOUS

\* A quotient is at least what its dividend holds of the divisor.
LEMMA DivMonotone ==
    ASSUME NEW a \in Nat, NEW b \in Nat, NEW d \in Nat, d > 0, a <= b
    PROVE  a \div d <= b \div d
<1>1. a \div d \in Nat /\ b \div d \in Nat
  BY Division
<1>2. a = d * (a \div d) + (a % d) /\ a % d \in 0 .. d - 1
  BY Division
<1>3. b = d * (b \div d) + (b % d) /\ b % d \in 0 .. d - 1
  BY Division
<1>4. SUFFICES ASSUME (b \div d) + 1 <= a \div d
               PROVE  FALSE
  BY <1>1
<1>5. ((b \div d) + 1) * d <= (a \div d) * d
  BY <1>1, <1>4, Times
<1>6. ((b \div d) + 1) * d = d * (b \div d) + d /\ (a \div d) * d = d * (a \div d)
  BY <1>1
<1>7. QED
  BY <1>1, <1>2, <1>3, <1>5, <1>6

\* Three factors in any order.
LEMMA Associative ==
    ASSUME NEW a \in Nat, NEW b \in Nat, NEW k \in Nat
    PROVE  (a * b) * k = a * (b * k) /\ (a * b) * k = (a * k) * b
OBVIOUS

\* A micro-second as the driver counts it is no shorter than a microsecond.
LEMMA TicksPerMicro ==
    /\ ticks_per_micro \in Nat /\ ticks_per_micro > 0
    /\ Freq <= ticks_per_micro * Micros
<1> DEFINE top == Freq + Micros - 1
<1>1. top \in Nat /\ top >= Micros /\ Micros \in Nat /\ Micros > 0 /\ Freq \in Nat
  BY Constants
<1>2. /\ top \div Micros \in Nat /\ top % Micros \in 0 .. Micros - 1
      /\ top = Micros * (top \div Micros) + (top % Micros)
  BY <1>1, Division
<1>3. top \div Micros # 0
  BY <1>1, <1>2
<1>4. QED
  BY <1>1, <1>2, <1>3 DEF ticks_per_micro

\* checked_duration_since counts no more microseconds than have passed.
LEMMA CountsNoMore ==
    ASSUME NEW d \in Nat
    PROVE  /\ MicrosOf(d) \in Nat
           /\ MicrosOf(d) * Freq <= d * Micros
<1> DEFINE q == d \div Freq
           r == d % Freq
           t == ticks_per_micro
           m == r \div t
<1>1. /\ Freq \in Nat /\ Freq > 0 /\ Micros \in Nat /\ t \in Nat /\ t > 0
      /\ Freq <= t * Micros
  BY Constants, TicksPerMicro
<1>2. q \in Nat /\ r \in Nat /\ d = Freq * q + r
  BY <1>1, Division
<1>3. m \in Nat /\ r % t \in Nat /\ r = t * m + (r % t)
  BY <1>1, <1>2, Division
<1>4. MicrosOf(d) = q * Micros + m
  BY DEF MicrosOf
<1> HIDE DEF q, r, t, m
<1>5. q * Micros \in Nat /\ t * Micros \in Nat /\ t * m \in Nat /\ Freq * q \in Nat
  BY <1>1, <1>2, <1>3
<1>6. m * Freq <= r * Micros
  <2>1. Freq * m <= (t * Micros) * m
    BY <1>1, <1>3, <1>5, Times
  <2>2. (t * Micros) * m = (t * m) * Micros
    BY <1>1, <1>3, Associative
  <2>3. t * m <= r
    BY <1>3, <1>5
  <2>4. (t * m) * Micros <= r * Micros
    BY <1>1, <1>2, <1>5, <2>3, Times
  <2>5. m * Freq = Freq * m
    BY <1>1, <1>3
  <2>6. m * Freq \in Nat /\ (t * m) * Micros \in Nat /\ r * Micros \in Nat
    BY <1>1, <1>2, <1>3, <1>5
  <2>7. QED
    BY <2>1, <2>2, <2>4, <2>5, <2>6
<1>7. (q * Micros + m) * Freq = (q * Micros) * Freq + m * Freq
  BY <1>1, <1>3, <1>5
<1>8. d * Micros = (Freq * q) * Micros + r * Micros
  BY <1>1, <1>2, <1>5
<1>9. (Freq * q) * Micros = (q * Micros) * Freq
  <2>1. Freq * q = q * Freq
    BY <1>1, <1>2
  <2>2. (q * Freq) * Micros = (q * Micros) * Freq
    BY <1>1, <1>2, Associative
  <2>3. QED
    BY <2>1, <2>2
<1>10. (q * Micros) * Freq \in Nat /\ m * Freq \in Nat /\ r * Micros \in Nat
  BY <1>1, <1>2, <1>3, <1>5
<1>11. QED
  BY <1>3, <1>4, <1>5, <1>6, <1>7, <1>8, <1>9, <1>10

\* It forgets less than a second of them: a time that is Duration and a second
\* long counts as Duration at least.
LEMMA ForgetsLessThanSecond ==
    ASSUME NEW d \in Nat, d * Micros >= (Duration + Micros) * Freq
    PROVE  MicrosOf(d) >= Duration
<1> DEFINE q == d \div Freq
           r == d % Freq
           m == r \div ticks_per_micro
<1>1. /\ Freq \in Nat /\ Freq > 0 /\ Micros \in Nat /\ Micros > 0 /\ Duration \in Nat
  BY Constants
<1>2. q \in Nat /\ r \in 0 .. Freq - 1 /\ d = Freq * q + r
  BY <1>1, Division
<1>3. m \in Nat
  BY <1>2, TicksPerMicro, Division
<1>4. MicrosOf(d) = q * Micros + m
  BY DEF MicrosOf
<1> HIDE DEF q, r, m
<1>5. q * Micros \in Nat
  BY <1>1, <1>2
<1>6. SUFFICES ASSUME q * Micros + 1 <= Duration
               PROVE  FALSE
  BY <1>1, <1>3, <1>4, <1>5
<1>7. d + 1 <= (q + 1) * Freq
  BY <1>1, <1>2
<1>8. (d + 1) * Micros <= ((q + 1) * Freq) * Micros
  BY <1>1, <1>2, <1>7, Times
<1>9. ((q + 1) * Freq) * Micros = ((q + 1) * Micros) * Freq
  BY <1>1, <1>2, Associative
<1>10. (q + 1) * Micros <= Duration + Micros
  BY <1>1, <1>2, <1>5, <1>6
<1>11. ((q + 1) * Micros) * Freq <= (Duration + Micros) * Freq
  BY <1>1, <1>2, <1>10, Times
<1>12. (d + 1) * Micros = d * Micros + Micros
  BY <1>1
<1>13. /\ d * Micros \in Nat /\ (Duration + Micros) * Freq \in Nat
       /\ ((q + 1) * Micros) * Freq \in Nat
  BY <1>1, <1>2
<1>14. QED
  BY <1>1, <1>8, <1>9, <1>11, <1>12, <1>13

-----------------------------------------------------------------------------
(* Clock: the invariant *)

\* Where the wait may be.
Waits == [pc : {"idle", "look", "check", "some", "failed", "late"}, start : Nat, end : Nat]

\* Where both functions are, and what they have read.
Shape ==
    /\ now \in 0 .. MaxTime
    /\ wait \in Waits
    /\ wait.start <= now /\ wait.end <= now
    /\ rtc \in [pc : {"idle", "low", "read"}, from : Nat, low : 0 .. Word - 1, stamp : Nat]

\* Who gave up had counted the duration from start to end.
GaveUp == wait.pc = "late" => /\ wait.start <= wait.end
                              /\ MicrosOf(wait.end - wait.start) >= Duration

\* low is the low word of the time the reading began.
LowOfFrom == rtc.pc # "idle" => rtc.from <= now /\ rtc.low = rtc.from % Word

ClockInv == Shape /\ GaveUp /\ LowOfFrom /\ TimestampWithinTurn

\* A clock's high word read after its low word: no time before the low word was
\* read, and less than a turn after the high word was.
LEMMA Combined ==
    ASSUME NEW from \in Nat, NEW at \in Nat, from <= at
    PROVE  LET t == (at \div Word) * Word + (from % Word) IN
           /\ t \div Second \in Nat
           /\ t \div Second >= from \div Second
           /\ (t \div Second) * Second < at + Word
<1> DEFINE h == at \div Word
           l == from % Word
           g == from \div Word
           t == h * Word + l
<1>1. Word \in Nat /\ Word > 0 /\ Second \in Nat /\ Second > 0
  BY Constants
<1>2. h \in Nat /\ at % Word \in Nat /\ at = Word * h + (at % Word)
  BY <1>1, Division
<1>3. g \in Nat /\ l \in 0 .. Word - 1 /\ from = Word * g + l
  BY <1>1, Division
<1>4. g <= h
  BY <1>1, DivMonotone
<1> HIDE DEF h, l, g
<1>5. g * Word <= h * Word /\ g * Word \in Nat /\ h * Word \in Nat
      /\ Word * g = g * Word /\ Word * h = h * Word
  BY <1>1, <1>2, <1>3, <1>4, Times
<1>6. t \in Nat /\ from <= t /\ t < at + Word
  BY <1>1, <1>2, <1>3, <1>5
<1> HIDE DEF t
<1>7. t \div Second \in Nat /\ t % Second \in Nat /\ t = Second * (t \div Second) + (t % Second)
  BY <1>1, <1>6, Division
<1>8. from \div Second <= t \div Second
  BY <1>1, <1>6, DivMonotone
<1>9. /\ Second * (t \div Second) = (t \div Second) * Second
      /\ (t \div Second) * Second \in Nat
  BY <1>1, <1>7
<1>10. QED
  BY <1>1, <1>6, <1>7, <1>8, <1>9 DEF t, h, l

\* Nobody has begun.
LEMMA InitClockInv == ClockInit => ClockInv
<1>1. Word \in Nat /\ Word > 0 /\ MaxTime \in Nat /\ Word <= MaxTime
  BY Constants
<1>2. QED
  BY <1>1 DEF ClockInit, NotReading, ClockInv, Shape, Waits, GaveUp, LowOfFrom, TimestampWithinTurn

\* The wait's steps.
LEMMA WaitStep ==
    ASSUME ClockInv, WaitReady
    PROVE  ClockInv'
<1> USE DEF ClockInv
<1>1. CASE Start
  <2>1. wait' = [wait EXCEPT !.pc = "look", !.start = now] /\ UNCHANGED <<now, device, rtc>>
    BY <1>1 DEF Start
  <2>2. now \in Nat
    BY Constants DEF Shape, Waits
  <2>3. /\ wait' \in Waits
        /\ wait'.pc = "look" /\ wait'.start = now /\ wait'.end = wait.end
    BY <2>1, <2>2 DEF Shape, Waits
  <2>4. Shape'
    BY <2>1, <2>2, <2>3 DEF Shape, Waits
  <2>5. QED
    BY <2>1, <2>3, <2>4 DEF GaveUp, LowOfFrom, TimestampWithinTurn
<1>2. CASE Look
  BY <1>2 DEF Look, Shape, Waits, GaveUp, LowOfFrom, TimestampWithinTurn
<1>3. CASE Check
  <2>1. wait.pc = "check" /\ UNCHANGED <<now, device, rtc>>
    BY <1>3 DEF Check
  <2>2. CASE Expired(wait.start, now)
    <3>1. wait' = [wait EXCEPT !.pc = "late", !.end = now]
      BY <1>3, <2>2 DEF Check
    <3>2. MicrosOf(now - wait.start) >= Duration
      BY <2>2, Constants DEF Expired, Shape, Waits
    <3>3. wait'.start = wait.start /\ wait'.end = now /\ wait'.pc = "late"
      BY <3>1 DEF Shape, Waits
    <3>4. Shape'
      <4>1. now \in Nat
        BY Constants DEF Shape, Waits
      <4>2. wait' \in Waits
        BY <3>1, <4>1 DEF Shape, Waits
      <4>3. QED
        BY <2>1, <3>3, <4>1, <4>2 DEF Shape, Waits
    <3>5. GaveUp'
      BY <2>1, <3>2, <3>3 DEF GaveUp, MicrosOf, Shape, Waits
    <3>6. QED
      BY <2>1, <3>4, <3>5 DEF LowOfFrom, TimestampWithinTurn
  <2>3. CASE ~Expired(wait.start, now)
    BY <1>3, <2>1, <2>3 DEF Check, Shape, Waits, GaveUp, LowOfFrom, TimestampWithinTurn
  <2>4. QED
    BY <2>2, <2>3
<1>4. QED
  BY <1>1, <1>2, <1>3 DEF WaitReady

\* The steps of Time::read.
LEMMA ReadStep ==
    ASSUME ClockInv, ReadLow \/ ReadHigh \/ ReadAgain
    PROVE  ClockInv'
<1> USE DEF ClockInv
<1>0. /\ Word \in Nat /\ Word > 0 /\ now \in Nat
  BY Constants DEF Shape, Waits
<1>1. CASE ReadLow
  <2>1. now % Word \in 0 .. Word - 1
    BY <1>0, Division
  <2>2. /\ rtc.pc = "idle" /\ UNCHANGED <<now, wait, device>>
        /\ rtc' = [rtc EXCEPT !.pc = "low", !.from = now, !.low = now % Word]
    BY <1>1 DEF ReadLow
  <2> DEFINE l == now % Word
  <2> HIDE DEF l
  <2>3. l \in 0 .. Word - 1 /\ rtc' = [rtc EXCEPT !.pc = "low", !.from = now, !.low = l]
    BY <2>1, <2>2 DEF l
  <2>4. Shape' /\ rtc'.pc = "low" /\ rtc'.from = now /\ rtc'.low = l
    BY <1>0, <2>2, <2>3 DEF Shape, Waits
  <2>5. QED
    BY <1>0, <2>2, <2>4 DEF l, GaveUp, LowOfFrom, TimestampWithinTurn, MicrosOf, ticks_per_micro
<1>2. CASE ReadHigh
  <2> DEFINE t == (now \div Word) * Word + (rtc.from % Word)
  <2>1. /\ rtc.pc = "low" /\ UNCHANGED <<now, wait, device>>
        /\ rtc.from \in Nat /\ rtc.from <= now /\ rtc.low = rtc.from % Word
        /\ rtc' = [rtc EXCEPT !.pc = "read", !.stamp = t \div Second]
    BY <1>2 DEF ReadHigh, Shape, Waits, LowOfFrom
  <2>2. /\ t \div Second \in Nat
        /\ t \div Second >= rtc.from \div Second
        /\ (t \div Second) * Second < now + Word
    BY <1>0, <2>1, Combined
  <2> HIDE DEF t
  <2>3. QED
    BY <1>0, <2>1, <2>2 DEF Shape, Waits, GaveUp, LowOfFrom, TimestampWithinTurn
<1>3. CASE ReadAgain
  BY <1>0, <1>3 DEF ReadAgain, NotReading, Shape, Waits, GaveUp, LowOfFrom, TimestampWithinTurn
<1>4. QED
  BY <1>1, <1>2, <1>3

\* Every step keeps it.
LEMMA ClockStep == ClockInv /\ [ClockNext]_clockVars => ClockInv'
<1> SUFFICES ASSUME ClockInv, [ClockNext]_clockVars
             PROVE  ClockInv'
  OBVIOUS
<1> USE DEF ClockInv
<1>1. CASE WaitReady
  BY <1>1, WaitStep
<1>2. CASE ReadLow \/ ReadHigh \/ ReadAgain
  BY <1>2, ReadStep
<1>3. CASE Tick
  <2>1. now < MaxTime /\ now' = now + 1 /\ UNCHANGED <<wait, device, rtc>> /\ now \in Nat
        /\ MaxTime \in Nat /\ Word \in Nat /\ Second \in Nat
    BY <1>3, Constants DEF Tick, Shape, Waits
  <2>2. rtc.stamp * Second \in Nat
    BY <2>1 DEF Shape, Waits
  <2>3. TimestampWithinTurn'
    BY <2>1, <2>2 DEF TimestampWithinTurn
  <2>4. Shape' /\ GaveUp' /\ LowOfFrom'
    BY <2>1 DEF Shape, Waits, GaveUp, LowOfFrom, MicrosOf, ticks_per_micro
  <2>5. QED
    BY <2>3, <2>4
<1>4. CASE Answer
  BY <1>4 DEF Answer, Shape, Waits, GaveUp, LowOfFrom, TimestampWithinTurn
<1>5. CASE UNCHANGED clockVars
  BY <1>5 DEF clockVars, Shape, Waits, GaveUp, LowOfFrom, TimestampWithinTurn
<1>6. QED
  BY <1>1, <1>2, <1>3, <1>4, <1>5 DEF ClockNext

\* wait_ready's invariant says that its time limit is kept.
LEMMA InvInTime == ClockInv => WaitInTime
<1> SUFFICES ASSUME ClockInv
             PROVE  WaitInTime
  OBVIOUS
<1>1. /\ Freq \in Nat /\ Freq > 0 /\ Micros \in Nat /\ Duration \in Nat
  BY Constants
<1>2. ClockTypeOK
  BY DEF ClockInv, Shape, Waits, ClockTypeOK
<1>3. NeverGivesUpEarly
  <2> SUFFICES ASSUME wait.pc = "late"
               PROVE  (wait.end - wait.start) * Micros >= Duration * Freq
    BY DEF NeverGivesUpEarly
  <2> DEFINE d == wait.end - wait.start
  <2>1. d \in Nat /\ MicrosOf(d) >= Duration
    BY DEF ClockInv, Shape, Waits, GaveUp
  <2> HIDE DEF d
  <2>2. MicrosOf(d) \in Nat /\ MicrosOf(d) * Freq <= d * Micros
    BY <2>1, CountsNoMore
  <2>3. Duration * Freq <= MicrosOf(d) * Freq
    BY <1>1, <2>1, <2>2, Times
  <2>4. Duration * Freq \in Nat /\ MicrosOf(d) * Freq \in Nat /\ d * Micros \in Nat
    BY <1>1, <2>1, <2>2
  <2>5. d * Micros >= Duration * Freq
    BY <2>2, <2>3, <2>4
  <2>6. QED
    BY <2>5 DEF d
<1>4. OverdueByLessThanSecond
  <2> SUFFICES ASSUME (now - wait.start) * Micros >= (Duration + Micros) * Freq
               PROVE  Expired(wait.start, now)
    BY DEF OverdueByLessThanSecond
  <2>1. now - wait.start \in Nat /\ ~(now < wait.start)
    BY DEF ClockInv, Shape, Waits
  <2>2. MicrosOf(now - wait.start) >= Duration
    BY <2>1, ForgetsLessThanSecond
  <2>3. QED
    BY <2>1, <2>2 DEF Expired
<1>5. QED
  BY <1>2, <1>3, <1>4 DEF WaitInTime

-----------------------------------------------------------------------------
(* Clock: the theorems *)

\* timing.rs: whatever the timer's frequency and the duration asked for, rounding
\* makes wait_ready give up no earlier than its limit, and by less than a second late.
THEOREM TimeLimitKept == ClockSpec => []WaitInTime
BY InitClockInv, ClockStep, InvInTime, PTL DEF ClockSpec

\* goldfish_rtc/mod.rs, Time::read: low word before high word, at whatever turn of
\* the low word and however long between the two.
THEOREM ReadWithinTurn == ClockSpec => []TimestampWithinTurn
<1>1. ClockInv => TimestampWithinTurn
  BY DEF ClockInv
<1>2. QED
  BY <1>1, InitClockInv, ClockStep, PTL DEF ClockSpec

=============================================================================
