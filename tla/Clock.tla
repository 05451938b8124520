-------------------------------- MODULE Clock --------------------------------
(***************************************************************************)
(* Who reads a clock that goes on meanwhile: the Timeout of                *)
(* LSD/src/timing.rs under wait_ready of drivers/pci/nvme/mod.rs, and      *)
(* Time::read of drivers/goldfish_rtc/mod.rs. The device that is waited    *)
(* for, rdtime and the registers of the RTC are external. One hart reads   *)
(* both clocks, so it is in one of the two functions at a time.            *)
(***************************************************************************)
EXTENDS Integers

CONSTANTS
    Freq,       \* TIMER_SPEED, ticks in a second
    Micros,     \* MICROS_PER_SECOND
    Duration,   \* of the timeout, in microseconds: CAP.TO
    Word,       \* 2^32
    Second,     \* units of the RTC in a second, 10^9
    MaxTime     \* bound: when the model's time ends

ASSUME ClockAssumption ==
    /\ {Freq, Micros, Word, Second} \subseteq Nat \ {0}
    /\ {Duration, MaxTime} \subseteq Nat
    /\ Word <= MaxTime     \* the model's time reaches the second turn of the low word

VARIABLES
    now,        \* the time, of rdtime and of the RTC
    wait,       \* wait_ready: where it is, its start, and when it gave up
    device,     \* CSTS: "busy", "RDY" or "CFS"
    rtc         \* Time::read: where it is, when it began, low, and the timestamp

clockVars == <<now, wait, device, rtc>>

NotReading == [pc |-> "idle", from |-> 0, low |-> 0, stamp |-> 0]

ClockInit ==
    /\ now \in 0 .. Word - 1
    /\ wait = [pc |-> "idle", start |-> 0, end |-> 0]
    /\ device = "busy"
    /\ rtc = NotReading

-----------------------------------------------------------------------------
(* timing.rs *)

\* Deviation: rounded down.
FlooredTicks == IF Freq < Micros THEN 1 ELSE Freq \div Micros

ticks_per_micro == (Freq + Micros - 1) \div Micros

\* Deviation: the whole seconds are forgotten.
SubsecMicros(diff) == (diff % Freq) \div ticks_per_micro

\* checked_duration_since, in microseconds
MicrosOf(diff) == (diff \div Freq) * Micros + (diff % Freq) \div ticks_per_micro

\* Timeout::expired; duration_since is zero if the clock seems to run backwards.
Expired(start, at) == IF at < start THEN Duration = 0 ELSE MicrosOf(at - start) >= Duration

-----------------------------------------------------------------------------
(* wait_ready *)

\* Time left for a timeout to expire before the model's time ends.
Room == now + (Duration * Freq) \div Micros + 2 * Freq <= MaxTime

Start ==
    /\ wait.pc = "idle" /\ rtc.pc = "idle" /\ Room
    /\ wait' = [wait EXCEPT !.pc = "look", !.start = now]
    /\ UNCHANGED <<now, device, rtc>>

Look ==
    /\ wait.pc = "look"
    /\ wait' = [wait EXCEPT !.pc = IF device = "RDY" THEN "some"
                                   ELSE IF device = "CFS" THEN "failed" ELSE "check"]
    /\ UNCHANGED <<now, device, rtc>>

Check ==
    /\ wait.pc = "check"
    /\ wait' = IF Expired(wait.start, now)
               THEN [wait EXCEPT !.pc = "late", !.end = now] ELSE [wait EXCEPT !.pc = "look"]
    /\ UNCHANGED <<now, device, rtc>>

-----------------------------------------------------------------------------
(* Time::read reads both words twice and takes one of each. *)

\* Deviation: the words are read in the other order.
ReadHighFirst ==
    /\ rtc.pc = "idle" /\ wait.pc = "idle"
    /\ rtc' = [rtc EXCEPT !.pc = "low", !.from = now, !.low = Word * (now \div Word)]
    /\ UNCHANGED <<now, wait, device>>

ReadLow ==
    /\ rtc.pc = "idle" /\ wait.pc = "idle"
    /\ rtc' = [rtc EXCEPT !.pc = "low", !.from = now, !.low = now % Word]
    /\ UNCHANGED <<now, wait, device>>

ReadHigh ==
    /\ rtc.pc = "low"
    /\ rtc' = [rtc EXCEPT !.pc = "read", !.stamp = ((now \div Word) * Word + rtc.low) \div Second]
    /\ UNCHANGED <<now, wait, device>>

ReadAgain ==
    /\ rtc.pc = "read"
    /\ rtc' = NotReading
    /\ UNCHANGED <<now, wait, device>>

-----------------------------------------------------------------------------
(* Time and the device *)

Tick ==
    /\ now < MaxTime
    /\ now' = now + 1
    /\ UNCHANGED <<wait, device, rtc>>

Answer ==
    /\ device = "busy"
    /\ device' \in {"RDY", "CFS"}
    /\ UNCHANGED <<now, wait, rtc>>

WaitReady == Start \/ Look \/ Check

ClockNext == WaitReady \/ ReadLow \/ ReadHigh \/ ReadAgain \/ Tick \/ Answer

ClockSpec == ClockInit /\ [][ClockNext]_clockVars

\* Time passes and the loop goes on; the device may never answer.
FairClock == ClockSpec /\ WF_clockVars(Tick) /\ WF_clockVars(Look \/ Check)

-----------------------------------------------------------------------------
(* Properties *)

ClockTypeOK ==
    /\ now \in 0 .. MaxTime
    /\ wait.pc \in {"idle", "look", "check", "some", "failed", "late"}
    /\ wait.start \in 0 .. now /\ wait.end \in 0 .. now
    /\ rtc.low \in 0 .. Word - 1

\* The driver gives up on a controller that has not failed no earlier than the
\* time it has, however little its clock's frequency is a round number.
NeverGivesUpEarly ==
    wait.pc = "late" => (wait.end - wait.start) * Micros >= Duration * Freq

\* A timeout is overdue by less than a second, which is what rounding can take.
OverdueByLessThanSecond ==
    wait.pc # "idle" /\ (now - wait.start) * Micros >= (Duration + Micros) * Freq =>
        Expired(wait.start, now)

\* wait_ready's time limit is neither cut short nor overstayed.
WaitInTime == ClockTypeOK /\ NeverGivesUpEarly /\ OverdueByLessThanSecond

\* The wait ends if the device never answers too.
WaitEnds == wait.pc = "look" ~> wait.pc \in {"some", "failed", "late"}

\* A timestamp of Time::read is never behind the time its reading began, and ahead of the time
\* its reading ended by less than one turn of the low word.
TimestampWithinTurn ==
    rtc.pc = "read" => /\ rtc.stamp >= rtc.from \div Second
                       /\ rtc.stamp * Second < now + Word

=============================================================================
