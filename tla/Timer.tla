-------------------------------- MODULE Timer --------------------------------
(***************************************************************************)
(* A timer (src/src/timer.cpp) as operators on a record of its members.    *)
(* Members are called as in timer.h.  HalfRange stands for 2^16, so that a *)
(* counter is a pair of halves and wraps at HalfRange^2 as u32 does.       *)
(*                                                                         *)
(* scale is left out: Tick aborts the program unless it is 0, and so are   *)
(* the watchdog modes, which the same assertion rejects.                   *)
(***************************************************************************)
EXTENDS Integers

CONSTANT HalfRange

ASSUME TimerAssumption == HalfRange \in Nat /\ HalfRange > 1

Single      == 0
AutoRestart == 1
FreeRunning == 2
EventCount  == 3
CountMode == Single .. EventCount

Half     == 0 .. HalfRange - 1
Range32  == HalfRange * HalfRange
Counter  == 0 .. Range32 - 1
MaxCount == Range32 - 1                         \* 0xFFFFFFFF
Infinity == Range32 * Range32 - 1               \* the greatest u64

TimerState ==
    [update_mmio : BOOLEAN, pause : BOOLEAN, count_mode : CountMode,
     start_high : Half, start_low : Half, counter : Counter,
     counter_high : Half, counter_low : Half]

TimerReset ==
    [update_mmio |-> FALSE, pause |-> FALSE, count_mode |-> Single,
     start_high |-> 0, start_low |-> 0, counter |-> 0,
     counter_high |-> 0, counter_low |-> 0]

Start(t) == t.start_high * HalfRange + t.start_low

UpdateMMIO(t) ==
    IF t.update_mmio
      THEN [t EXCEPT !.counter_high = t.counter \div HalfRange,
                     !.counter_low = t.counter % HalfRange]
      ELSE t

\* counter takes a new value and the MMIO mirror follows, if it is on.
Load(t, value) == UpdateMMIO([t EXCEPT !.counter = value])

Restart(t) == IF t.count_mode = FreeRunning THEN t ELSE Load(t, Start(t))

\* Neither ticked nor skipped.
Halted(t) == t.pause \/ t.count_mode = EventCount

\* What a halted, single-count or expired timer does not have: a next period.
Rearms(t) == t.count_mode \in {AutoRestart, FreeRunning}

TimerTickUnderflows(t) ==
    IF Halted(t) THEN t
    ELSE IF t.counter = 0 /\ t.count_mode = AutoRestart THEN Restart(t)
    ELSE IF t.counter = 0 /\ t.count_mode = FreeRunning THEN Load(t, MaxCount)
    ELSE Load(t, t.counter - 1)

TimerTick(t) ==
    IF Halted(t) THEN t
    ELSE IF t.counter # 0 THEN Load(t, t.counter - 1)
    ELSE IF t.count_mode = AutoRestart THEN Restart(t)
    ELSE IF t.count_mode = FreeRunning THEN Load(t, MaxCount)
    ELSE t

\* Tick calls the interrupt handler.
TimerFires(t) == ~Halted(t) /\ t.counter = 1

EventCounts(t) == ~t.pause /\ t.count_mode = EventCount /\ t.counter # 0
TimerTickEvent(t) == IF EventCounts(t) THEN Load(t, t.counter - 1) ELSE t
EventFires(t) == EventCounts(t) /\ t.counter = 1

-----------------------------------------------------------------------------
(***************************************************************************)
(* Skipping, for a processor that waits.                                   *)
(***************************************************************************)
\* The period that begins when the counter is 0.
Period32(t) == IF t.count_mode = AutoRestart THEN Start(t) ELSE MaxCount

TimerMaxSkipIntoFire(t) ==
    IF Halted(t) \/ (t.counter = 0 /\ ~Rearms(t)) THEN Infinity
    ELSE IF t.counter = 0 THEN Period32(t)
    ELSE t.counter

TimerMaxSkip(t) ==
    IF Halted(t) \/ (t.counter = 0 /\ ~Rearms(t)) THEN Infinity
    ELSE IF t.counter = 0 THEN Period32(t)
    ELSE t.counter - 1

TimerSkipOffByOne(t, ticks) ==
    IF Halted(t) \/ (t.counter = 0 /\ ~Rearms(t)) THEN t
    ELSE IF t.counter = 0 THEN Load(t, (Period32(t) - ticks) % Range32)
    ELSE Load(t, t.counter - ticks)

\* reset - (ticks - 1) in u32: with no ticks to skip it is one more than reset.
TimerSkip(t, ticks) ==
    IF Halted(t) \/ (t.counter = 0 /\ ~Rearms(t)) THEN t
    ELSE IF t.counter = 0 THEN Load(t, (Period32(t) - ticks + 1) % Range32)
    ELSE Load(t, t.counter - ticks)

\* The assertions of Skip.
TimerMaySkip(t, ticks) ==
    \/ Halted(t)
    \/ t.counter = 0 /\ (Rearms(t) => Period32(t) >= ticks)
    \/ t.counter > ticks
=============================================================================
