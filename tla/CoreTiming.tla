----------------------------- MODULE CoreTiming -----------------------------
(***************************************************************************)
(* How the run loop passes time on to the peripherals (src/src/            *)
(* core_timing.h and Interpreter::Run).  A busy turn ticks once.  An idle  *)
(* turn, the processor being in a branch to itself, skips as many ticks as *)
(* every peripheral allows, ticks once for what may fire in it, and ticks  *)
(* once more after the instruction.                                        *)
(***************************************************************************)
EXTENDS Peripherals

CONSTANT MaxTurn        \* bound: the cycles that Run still has to do

ASSUME TimingAssumption == MaxTurn \in Nat \ {0}

Min2(a, b) == IF a < b THEN a ELSE b

\* What CoreTiming::Skip settles for: no peripheral misses an interrupt.
MaxSkips == {TimerMaxSkip(timer[i]) : i \in TimerId}
                \cup {BtdmpMaxSkip(btdmp[j], Infinity) : j \in BtdmpId}

Skippable(maximum) ==
    CHOOSE n \in 0 .. maximum :
        /\ \A s \in MaxSkips : n <= s
        /\ n = maximum \/ n \in MaxSkips

SkipAll(ticks) ==
    [timer |-> [i \in TimerId |-> TimerSkip(timer[i], ticks)],
     btdmp |-> [j \in BtdmpId |-> BtdmpSkip(btdmp[j], ticks)],
     elapsed |-> ticks,
     fired |-> {},
     audio |-> [j \in BtdmpId |-> SkipAudio(btdmp[j], ticks)]]

\* A turn of the loop that does not wait.
BusyTurn == Becomes(TickAll(Clock))

\* A turn of the loop that waits, with so many cycles left.
IdleTurn(cycles) ==
    LET waited == SkipAll(Skippable(cycles - 1))
    IN  Becomes(TickAll(IF waited.elapsed < cycles - 1 THEN TickAll(waited) ELSE waited))

TimingNext == Mmio \/ BusyTurn \/ \E cycles \in 1 .. MaxTurn : IdleTurn(cycles)

TimingSpec == PeriphInit /\ [][TimingNext]_periphVars

TimingTypeOK ==
    /\ timer \in [TimerId -> TimerState]
    /\ btdmp \in [BtdmpId -> BtdmpState]
    /\ elapsed \in 0 .. MaxTurn
    /\ fired \subseteq (TimerId \cup BtdmpId) \X (0 .. MaxTurn)
    /\ \A j \in BtdmpId : Len(audio[j]) <= MaxTurn

-----------------------------------------------------------------------------
T == INSTANCE Ticking

\* Skipping is not observable: the peripherals' registers, the samples and the
\* interrupts, each at its cycle, are those of a processor that ticks through
\* every one of the cycles.
ImplementsTicking == T!TickingSpec

\* The assertions of Timer::Skip and Btdmp::Skip never fail: what every
\* peripheral allows is what each of them can do.
MaySkip ==
    \A cycles \in 1 .. MaxTurn :
        LET n == Skippable(cycles - 1)
        IN  /\ \A i \in TimerId : TimerMaySkip(timer[i], n)
            /\ \A j \in BtdmpId : BtdmpMaySkip(btdmp[j], n)

\* The flags in the status register agree with the queue, though Send, Tick, Skip
\* and the flush keep them by different rules.
FlagsAgree ==
    \A j \in BtdmpId :
        /\ btdmp[j].transmit_empty = (btdmp[j].transmit_queue = <<>>)
        /\ btdmp[j].transmit_full = (Len(btdmp[j].transmit_queue) = Capacity)

\* timer.md: START_COUNT is what the counter is loaded with on restarting.  A
\* timer that restarts from START_COUNT 0 has nothing to count down.
RestartLoadsStart ==
    [][\A i \in TimerId :
            /\ ~timer[i].pause /\ timer[i].count_mode = AutoRestart
            /\ timer[i].counter = 0 /\ Start(timer[i]) = 0
            => \A n \in 0 .. MaxTurn : <<i, n>> \notin fired']_periphVars
=============================================================================
