--------------------------- MODULE TimingTheorems ---------------------------
(***************************************************************************)
(* The run loop that skips implements the processor that ticks: proved for *)
(* any number of peripherals, widths, capacities and periods, provided     *)
(* that no timer restarts from START_COUNT 0; what its invariant says      *)
(* needs no such condition.                                                *)
(***************************************************************************)
EXTENDS CoreTiming, NaturalLemmas, TLAPS

-----------------------------------------------------------------------------
(***************************************************************************)
(* Skipping a timer is ticking it, for any width of the counter.           *)
(***************************************************************************)
\* What a skip of so many ticks leaves in the counter of a running timer.
Skipped(t, ticks) ==
    IF t.counter = 0 THEN (Period32(t) - ticks + 1) % Range32 ELSE t.counter - ticks

\* The counter's range is a positive number.
LEMMA Range32Type == Range32 \in Nat /\ Range32 > 1 /\ Counter = 0 .. Range32 - 1
<1>1. HalfRange \in Int /\ HalfRange > 1
  BY TimerAssumption
<1>2. HalfRange * HalfRange > 1 /\ HalfRange * HalfRange \in Int
  BY <1>1
<1>3. QED
  BY <1>2 DEF Range32, Counter

\* Below the divisor, the remainder is the number itself; at it, 0.
LEMMA SmallRemainder ==
    ASSUME NEW r \in Nat, r > 1, NEW x \in 0 .. r
    PROVE  x % r = IF x = r THEN 0 ELSE x
<1>1. CASE x = r
  BY <1>1
<1>2. CASE x # r
  BY <1>2
<1>3. QED
  BY <1>1, <1>2

\* START_COUNT fits the counter.
LEMMA StartType == ASSUME NEW t \in TimerState PROVE Start(t) \in Counter
<1>1. t.start_high \in 0 .. HalfRange - 1 /\ t.start_low \in 0 .. HalfRange - 1
  BY DEF TimerState, Half
<1>2. HalfRange \in Nat /\ HalfRange > 1
  BY TimerAssumption
<1>3. t.start_high * HalfRange <= (HalfRange - 1) * HalfRange
  BY <1>1, <1>2
<1>4. (HalfRange - 1) * HalfRange = HalfRange * HalfRange - HalfRange
  BY <1>2
<1>5. t.start_high * HalfRange \in Nat
  BY <1>1, <1>2
<1>6. QED
  BY <1>1, <1>2, <1>3, <1>4, <1>5 DEF Start, Range32, Counter

-----------------------------------------------------------------------------
\* Loading keeps the rest of the timer and updates the mirror if it should.
LEMMA LoadState ==
    ASSUME NEW t \in TimerState, NEW v \in Counter
    PROVE  /\ Load(t, v).counter = v
           /\ Load(t, v).count_mode = t.count_mode
           /\ Load(t, v).pause = t.pause
           /\ Start(Load(t, v)) = Start(t)
           /\ Halted(Load(t, v)) = Halted(t)
           /\ Rearms(Load(t, v)) = Rearms(t)
  BY DEF TimerState, Load, UpdateMMIO, Start, Halted, Rearms

\* Loading a value of the counter gives a timer: the mirror halves fit.
LEMMA LoadInState ==
    ASSUME NEW t \in TimerState, NEW v \in Counter
    PROVE  Load(t, v) \in TimerState
<1>1. v \div HalfRange \in Half /\ v % HalfRange \in Half
  <2>1. v \in Nat /\ HalfRange \in Nat /\ HalfRange > 1 /\ v < HalfRange * HalfRange
    BY TimerAssumption, Range32Type DEF Counter, Range32
  <2>2. v % HalfRange \in 0 .. HalfRange - 1
    BY <2>1
  <2>3. v \div HalfRange \in 0 .. HalfRange - 1
    BY <2>1
  <2>4. QED
    BY <2>2, <2>3 DEF Half
<1>2. CASE t.update_mmio
  BY <1>1, <1>2 DEF TimerState, Load, UpdateMMIO
<1>3. CASE ~t.update_mmio
  BY <1>3 DEF TimerState, Load, UpdateMMIO
<1>4. QED
  BY <1>2, <1>3

\* A second load overrides the first.
LEMMA LoadTwice ==
    ASSUME NEW t \in TimerState, NEW v \in Counter, NEW w \in Counter
    PROVE  Load(Load(t, v), w) = Load(t, w)
<1>1. CASE t.update_mmio
  BY <1>1 DEF TimerState, Load, UpdateMMIO
<1>2. CASE ~t.update_mmio
  BY <1>2 DEF TimerState, Load, UpdateMMIO
<1>3. QED
  BY <1>1, <1>2

\* A period to come is a positive number of the counter.
LEMMA Period32Type ==
    ASSUME NEW t \in TimerState, t.count_mode = AutoRestart => Start(t) # 0
    PROVE  Period32(t) \in 1 .. Range32 - 1
  BY Range32Type, StartType DEF Period32, MaxCount

\* What a tick does to a timer that runs.
LEMMA RunningTick ==
    ASSUME NEW t \in TimerState, ~Halted(t), t.counter # 0 \/ Rearms(t)
    PROVE  TimerTick(t) = Load(t, IF t.counter # 0 THEN t.counter - 1 ELSE Period32(t))
<1>1. CASE t.counter # 0
  BY <1>1 DEF TimerTick
<1>2. CASE t.counter = 0 /\ t.count_mode = AutoRestart
  BY <1>2 DEF TimerTick, Restart, Period32, AutoRestart, FreeRunning
<1>3. CASE t.counter = 0 /\ t.count_mode = FreeRunning
  BY <1>3 DEF TimerTick, Period32, AutoRestart, FreeRunning
<1>4. QED
  BY <1>1, <1>2, <1>3 DEF Rearms

\* What a skip within the limit leaves in the counter.
LEMMA SkippedValue ==
    ASSUME NEW t \in TimerState, ~Halted(t), t.counter # 0 \/ Rearms(t),
           t.count_mode = AutoRestart => Start(t) # 0,
           NEW n \in Nat, n <= TimerMaxSkip(t)
    PROVE  /\ Skipped(t, n) \in Counter
           /\ TimerSkip(t, n) = Load(t, Skipped(t, n))
           /\ t.counter # 0 => Skipped(t, n) = t.counter - n /\ n < t.counter
           /\ t.counter = 0 =>
                /\ n <= Period32(t)
                /\ Skipped(t, n) = IF n = 0 /\ Period32(t) = Range32 - 1
                                     THEN 0 ELSE Period32(t) - n + 1
<1>1. t.counter \in 0 .. Range32 - 1
  BY Range32Type DEF TimerState
<1>2. Period32(t) \in 1 .. Range32 - 1
  BY Period32Type
<1>3. TimerSkip(t, n) = Load(t, Skipped(t, n))
  BY DEF TimerSkip, Skipped
<1>4. CASE t.counter # 0
  BY <1>1, <1>3, <1>4, Range32Type DEF Skipped, TimerMaxSkip
<1>5. CASE t.counter = 0
  <2>1. n <= Period32(t)
    BY <1>5 DEF TimerMaxSkip
  <2>2. Period32(t) - n + 1 \in 0 .. Range32
    BY <1>2, <2>1, Range32Type
  <2>3. Skipped(t, n) = IF Period32(t) - n + 1 = Range32 THEN 0 ELSE Period32(t) - n + 1
    BY <1>5, <2>2, Range32Type, SmallRemainder DEF Skipped
  <2>4. QED
    BY <1>2, <1>3, <1>5, <2>1, <2>2, <2>3, Range32Type
<1>6. QED
  BY <1>4, <1>5

-----------------------------------------------------------------------------
\* One tick more of skipping is a tick after the skip, and that tick is silent, as
\* long as GetMaxSkip allows both; so a skip of n ticks is n ticks without an
\* interrupt.  A timer that restarts from 0 is excepted: see RestartLoadsStart.
THEOREM SkipThenTick ==
    ASSUME NEW t \in TimerState, t.count_mode = AutoRestart => Start(t) # 0,
           NEW n \in Nat, n + 1 <= TimerMaxSkip(t)
    PROVE  /\ TimerSkip(t, n + 1) = TimerTick(TimerSkip(t, n))
           /\ ~TimerFires(TimerSkip(t, n))
<1>1. CASE Halted(t) \/ (t.counter = 0 /\ ~Rearms(t))
  <2>1. \A m : TimerSkip(t, m) = t
    BY <1>1 DEF TimerSkip
  <2>2. TimerTick(t) = t
    BY <1>1 DEF TimerTick, Rearms
  <2>3. QED
    BY <1>1, <2>1, <2>2 DEF TimerFires
<1>2. CASE ~Halted(t) /\ (t.counter # 0 \/ Rearms(t))
  <2> DEFINE s == TimerSkip(t, n)
  <2> DEFINE v == Skipped(t, n)
  <2> DEFINE w == Skipped(t, n + 1)
  <2>1. TimerMaxSkip(t) \in Int
    <3>1. t.counter \in Int /\ Period32(t) \in Int
      BY Range32Type, Period32Type DEF TimerState
    <3>2. QED
      BY <1>2, <3>1 DEF TimerMaxSkip
  <2>2. n <= TimerMaxSkip(t) /\ n + 1 \in Nat
    BY <2>1
  <2>3. v \in Counter /\ s = Load(t, v)
    BY <1>2, <2>2, SkippedValue
  <2>4. w \in Counter /\ TimerSkip(t, n + 1) = Load(t, w)
    BY <1>2, <2>2, SkippedValue
  <2>5. s \in TimerState
    BY <2>3, LoadInState
  <2>6. s.counter = v /\ ~Halted(s) /\ Rearms(s) = Rearms(t) /\ Period32(s) = Period32(t)
    BY <1>2, <2>3, LoadState DEF Period32
  <2>7. v # 1 /\ w = IF v # 0 THEN v - 1 ELSE Period32(t)
    <3>1. t.counter \in Int /\ Period32(t) \in 1 .. Range32 - 1 /\ Range32 \in Int
      BY Range32Type, Period32Type DEF TimerState
    <3>2. CASE t.counter # 0
      <4>1. v = t.counter - n /\ w = t.counter - (n + 1) /\ n + 1 < t.counter
        BY <1>2, <2>2, <3>2, SkippedValue
      <4>2. QED
        BY <3>1, <4>1
    <3>3. CASE t.counter = 0
      <4>1. n + 1 <= Period32(t)
        BY <1>2, <2>2, <3>3, SkippedValue
      <4>2. v = IF n = 0 /\ Period32(t) = Range32 - 1 THEN 0 ELSE Period32(t) - n + 1
        BY <1>2, <2>2, <3>3, SkippedValue
      <4>3. w = IF n + 1 = 0 /\ Period32(t) = Range32 - 1
                  THEN 0 ELSE Period32(t) - (n + 1) + 1
        BY <1>2, <2>2, <3>3, SkippedValue
      <4>4. QED
        BY <3>1, <4>1, <4>2, <4>3
    <3>4. QED
      BY <3>2, <3>3
  <2>8. v = 0 => Rearms(t)
    BY <1>2, <2>2, SkippedValue, Range32Type DEF TimerState
  <2>9. TimerTick(s) = Load(s, w)
    BY <2>5, <2>6, <2>7, <2>8, RunningTick
  <2>10. Load(s, w) = Load(t, w)
    BY <2>3, <2>4, LoadTwice
  <2>11. ~TimerFires(s)
    BY <2>6, <2>7 DEF TimerFires
  <2>12. QED
    BY <2>4, <2>9, <2>10, <2>11
<1>3. QED
  BY <1>1, <1>2

\* A skip of no ticks is not seen by the tick after it, which fires or not and
\* leaves the same timer, although the skip may store START_COUNT + 1.
THEOREM SkipNothing ==
    ASSUME NEW t \in TimerState, t.count_mode = AutoRestart => Start(t) # 0
    PROVE  /\ TimerTick(TimerSkip(t, 0)) = TimerTick(t)
           /\ TimerFires(TimerSkip(t, 0)) = TimerFires(t)
<1>1. CASE Halted(t) \/ (t.counter = 0 /\ ~Rearms(t))
  BY <1>1 DEF TimerSkip
<1>2. CASE ~Halted(t) /\ (t.counter # 0 \/ Rearms(t))
  <2> DEFINE v == Skipped(t, 0)
  <2>1. t.counter \in 0 .. Range32 - 1 /\ Period32(t) \in 1 .. Range32 - 1
    BY Range32Type, Period32Type DEF TimerState
  <2>2. 0 <= TimerMaxSkip(t)
    BY <1>2, <2>1, Range32Type DEF TimerMaxSkip
  <2>3. v \in Counter /\ TimerSkip(t, 0) = Load(t, v)
    BY <1>2, <2>2, SkippedValue
  <2>4. Load(t, v) \in TimerState
    BY <2>3, LoadInState
  <2>5. v = IF t.counter # 0 THEN t.counter
            ELSE IF Period32(t) = Range32 - 1 THEN 0 ELSE Period32(t) + 1
    BY <1>2, <2>1, <2>2, SkippedValue
  <2>6. /\ Load(t, v).counter = v /\ ~Halted(Load(t, v)) /\ Rearms(Load(t, v)) = Rearms(t)
        /\ Period32(Load(t, v)) = Period32(t)
    BY <1>2, <2>3, LoadState DEF Period32
  <2> DEFINE w == IF t.counter # 0 THEN t.counter - 1 ELSE Period32(t)
  <2>7. w \in Counter
    BY <2>1, Range32Type
  <2>8. TimerTick(t) = Load(t, w)
    BY <1>2, RunningTick
  <2>9. TimerTick(Load(t, v)) = Load(Load(t, v), w)
    <3>1. w = IF v # 0 THEN v - 1 ELSE Period32(t)
      BY <2>1, <2>5, Range32Type
    <3>2. v # 0 \/ Rearms(Load(t, v))
      BY <1>2, <2>5, <2>6
    <3>3. QED
      BY <2>4, <2>6, <3>1, <3>2, RunningTick
  <2>10. Load(Load(t, v), w) = Load(t, w)
    BY <2>3, <2>7, LoadTwice
  <2>11. v = 1 <=> t.counter = 1
    BY <2>1, <2>5, Range32Type
  <2>12. TimerFires(Load(t, v)) = TimerFires(t)
    BY <1>2, <2>6, <2>11 DEF TimerFires
  <2>13. QED
    BY <2>3, <2>8, <2>9, <2>10, <2>12
<1>3. QED
  BY <1>1, <1>2

-----------------------------------------------------------------------------
(***************************************************************************)
(* Ticking n times                                                         *)
(***************************************************************************)
\* f is the peripherals tick by tick, up to n.
TicksTo(f, n) == f = [m \in 0 .. n |-> IF m = 0 THEN T!Clock ELSE T!TickAll(f[m - 1])]

LEMMA TicksExist == ASSUME NEW n \in Nat PROVE \E f : TicksTo(f, n)
<1> DEFINE Good == {k \in Nat : \E f : TicksTo(f, k)}
<1>1. 0 \in Good
  <2> DEFINE f == [m \in 0 .. 0 |-> T!Clock]
  <2>1. TicksTo(f, 0)
    BY DEF TicksTo
  <2>2. QED
    BY <2>1
<1>2. ASSUME NEW k \in Good
      PROVE  k + 1 \in Good
  <2>1. PICK f : TicksTo(f, k)
    BY <1>2
  <2> DEFINE g == [m \in 0 .. k + 1 |-> IF m = k + 1 THEN T!TickAll(f[k]) ELSE f[m]]
  <2>2. k \in Nat
    BY <1>2
  <2>3. \A m \in 0 .. k + 1 : m # 0 => g[m - 1] = f[m - 1]
    BY <2>2
  <2>4. \A m \in 0 .. k + 1 : g[m] = IF m = 0 THEN T!Clock ELSE T!TickAll(g[m - 1])
    BY <2>1, <2>2, <2>3 DEF TicksTo
  <2>5. TicksTo(g, k + 1)
    BY <2>4 DEF TicksTo
  <2> HIDE DEF g
  <2>6. QED
    BY <2>2, <2>5
<1>3. Good = Nat
  <2> HIDE DEF Good
  <2>1. Good \in SUBSET Nat
    BY DEF Good
  <2>2. QED
    BY <1>1, <1>2, <2>1, Induction
<1>4. QED
  BY <1>3

\* Two such functions agree where both are defined.
LEMMA TicksAgree ==
    ASSUME NEW n \in Nat, NEW f, TicksTo(f, n), NEW g, TicksTo(g, n + 1)
    PROVE  f[n] = g[n]
<1> DEFINE Good == {k \in Nat : k <= n => f[k] = g[k]}
<1>1. 0 \in Good
  BY DEF TicksTo
<1>2. ASSUME NEW k \in Good
      PROVE  k + 1 \in Good
  <2>1. k \in Nat /\ (k + 1 <= n => f[k] = g[k])
    BY <1>2
  <2>2. k + 1 <= n => f[k + 1] = T!TickAll(f[k]) /\ g[k + 1] = T!TickAll(g[k])
    BY <2>1 DEF TicksTo
  <2>3. QED
    BY <2>1, <2>2
<1>3. Good = Nat
  <2> HIDE DEF Good
  <2>1. Good \in SUBSET Nat
    BY DEF Good
  <2>2. QED
    BY <1>1, <1>2, <2>1, Induction
<1>4. QED
  BY <1>3

LEMMA AfterIs ==
    ASSUME NEW n \in Nat
    PROVE  \E f : TicksTo(f, n) /\ T!After(n) = f[n]
<1>1. \E f : f = [m \in 0 .. n |-> IF m = 0 THEN T!Clock ELSE T!TickAll(f[m - 1])]
  BY TicksExist DEF TicksTo
<1>2. QED
  BY <1>1 DEF T!After, TicksTo

LEMMA AfterSteps ==
    /\ T!After(0) = T!Clock
    /\ \A n \in Nat : T!After(n + 1) = T!TickAll(T!After(n))
<1>1. T!After(0) = T!Clock
  BY AfterIs DEF TicksTo
<1>2. ASSUME NEW n \in Nat
      PROVE  T!After(n + 1) = T!TickAll(T!After(n))
  <2>1. PICK f : TicksTo(f, n) /\ T!After(n) = f[n]
    BY AfterIs
  <2>2. PICK g : TicksTo(g, n + 1) /\ T!After(n + 1) = g[n + 1]
    BY AfterIs
  <2>3. g[n + 1] = T!TickAll(g[n])
    BY <2>2 DEF TicksTo
  <2>4. QED
    BY <2>1, <2>2, <2>3, TicksAgree
<1>3. QED
  BY <1>1, <1>2

-----------------------------------------------------------------------------
(***************************************************************************)
(* The abstract specification extends the same module of peripherals.      *)
(***************************************************************************)
LEMMA SameTimers ==
    ASSUME NEW t
    PROVE  /\ T!TimerTick(t) = TimerTick(t)
           /\ T!TimerFires(t) = TimerFires(t)
           /\ T!Restart(t) = Restart(t)
           /\ T!Start(t) = Start(t)
           /\ T!TimerTickEvent(t) = TimerTickEvent(t)
           /\ T!EventFires(t) = EventFires(t)
<1>1. \A u : T!UpdateMMIO(u) = UpdateMMIO(u)
  BY DEF T!UpdateMMIO, UpdateMMIO
<1>2. \A v : T!Load(t, v) = Load(t, v)
  BY <1>1 DEF T!Load, Load
<1>3. T!Halted(t) = Halted(t) /\ T!Start(t) = Start(t) /\ T!MaxCount = MaxCount
  BY DEF T!Halted, Halted, T!Start, Start, T!MaxCount, MaxCount, T!Range32, Range32,
         T!EventCount, EventCount
<1>4. T!Restart(t) = Restart(t)
  BY <1>2, <1>3 DEF T!Restart, Restart, T!FreeRunning, FreeRunning
<1>5. T!TimerTick(t) = TimerTick(t)
  BY <1>2, <1>3, <1>4 DEF T!TimerTick, TimerTick, T!AutoRestart, AutoRestart, T!FreeRunning,
                          FreeRunning
<1>6. T!TimerFires(t) = TimerFires(t)
  BY <1>3 DEF T!TimerFires, TimerFires
<1>7. T!EventCounts(t) = EventCounts(t)
  BY DEF T!EventCounts, EventCounts, T!EventCount, EventCount
<1>8. QED
  BY <1>2, <1>3, <1>4, <1>5, <1>6, <1>7
  DEF T!TimerTickEvent, TimerTickEvent, T!EventFires, EventFires

LEMMA SameTransmitters ==
    ASSUME NEW b
    PROVE  /\ T!BtdmpTick(b) = BtdmpTick(b)
           /\ T!BtdmpFires(b) = BtdmpFires(b)
           /\ T!BtdmpAudio(b) = BtdmpAudio(b)
<1>1. T!Taken(b) = Taken(b) /\ T!TransmitDue(b) = TransmitDue(b)
  BY DEF T!Taken, Taken, T!TransmitDue, TransmitDue
<1>2. T!Rest(b) = Rest(b) /\ T!Frame(b) = Frame(b)
  BY <1>1 DEF T!Rest, Rest, T!Frame, Frame
<1>3. T!Transmit(b) = Transmit(b)
  BY <1>1, <1>2 DEF T!Transmit, Transmit
<1>4. QED
  BY <1>1, <1>2, <1>3 DEF T!BtdmpTick, BtdmpTick, T!BtdmpFires, BtdmpFires, T!BtdmpAudio,
                          BtdmpAudio

LEMMA SameClock ==
    /\ T!Clock = Clock
    /\ \A k : T!TickAll(k) = TickAll(k)
    /\ \A k : T!Becomes(k) = Becomes(k)
<1>1. \A k : T!Firing(k) = Firing(k)
  BY SameTimers, SameTransmitters DEF T!Firing, Firing
<1>2. \A k : T!TickAll(k) = TickAll(k)
  BY <1>1, SameTimers, SameTransmitters DEF T!TickAll, TickAll
<1>3. QED
  BY <1>2 DEF T!Clock, Clock, T!Becomes, Becomes

LEMMA AfterTicks ==
    /\ T!After(0) = Clock
    /\ \A n \in Nat : T!After(n + 1) = TickAll(T!After(n))
  BY AfterSteps, SameClock

\* The MMIO writes are those of the same module.
LEMMA SameMmio == T!Mmio = Mmio /\ T!PeriphInit = PeriphInit
<1>1. \A x : T!Outputs(x) = Outputs(x)
  BY DEF T!Outputs, Outputs
<1>2. T!Silent = Silent
  BY <1>1 DEF T!Silent, Silent
<1>3. \A i, t : T!SetTimer(i, t) = SetTimer(i, t)
  BY SameTimers DEF T!SetTimer, SetTimer, T!Acceptable, Acceptable, T!AutoRestart, AutoRestart
<1>4. \A j, b : T!SetBtdmp(j, b) = SetBtdmp(j, b)
  BY <1>2 DEF T!SetBtdmp, SetBtdmp
<1>5. ASSUME NEW i
      PROVE  T!WriteConfig(i) = WriteConfig(i)
  <2>1. ASSUME NEW t, NEW restart
        PROVE  T!SetTimer(i, IF restart THEN T!Restart(t) ELSE t) =
               SetTimer(i, IF restart THEN Restart(t) ELSE t)
    BY <1>3, SameTimers
  <2>2. QED
    BY <1>2, <2>1, Zenon DEF T!WriteConfig, WriteConfig
<1>6. \A i : T!WriteStart(i) = WriteStart(i)
  BY <1>2, <1>3 DEF T!WriteStart, WriteStart
<1>7. \A i : T!WriteEvent(i) = WriteEvent(i)
  BY <1>1, <1>3, SameTimers DEF T!WriteEvent, WriteEvent
<1>8. \A j : T!WriteBtdmp(j) = WriteBtdmp(j)
  BY <1>4 DEF T!WriteBtdmp, WriteBtdmp, T!BtdmpSend, BtdmpSend, T!SetTransmitFlush,
              SetTransmitFlush, T!SetTransmitEnable, SetTransmitEnable
<1>9. T!Mmio = Mmio
  BY <1>5, <1>6, <1>7, <1>8 DEF T!Mmio, Mmio
<1>10. T!PeriphInit = PeriphInit
  BY DEF T!PeriphInit, PeriphInit, T!TimerReset, TimerReset, T!BtdmpReset, BtdmpReset,
         T!Single, Single
<1>11. QED
  BY <1>9, <1>10

-----------------------------------------------------------------------------
(***************************************************************************)
(* Well-formed peripherals                                                 *)
(***************************************************************************)
\* The transmitter's flags say what the queue holds.
FlagsOK(b) ==
    /\ b.transmit_empty = (b.transmit_queue = <<>>)
    /\ b.transmit_full = (Len(b.transmit_queue) = Capacity)

TimerOK(t) == t \in TimerState /\ (t.count_mode = AutoRestart => Start(t) # 0)

Transmitters ==
    [transmit_timer : 0 .. Period - 1, transmit_enable : BOOLEAN,
     transmit_empty : BOOLEAN, transmit_full : BOOLEAN, transmit_queue : Seq(Sample)]

TransmitterOK(b) ==
    /\ b \in Transmitters
    /\ Len(b.transmit_queue) <= Capacity
    /\ FlagsOK(b)

\* The queues of BtdmpState are the sequences of at most Capacity words.
LEMMA TransmitterState ==
    ASSUME NEW b, TransmitterOK(b)
    PROVE  b \in BtdmpState
<1>1. Len(b.transmit_queue) \in 0 .. Capacity
      /\ b.transmit_queue \in [1 .. Len(b.transmit_queue) -> Sample]
  BY BtdmpAssumption DEF TransmitterOK, Transmitters
<1>2. b.transmit_queue \in UNION {[1 .. n -> Sample] : n \in 0 .. Capacity}
  BY <1>1
<1>3. QED
  BY <1>2 DEF TransmitterOK, Transmitters, BtdmpState

\* A tick of a timer.
LEMMA TickTimer ==
    ASSUME NEW t, TimerOK(t)
    PROVE  TimerOK(TimerTick(t))
<1>1. t \in TimerState /\ (t.count_mode = AutoRestart => Start(t) # 0)
  BY DEF TimerOK
<1>2. \A v \in Counter : TimerOK(Load(t, v))
  BY <1>1, LoadInState, LoadState DEF TimerOK
<1>3. CASE Halted(t) \/ (t.counter = 0 /\ ~Rearms(t))
  BY <1>1, <1>3 DEF TimerTick, Rearms, TimerOK
<1>4. CASE ~Halted(t) /\ (t.counter # 0 \/ Rearms(t))
  <2>1. t.counter \in 0 .. Range32 - 1 /\ Period32(t) \in Counter
    BY <1>1, Range32Type, Period32Type DEF TimerState
  <2>2. (IF t.counter # 0 THEN t.counter - 1 ELSE Period32(t)) \in Counter
    BY <2>1, Range32Type
  <2>3. QED
    BY <1>1, <1>2, <1>4, <2>2, RunningTick
<1>5. QED
  BY <1>3, <1>4

\* What a transmission takes from the queue and leaves in it.
LEMMA RestOf ==
    ASSUME NEW b, TransmitterOK(b)
    PROVE  LET n == Len(b.transmit_queue)
           IN  /\ n \in Nat /\ n <= Capacity
               /\ (b.transmit_queue = <<>>) <=> n = 0
               /\ Taken(b) = IF n < 2 THEN n ELSE 2
               /\ Rest(b) \in Seq(Sample)
               /\ Len(Rest(b)) = n - Taken(b)
               /\ Rest(b) = <<>> <=> n <= 2
<1> DEFINE q == b.transmit_queue
           n == Len(q)
<1>1. q \in Seq(Sample) /\ n \in Nat /\ n <= Capacity /\ (q = <<>> <=> n = 0)
  BY DEF TransmitterOK, Transmitters
<1>2. Taken(b) = IF n < 2 THEN n ELSE 2
  BY DEF Taken
<1>3. Taken(b) \in 0 .. n
  BY <1>1, <1>2
<1>4. Rest(b) = SubSeq(q, Taken(b) + 1, n)
  BY DEF Rest
<1> HIDE DEF q, n
<1>5. SubSeq(q, Taken(b) + 1, n) \in Seq(Sample)
      /\ Len(SubSeq(q, Taken(b) + 1, n)) = n - Taken(b)
  BY <1>1, <1>3 DEF n
<1>6. Rest(b) \in Seq(Sample) /\ Len(Rest(b)) = n - Taken(b)
  BY <1>4, <1>5
<1>7. Rest(b) = <<>> <=> Len(Rest(b)) = 0
  BY <1>6
<1>8. n - Taken(b) = 0 <=> n <= 2
  BY <1>1, <1>2
<1>9. QED
  BY <1>1, <1>2, <1>6, <1>7, <1>8 DEF q, n

\* A tick of a transmitter.
LEMMA TickTransmitter ==
    ASSUME NEW b, TransmitterOK(b)
    PROVE  TransmitterOK(BtdmpTick(b))
<1>1. CASE ~b.transmit_enable
  BY <1>1 DEF BtdmpTick
<1>2. CASE b.transmit_enable /\ ~TransmitDue(b)
  <2>1. b.transmit_timer + 1 \in 0 .. Period - 1
    BY <1>2, BtdmpAssumption DEF TransmitDue, TransmitterOK, Transmitters
  <2>2. QED
    BY <1>2, <2>1 DEF BtdmpTick, TransmitterOK, Transmitters, FlagsOK
<1>3. CASE b.transmit_enable /\ TransmitDue(b)
  <2>1. BtdmpTick(b) = Transmit(b)
    BY <1>3 DEF BtdmpTick
  <2>2. 0 \in 0 .. Period - 1 /\ Capacity \in Nat \ {0}
    BY BtdmpAssumption
  <2> DEFINE n == Len(b.transmit_queue)
             r == Len(Rest(b))
  <2>3. /\ n \in Nat /\ n <= Capacity /\ r = n - Taken(b)
        /\ Taken(b) = IF n < 2 THEN n ELSE 2
        /\ Rest(b) \in Seq(Sample)
        /\ (Rest(b) = <<>>) <=> r = 0
        /\ (b.transmit_queue = <<>>) <=> n = 0
    BY RestOf
  <2>4. n = Len(b.transmit_queue) /\ r = Len(Rest(b))
    OBVIOUS
  <2> HIDE DEF n, r
  <2>5. Transmit(b).transmit_queue = Rest(b)
        /\ Transmit(b) \in Transmitters
    BY <2>2, <2>3 DEF Transmit, TransmitterOK, Transmitters
  <2>6. Transmit(b).transmit_empty = (Rest(b) = <<>>)
    BY <2>3 DEF Transmit, TransmitterOK, Transmitters, FlagsOK
  <2>7. Transmit(b).transmit_full = (r = Capacity)
    <3>1. CASE Taken(b) = 0
      <4>1. r = n
        BY <2>3, <3>1
      <4>2. b.transmit_full = (n = Capacity)
        BY <2>4 DEF TransmitterOK, Transmitters, FlagsOK
      <4>3. Transmit(b).transmit_full = b.transmit_full
        BY <3>1 DEF Transmit, TransmitterOK, Transmitters
      <4>4. QED
        BY <4>1, <4>2, <4>3
    <3>2. CASE Taken(b) # 0
      <4>1. r # Capacity
        BY <2>2, <2>3, <3>2
      <4>2. QED
        BY <3>2, <4>1 DEF Transmit, TransmitterOK, Transmitters
    <3>3. QED
      BY <3>1, <3>2
  <2>8. FlagsOK(Transmit(b))
    BY <2>5, <2>6, <2>7, <2>4 DEF FlagsOK
  <2>9. Len(Transmit(b).transmit_queue) <= Capacity
    BY <2>2, <2>3, <2>5, <2>4
  <2>10. QED
    BY <2>1, <2>5, <2>8, <2>9 DEF TransmitterOK, Transmitters
<1>4. QED
  BY <1>1, <1>2, <1>3

-----------------------------------------------------------------------------
(***************************************************************************)
(* Skipping a transmitter                                                  *)
(***************************************************************************)
Sent == Seq([1 .. 2 -> Sample])

FirstSent(b) == [left |-> b, sent |-> <<>>]
NextSent(x) == [left |-> SkipTransmit(x.left), sent |-> Append(x.sent, Frame(x.left))]

\* f is the transmitter transmission by transmission, up to n.
SendsTo(f, b, n) == f = [m \in 0 .. n |-> IF m = 0 THEN FirstSent(b) ELSE NextSent(f[m - 1])]

LEMMA SendsExist == ASSUME NEW b, NEW n \in Nat PROVE \E f : SendsTo(f, b, n)
<1> DEFINE Good == {k \in Nat : \E f : SendsTo(f, b, k)}
<1>1. 0 \in Good
  <2> DEFINE f == [m \in 0 .. 0 |-> FirstSent(b)]
  <2>1. SendsTo(f, b, 0)
    BY DEF SendsTo
  <2>2. QED
    BY <2>1
<1>2. ASSUME NEW k \in Good
      PROVE  k + 1 \in Good
  <2>1. PICK f : SendsTo(f, b, k)
    BY <1>2
  <2> DEFINE g == [m \in 0 .. k + 1 |-> IF m = k + 1 THEN NextSent(f[k]) ELSE f[m]]
  <2>2. k \in Nat
    BY <1>2
  <2>3. \A m \in 0 .. k + 1 : m # 0 => g[m - 1] = f[m - 1]
    BY <2>2
  <2>4. \A m \in 0 .. k + 1 : g[m] = IF m = 0 THEN FirstSent(b) ELSE NextSent(g[m - 1])
    BY <2>1, <2>2, <2>3 DEF SendsTo
  <2>5. SendsTo(g, b, k + 1)
    BY <2>4 DEF SendsTo
  <2> HIDE DEF g
  <2>6. QED
    BY <2>2, <2>5
<1>3. Good = Nat
  <2> HIDE DEF Good
  <2>1. Good \in SUBSET Nat
    BY DEF Good
  <2>2. QED
    BY <1>1, <1>2, <2>1, Induction
<1>4. QED
  BY <1>3

LEMMA SendsAgree ==
    ASSUME NEW b, NEW n \in Nat, NEW f, SendsTo(f, b, n), NEW g, SendsTo(g, b, n + 1)
    PROVE  f[n] = g[n]
<1> DEFINE Good == {k \in Nat : k <= n => f[k] = g[k]}
<1>1. 0 \in Good
  BY DEF SendsTo
<1>2. ASSUME NEW k \in Good
      PROVE  k + 1 \in Good
  <2>1. k \in Nat /\ (k + 1 <= n => f[k] = g[k])
    BY <1>2
  <2>2. k + 1 <= n => f[k + 1] = NextSent(f[k]) /\ g[k + 1] = NextSent(g[k])
    BY <2>1 DEF SendsTo
  <2>3. QED
    BY <2>1, <2>2
<1>3. Good = Nat
  <2> HIDE DEF Good
  <2>1. Good \in SUBSET Nat
    BY DEF Good
  <2>2. QED
    BY <1>1, <1>2, <2>1, Induction
<1>4. QED
  BY <1>3

LEMMA TransmissionsIs ==
    ASSUME NEW b, NEW n \in Nat
    PROVE  \E f : SendsTo(f, b, n) /\ Transmissions(b, n) = f[n]
<1>1. \E f : f = [m \in 0 .. n |-> IF m = 0 THEN [left |-> b, sent |-> <<>>]
                    ELSE [left |-> SkipTransmit(f[m - 1].left),
                          sent |-> Append(f[m - 1].sent, Frame(f[m - 1].left))]]
  BY SendsExist DEF SendsTo, FirstSent, NextSent
<1>2. QED
  BY <1>1 DEF Transmissions, SendsTo, FirstSent, NextSent

LEMMA TransmissionSteps ==
    ASSUME NEW b
    PROVE  /\ Transmissions(b, 0) = FirstSent(b)
           /\ \A n \in Nat : Transmissions(b, n + 1) = NextSent(Transmissions(b, n))
<1>1. Transmissions(b, 0) = FirstSent(b)
  BY TransmissionsIs DEF SendsTo
<1>2. ASSUME NEW n \in Nat
      PROVE  Transmissions(b, n + 1) = NextSent(Transmissions(b, n))
  <2>1. PICK f : SendsTo(f, b, n) /\ Transmissions(b, n) = f[n]
    BY TransmissionsIs
  <2>2. PICK g : SendsTo(g, b, n + 1) /\ Transmissions(b, n + 1) = g[n + 1]
    BY TransmissionsIs
  <2>3. g[n + 1] = NextSent(g[n])
    BY <2>2 DEF SendsTo
  <2>4. QED
    BY <2>1, <2>2, <2>3, SendsAgree
<1>3. QED
  BY <1>1, <1>2

LEMMA FrameType == ASSUME NEW b, TransmitterOK(b) PROVE Frame(b) \in [1 .. 2 -> Sample]
<1>1. /\ Taken(b) \in Nat /\ Taken(b) <= Len(b.transmit_queue)
      /\ b.transmit_queue \in Seq(Sample)
  BY RestOf DEF TransmitterOK, Transmitters
<1>2. \A i \in 1 .. 2 : i <= Taken(b) => b.transmit_queue[i] \in Sample
  BY <1>1
<1>3. QED
  BY <1>2, BtdmpAssumption DEF Frame

\* What a transmission of Skip changes.
LEMMA SkipTransmitFields ==
    ASSUME NEW b \in Transmitters, Rest(b) \in Seq(Sample)
    PROVE  /\ SkipTransmit(b) \in Transmitters
           /\ SkipTransmit(b).transmit_timer = b.transmit_timer
           /\ SkipTransmit(b).transmit_enable = b.transmit_enable
           /\ SkipTransmit(b).transmit_queue = Rest(b)
           /\ SkipTransmit(b).transmit_empty = b.transmit_empty
           /\ SkipTransmit(b).transmit_full = IF Taken(b) = 0 THEN b.transmit_full ELSE FALSE
<1>1. SkipTransmit(b).transmit_full = IF Taken(b) = 0 THEN b.transmit_full ELSE FALSE
  BY DEF SkipTransmit, Transmitters
<1>2. QED
  BY <1>1 DEF SkipTransmit, Transmitters

\* A transmission of Skip that is not the last one.
LEMMA SkipTransmitOK ==
    ASSUME NEW b, TransmitterOK(b), b.transmit_queue # <<>> => Len(b.transmit_queue) > 2
    PROVE  /\ TransmitterOK(SkipTransmit(b))
           /\ Len(Rest(b)) =
                IF b.transmit_queue = <<>> THEN 0 ELSE Len(b.transmit_queue) - 2
<1> DEFINE n == Len(b.transmit_queue)
           r == Len(Rest(b))
           s == SkipTransmit(b)
<1>1. /\ n \in Nat /\ n <= Capacity /\ r = n - Taken(b)
      /\ Taken(b) = IF n < 2 THEN n ELSE 2
      /\ Rest(b) \in Seq(Sample)
      /\ (Rest(b) = <<>>) <=> n <= 2
      /\ (b.transmit_queue = <<>>) <=> n = 0
  BY RestOf
<1>2. /\ s \in Transmitters /\ s.transmit_queue = Rest(b)
      /\ s.transmit_empty = b.transmit_empty
      /\ s.transmit_full = IF Taken(b) = 0 THEN b.transmit_full ELSE FALSE
  BY <1>1, SkipTransmitFields DEF TransmitterOK
<1>3. n = Len(b.transmit_queue) /\ r = Len(Rest(b)) /\ Capacity \in Nat \ {0}
  BY BtdmpAssumption
<1> HIDE DEF n, r, s
<1>4. n = 0 \/ n > 2
  BY <1>1, <1>3
<1>5. r = IF n = 0 THEN 0 ELSE n - 2
  BY <1>1, <1>4
<1>6. s.transmit_empty = (s.transmit_queue = <<>>)
  <2>1. b.transmit_empty = (b.transmit_queue = <<>>)
    BY DEF TransmitterOK, FlagsOK
  <2>2. (Rest(b) = <<>>) <=> (b.transmit_queue = <<>>)
    BY <1>1, <1>4
  <2>3. QED
    BY <1>2, <2>1, <2>2
<1>7. s.transmit_full = (r = Capacity)
  <2>1. b.transmit_full = (n = Capacity)
    BY <1>3 DEF TransmitterOK, FlagsOK
  <2>2. CASE n = 0
    <3>1. Taken(b) = 0 /\ r = n
      BY <1>1, <1>5, <2>2
    <3>2. QED
      BY <1>2, <2>1, <3>1
  <2>3. CASE n > 2
    <3>1. Taken(b) # 0 /\ r # Capacity
      BY <1>1, <1>3, <1>5, <2>3
    <3>2. QED
      BY <1>2, <3>1
  <2>4. QED
    BY <1>4, <2>2, <2>3
<1>8. r <= Capacity
  BY <1>1, <1>4, <1>3, <1>5
<1>9. TransmitterOK(s)
  <2>1. s.transmit_full = (Len(s.transmit_queue) = Capacity)
    BY <1>2, <1>3, <1>7
  <2>2. Len(s.transmit_queue) <= Capacity
    BY <1>2, <1>3, <1>8
  <2>3. QED
    BY <1>2, <1>6, <2>1, <2>2 DEF TransmitterOK, FlagsOK
<1>10. QED
  BY <1>1, <1>3, <1>5, <1>9 DEF s

\* The transmitter after some transmissions of which none is the last.
Sending(b, k) == b.transmit_queue = <<>> \/ 2 * k < Len(b.transmit_queue)

LEMMA AfterTransmissions ==
    ASSUME NEW b, TransmitterOK(b), NEW k \in Nat, Sending(b, k)
    PROVE  LET x == Transmissions(b, k)
           IN  /\ TransmitterOK(x.left)
               /\ x.left.transmit_timer = b.transmit_timer
               /\ x.left.transmit_enable = b.transmit_enable
               /\ Len(x.left.transmit_queue) =
                    IF b.transmit_queue = <<>> THEN 0 ELSE Len(b.transmit_queue) - 2 * k
               /\ x.sent \in Sent /\ Len(x.sent) = k
<1> DEFINE n == Len(b.transmit_queue)
           Fine(i) == LET x == Transmissions(b, i)
                      IN  /\ TransmitterOK(x.left)
                          /\ x.left.transmit_timer = b.transmit_timer
                          /\ x.left.transmit_enable = b.transmit_enable
                          /\ Len(x.left.transmit_queue) =
                               IF b.transmit_queue = <<>> THEN 0 ELSE n - 2 * i
                          /\ x.sent \in Sent /\ Len(x.sent) = i
           Good == {i \in Nat : Sending(b, i) => Fine(i)}
<1>1. n \in Nat /\ (b.transmit_queue = <<>> <=> n = 0)
  BY RestOf
<1>2. 0 \in Good
  <2>1. Transmissions(b, 0) = [left |-> b, sent |-> <<>>]
    BY TransmissionSteps DEF FirstSent
  <2>2. <<>> \in Sent /\ Len(<<>>) = 0
    BY DEF Sent
  <2>3. n = IF b.transmit_queue = <<>> THEN 0 ELSE n - 2 * 0
    BY <1>1
  <2> HIDE DEF n
  <2>4. Transmissions(b, 0).left = b /\ Transmissions(b, 0).sent = <<>>
    BY <2>1
  <2>5. n = Len(b.transmit_queue)
    BY DEF n
  <2>6. Fine(0)
    BY <2>2, <2>3, <2>4, <2>5
  <2>7. QED
    BY <2>6
<1>3. ASSUME NEW i \in Good
      PROVE  i + 1 \in Good
  <2> SUFFICES ASSUME Sending(b, i + 1) PROVE Fine(i + 1)
    BY <1>3
  <2> DEFINE x == Transmissions(b, i)
             y == Transmissions(b, i + 1)
  <2>0. n = Len(b.transmit_queue) /\ n \in Nat /\ i \in Nat
    BY <1>1, <1>3
  <2>1. i \in Nat /\ Fine(i)
    <3>1. Sending(b, i)
      <4> HIDE DEF n
      <4>1. QED
        BY <2>0 DEF Sending
    <3>2. QED
      BY <1>3, <3>1
  <2>2. y = NextSent(x)
    BY <2>1, TransmissionSteps
  <2>3. x.left.transmit_queue = <<>> <=> b.transmit_queue = <<>>
    <3>1. (x.left.transmit_queue = <<>>) <=> Len(x.left.transmit_queue) = 0
      BY <2>1, RestOf
    <3>2. Len(x.left.transmit_queue) = IF b.transmit_queue = <<>> THEN 0 ELSE n - 2 * i
      BY <2>1
    <3>3. b.transmit_queue # <<>> => 2 * (i + 1) < n
      BY DEF Sending
    <3> HIDE DEF n, x, Fine, Good
    <3>4. \A p, m \in Nat : 2 * (m + 1) < p => p - 2 * m # 0
      OBVIOUS
    <3>5. b.transmit_queue # <<>> => n - 2 * i # 0
      BY <2>0, <3>3, <3>4
    <3>6. QED
      BY <3>1, <3>2, <3>5
  <2>4. x.left.transmit_queue # <<>> => Len(x.left.transmit_queue) > 2
    <3>1. Len(x.left.transmit_queue) = IF b.transmit_queue = <<>> THEN 0 ELSE n - 2 * i
      BY <2>1
    <3>2. b.transmit_queue # <<>> => 2 * (i + 1) < n
      BY DEF Sending
    <3> HIDE DEF n, x, Fine, Good
    <3>3. \A p, m \in Nat : 2 * (m + 1) < p => p - 2 * m > 2
      OBVIOUS
    <3>4. b.transmit_queue # <<>> => n - 2 * i > 2
      BY <2>0, <3>2, <3>3
    <3>5. QED
      BY <2>3, <3>1, <3>4
  <2>5. /\ y.left = SkipTransmit(x.left)
        /\ y.sent = Append(x.sent, Frame(x.left))
    BY <2>2 DEF NextSent
  <2>6. y.sent \in Sent /\ Len(y.sent) = i + 1
    <3>1. Frame(x.left) \in [1 .. 2 -> Sample]
      BY <2>1, FrameType
    <3>2. x.sent \in Sent /\ Len(x.sent) = i
      BY <2>1
    <3> HIDE DEF x, y
    <3>3. QED
      BY <2>5, <3>1, <3>2 DEF Sent
  <2>7. /\ TransmitterOK(y.left)
        /\ y.left.transmit_timer = b.transmit_timer
        /\ y.left.transmit_enable = b.transmit_enable
        /\ Len(y.left.transmit_queue) =
             IF x.left.transmit_queue = <<>> THEN 0 ELSE Len(x.left.transmit_queue) - 2
    <3>1. TransmitterOK(x.left) /\ Rest(x.left) \in Seq(Sample)
      BY <2>1, RestOf
    <3>2. x.left \in Transmitters
      BY <3>1 DEF TransmitterOK
    <3>3. /\ x.left.transmit_timer = b.transmit_timer
          /\ x.left.transmit_enable = b.transmit_enable
      BY <2>1
    <3> HIDE DEF x, y
    <3>4. /\ TransmitterOK(y.left)
          /\ Len(Rest(x.left)) =
                IF x.left.transmit_queue = <<>> THEN 0 ELSE Len(x.left.transmit_queue) - 2
      BY <3>1, <2>4, <2>5, SkipTransmitOK
    <3>5. /\ SkipTransmit(x.left).transmit_timer = x.left.transmit_timer
          /\ SkipTransmit(x.left).transmit_enable = x.left.transmit_enable
          /\ SkipTransmit(x.left).transmit_queue = Rest(x.left)
      BY <3>1, <3>2, SkipTransmitFields
    <3> HIDE DEF n, Fine, Good
    <3>6. QED
      BY <2>5, <3>3, <3>4, <3>5
  <2>8. Len(y.left.transmit_queue) = IF b.transmit_queue = <<>> THEN 0 ELSE n - 2 * (i + 1)
    <3>1. Len(x.left.transmit_queue) = IF b.transmit_queue = <<>> THEN 0 ELSE n - 2 * i
      BY <2>1
    <3> HIDE DEF n, x, y, Fine, Good
    <3>2. \A p, m \in Nat : p - 2 * m - 2 = p - 2 * (m + 1)
      OBVIOUS
    <3>3. n - 2 * i - 2 = n - 2 * (i + 1)
      BY <2>0, <3>2
    <3>4. QED
      BY <2>3, <2>7, <3>1, <3>3
  <2>9. QED
    BY <2>6, <2>7, <2>8
<1>4. Good = Nat
  <2> HIDE DEF Good
  <2>1. Good \in SUBSET Nat
    BY DEF Good
  <2>2. QED
    BY <1>2, <1>3, <2>1, Induction
<1>5. QED
  BY <1>4

-----------------------------------------------------------------------------
(***************************************************************************)
(* One tick more of skipping a transmitter is a tick after the skip.       *)
(***************************************************************************)
Timed(x, e) == [x EXCEPT !.transmit_timer = e]

\* The timer does not matter to what is transmitted.
LEMMA TimedFields ==
    ASSUME NEW x, TransmitterOK(x), NEW e \in 0 .. Period - 1
    PROVE  /\ TransmitterOK(Timed(x, e)) /\ Timed(x, e) \in Transmitters
           /\ Timed(x, e).transmit_timer = e
           /\ Timed(x, e).transmit_enable = x.transmit_enable
           /\ Timed(x, e).transmit_empty = x.transmit_empty
           /\ Timed(x, e).transmit_full = x.transmit_full
           /\ Timed(x, e).transmit_queue = x.transmit_queue
           /\ Taken(Timed(x, e)) = Taken(x)
           /\ Rest(Timed(x, e)) = Rest(x)
           /\ Frame(Timed(x, e)) = Frame(x)
<1>1. /\ Timed(x, e) \in Transmitters
      /\ Timed(x, e).transmit_timer = e
      /\ Timed(x, e).transmit_enable = x.transmit_enable
      /\ Timed(x, e).transmit_empty = x.transmit_empty
      /\ Timed(x, e).transmit_full = x.transmit_full
      /\ Timed(x, e).transmit_queue = x.transmit_queue
  BY DEF TransmitterOK, Transmitters, Timed
<1>2. TransmitterOK(Timed(x, e))
  BY <1>1 DEF TransmitterOK, FlagsOK
<1>3. Taken(Timed(x, e)) = Taken(x)
  BY <1>1 DEF Taken
<1>4. QED
  BY <1>1, <1>2, <1>3 DEF Rest, Frame

LEMMA SameTransmitter ==
    ASSUME NEW x \in Transmitters, NEW y \in Transmitters,
           x.transmit_timer = y.transmit_timer, x.transmit_enable = y.transmit_enable,
           x.transmit_empty = y.transmit_empty, x.transmit_full = y.transmit_full,
           x.transmit_queue = y.transmit_queue
    PROVE  x = y
  BY DEF Transmitters

\* What a skip does, when the timer and the ticks come to m periods and e ticks.
LEMMA SkipIs ==
    ASSUME NEW b, TransmitterOK(b), b.transmit_enable,
           NEW n \in Nat, NEW m \in Nat, NEW e \in 0 .. Period - 1,
           b.transmit_timer + n = m * Period + e
    PROVE  /\ BtdmpSkip(b, n) = Timed(Transmissions(b, m).left, e)
           /\ SkipAudio(b, n) = Transmissions(b, m).sent
<1>1. Period \in Nat /\ Period > 0 /\ b.transmit_timer \in 0 .. Period - 1
  BY BtdmpAssumption DEF TransmitterOK, Transmitters
<1>2. Ahead(b, n) = m * Period + e
  BY <1>1 DEF Ahead
<1>3. Ahead(b, n) \div Period = m /\ Ahead(b, n) % Period = e
  BY <1>1, <1>2, Quotient
<1>4. QED
  BY <1>3 DEF BtdmpSkip, SkipAudio, Timed

\* Half a natural number, rounded up.
LEMMA HalfUp ==
    ASSUME NEW p \in Nat
    PROVE  (p + 1) \div 2 \in Nat /\ 2 * ((p + 1) \div 2) <= p + 1
  BY SMTT(20)

\* So many periods into what GetMaxSkip allows, the queue still lasts.
LEMMA MaxSkipSends ==
    ASSUME NEW b, TransmitterOK(b), b.transmit_enable,
           NEW n \in Nat, n <= BtdmpMaxSkip(b, Infinity),
           NEW m \in Nat, NEW e \in 0 .. Period - 1,
           b.transmit_timer + n = m * Period + e
    PROVE  Sending(b, m)
<1> SUFFICES ASSUME b.transmit_queue # <<>>
             PROVE  2 * m < Len(b.transmit_queue)
  BY DEF Sending
<1> DEFINE L == Len(b.transmit_queue)
           h == (L + 1) \div 2
           t == b.transmit_timer
<1>1. Period \in Nat /\ Period > 0 /\ t \in 0 .. Period - 1
  BY BtdmpAssumption DEF TransmitterOK, Transmitters
<1>2. L \in Nat
  BY RestOf
<1>3. h \in Nat /\ 2 * h <= L + 1
  BY <1>2, HalfUp
<1>4. BtdmpMaxSkip(b, Infinity) = Period - t - 1 + (h - 1) * Period
  <2>1. b.transmit_timer < Period
    BY <1>1
  <2>2. QED
    BY <2>1, Zenon DEF BtdmpMaxSkip
<1> HIDE DEF L, h, t
<1>5. (h - 1) * Period = h * Period - Period
  BY <1>1, <1>3
<1>6. m * Period \in Nat /\ h * Period \in Nat
  BY <1>1, <1>3
<1>7. m * Period < h * Period
  BY <1>1, <1>4, <1>5, <1>6 DEF t
<1>8. m < h
  <2>1. ASSUME h <= m
        PROVE  h * Period <= m * Period
    BY <1>1, <1>3, <2>1
  <2>2. QED
    BY <1>3, <1>6, <1>7, <2>1
<1>9. 2 * m < L
  BY <1>2, <1>3, <1>8
<1>10. QED
  BY <1>9 DEF L

LEMMA AppendOne ==
    ASSUME NEW S, NEW q \in Seq(S), NEW f \in S
    PROVE  Append(q, f) = q \o <<f>>
  OBVIOUS

\* One tick more of skipping, with what it sends, is a tick after the skip, and
\* that tick is silent, as long as GetMaxSkip allows both.
THEOREM SkipThenTickTransmitter ==
    ASSUME NEW b, TransmitterOK(b), NEW n \in Nat,
           n + 1 <= BtdmpMaxSkip(b, Infinity)
    PROVE  /\ BtdmpSkip(b, n + 1) = BtdmpTick(BtdmpSkip(b, n))
           /\ ~BtdmpFires(BtdmpSkip(b, n))
           /\ SkipAudio(b, n + 1) = SkipAudio(b, n) \o BtdmpAudio(BtdmpSkip(b, n))
<1>1. CASE ~b.transmit_enable
  BY <1>1 DEF BtdmpSkip, BtdmpTick, BtdmpFires, BtdmpAudio, SkipAudio, TransmitDue
<1>2. CASE b.transmit_enable
  <2>1. Period \in Nat /\ Period > 0 /\ b.transmit_timer \in 0 .. Period - 1
    BY BtdmpAssumption DEF TransmitterOK, Transmitters
  <2>2. PICK m \in Nat, e \in 0 .. Period - 1 : b.transmit_timer + n = m * Period + e
    <3>1. b.transmit_timer + n \in Nat
      BY <2>1
    <3>2. QED
      BY <2>1, <3>1, Division
  <2> DEFINE x == Transmissions(b, m).left
             s == BtdmpSkip(b, n)
  <2>3. s = Timed(x, e) /\ SkipAudio(b, n) = Transmissions(b, m).sent
    BY <1>2, <2>2, SkipIs
  <2>4. BtdmpMaxSkip(b, Infinity) \in Int
    <3>1. Infinity \in Int
      BY Range32Type DEF Infinity
    <3>2. (Len(b.transmit_queue) + 1) \div 2 \in Nat
      BY RestOf, HalfUp
    <3> DEFINE h == (Len(b.transmit_queue) + 1) \div 2
               r == IF b.transmit_timer < Period THEN Period - b.transmit_timer - 1 ELSE 0
    <3>3. r \in Int /\ h \in Int
      BY <2>1, <3>2
    <3>4. BtdmpMaxSkip(b, Infinity) \in {Infinity, r + (h - 1) * Period}
      BY DEF BtdmpMaxSkip
    <3> HIDE DEF h, r
    <3>5. r + (h - 1) * Period \in Int
      BY <2>1, <3>3
    <3>6. QED
      BY <3>1, <3>4, <3>5
  <2>5. n <= BtdmpMaxSkip(b, Infinity)
    BY <2>4
  <2>6. Sending(b, m)
    BY <1>2, <2>2, <2>5, MaxSkipSends
  <2>7. /\ TransmitterOK(x) /\ x.transmit_enable = b.transmit_enable
        /\ x.transmit_timer = b.transmit_timer
        /\ Transmissions(b, m).sent \in Sent
        /\ Len(x.transmit_queue) =
             IF b.transmit_queue = <<>> THEN 0 ELSE Len(b.transmit_queue) - 2 * m
    BY <2>2, <2>6, AfterTransmissions
  <2> HIDE DEF x, s
  <2>8. /\ s \in Transmitters /\ TransmitterOK(s)
        /\ s.transmit_timer = e /\ s.transmit_enable
        /\ s.transmit_queue = x.transmit_queue
        /\ s.transmit_empty = x.transmit_empty /\ s.transmit_full = x.transmit_full
        /\ Taken(s) = Taken(x) /\ Rest(s) = Rest(x) /\ Frame(s) = Frame(x)
    BY <1>2, <2>2, <2>3, <2>7, TimedFields
  <2>9. TransmitDue(s) <=> e + 1 = Period
    BY <2>1, <2>2, <2>8 DEF TransmitDue
  <2>10. CASE e + 1 # Period
    <3>1. e + 1 \in 0 .. Period - 1 /\ b.transmit_timer + (n + 1) = m * Period + (e + 1)
      BY <2>1, <2>2, <2>10
    <3>2. BtdmpSkip(b, n + 1) = Timed(x, e + 1) /\ SkipAudio(b, n + 1) = SkipAudio(b, n)
      BY <1>2, <2>2, <2>3, <3>1, SkipIs DEF x
    <3>3. BtdmpTick(s) = [s EXCEPT !.transmit_timer = e + 1]
      BY <2>8, <2>9, <2>10 DEF BtdmpTick
    <3>4. Timed(s, e + 1) = Timed(x, e + 1)
      <4>1. x \in Transmitters
        BY <2>7 DEF TransmitterOK
      <4>2. /\ Timed(x, e + 1) \in Transmitters
            /\ Timed(x, e + 1).transmit_timer = e + 1
            /\ Timed(x, e + 1).transmit_enable = x.transmit_enable
            /\ Timed(x, e + 1).transmit_empty = x.transmit_empty
            /\ Timed(x, e + 1).transmit_full = x.transmit_full
            /\ Timed(x, e + 1).transmit_queue = x.transmit_queue
        BY <2>7, <3>1, TimedFields
      <4>3. /\ Timed(s, e + 1) \in Transmitters
            /\ Timed(s, e + 1).transmit_timer = e + 1
            /\ Timed(s, e + 1).transmit_enable = x.transmit_enable
            /\ Timed(s, e + 1).transmit_empty = x.transmit_empty
            /\ Timed(s, e + 1).transmit_full = x.transmit_full
            /\ Timed(s, e + 1).transmit_queue = x.transmit_queue
        <5>1. s.transmit_enable = x.transmit_enable
          BY <2>3, <2>7, <2>2, TimedFields
        <5>2. QED
          BY <2>8, <3>1, <5>1, TimedFields
      <4>4. QED
        BY <4>2, <4>3, SameTransmitter
    <3>5. ~BtdmpFires(s) /\ BtdmpAudio(s) = <<>>
      BY <2>9, <2>10 DEF BtdmpFires, BtdmpAudio
    <3>6. SkipAudio(b, n) \o <<>> = SkipAudio(b, n)
      BY <2>3, <2>7 DEF Sent
    <3>7. QED
      BY <3>2, <3>3, <3>4, <3>5, <3>6 DEF s, Timed
  <2>11. CASE e + 1 = Period
    <3> DEFINE y == Transmissions(b, m + 1).left
    <3>1. /\ 0 \in 0 .. Period - 1 /\ m + 1 \in Nat
          /\ b.transmit_timer + (n + 1) = (m + 1) * Period + 0
      BY <2>1, <2>2, <2>11
    <3>2. BtdmpSkip(b, n + 1) = Timed(y, 0)
          /\ SkipAudio(b, n + 1) = Transmissions(b, m + 1).sent
      BY <1>2, <2>2, <3>1, SkipIs
    <3>3. Transmissions(b, m + 1) = NextSent(Transmissions(b, m))
      BY <2>2, TransmissionSteps
    <3>4. y = SkipTransmit(x)
          /\ Transmissions(b, m + 1).sent = Append(Transmissions(b, m).sent, Frame(x))
      BY <3>3 DEF NextSent, x
    <3>5. Sending(b, m + 1)
      BY <1>2, <2>2, <3>1, MaxSkipSends
    <3>6. x.transmit_queue # <<>> => Len(x.transmit_queue) > 2
      <4>1. \A p, i \in Nat : 2 * (i + 1) < p => p - 2 * i > 2
        OBVIOUS
      <4>2. Len(b.transmit_queue) \in Nat
        BY RestOf
      <4>3. b.transmit_queue # <<>> =>
                Len(b.transmit_queue) - 2 * m > 2
        BY <2>2, <3>5, <4>1, <4>2 DEF Sending
      <4>4. (x.transmit_queue = <<>>) <=> Len(x.transmit_queue) = 0
        BY <2>7, RestOf
      <4>5. QED
        BY <2>7, <4>3, <4>4
    <3> HIDE DEF y
    <3>7. TransmitterOK(y) /\ y \in Transmitters
      BY <2>7, <3>4, <3>6, SkipTransmitOK DEF TransmitterOK
    <3>8. /\ y.transmit_enable = x.transmit_enable /\ y.transmit_queue = Rest(x)
          /\ y.transmit_empty = x.transmit_empty
          /\ y.transmit_full = IF Taken(x) = 0 THEN x.transmit_full ELSE FALSE
      BY <2>7, <3>4, RestOf, SkipTransmitFields DEF TransmitterOK
    <3>9. Taken(s) # 0 => Rest(s) # <<>> /\ x.transmit_queue # <<>>
      <4>1. /\ Taken(x) # 0 => x.transmit_queue # <<>>
            /\ (Rest(x) = <<>>) <=> Len(x.transmit_queue) <= 2
            /\ Len(x.transmit_queue) \in Nat
        <5> DEFINE k == Len(x.transmit_queue)
        <5>1. /\ k \in Nat /\ Taken(x) = IF k < 2 THEN k ELSE 2
              /\ (x.transmit_queue = <<>>) <=> k = 0
              /\ (Rest(x) = <<>>) <=> k <= 2
          BY <2>7, RestOf
        <5> HIDE DEF k
        <5>2. Taken(x) # 0 => k # 0
          BY <5>1
        <5>3. QED
          BY <5>1, <5>2 DEF k
      <4>2. \A k \in Nat : k > 2 => ~(k <= 2)
        OBVIOUS
      <4>3. QED
        BY <2>8, <3>6, <4>1, <4>2
    <3>10. BtdmpTick(s) = Transmit(s)
      BY <2>8, <2>9, <2>11 DEF BtdmpTick
    <3>11. Transmit(s) = Timed(y, 0)
      <4>1. /\ Timed(y, 0) \in Transmitters
            /\ Timed(y, 0).transmit_timer = 0
            /\ Timed(y, 0).transmit_enable = y.transmit_enable
            /\ Timed(y, 0).transmit_empty = y.transmit_empty
            /\ Timed(y, 0).transmit_full = y.transmit_full
            /\ Timed(y, 0).transmit_queue = y.transmit_queue
        BY <3>1, <3>7, TimedFields
      <4>2. TransmitterOK(Transmit(s))
        BY <2>8, <3>10, TickTransmitter
      <4>3. /\ Transmit(s).transmit_timer = 0
            /\ Transmit(s).transmit_enable = s.transmit_enable
            /\ Transmit(s).transmit_queue = Rest(s)
        BY <2>8 DEF Transmit, Transmitters
      <4>4. Transmit(s).transmit_full = IF Taken(s) = 0 THEN s.transmit_full ELSE FALSE
        BY <2>8 DEF Transmit, Transmitters
      <4>5. Transmit(s).transmit_empty = x.transmit_empty
        <5>1. CASE Taken(s) = 0
          <6>1. Transmit(s).transmit_empty = s.transmit_empty
            BY <2>8, <5>1 DEF Transmit, Transmitters
          <6>2. QED
            BY <2>8, <6>1
        <5>2. CASE Taken(s) # 0
          <6>1. Transmit(s).transmit_empty = FALSE
            BY <2>8, <3>9, <5>2 DEF Transmit, Transmitters
          <6>2. x.transmit_empty = FALSE
            BY <2>7, <3>9, <5>2 DEF TransmitterOK, FlagsOK
          <6>3. QED
            BY <6>1, <6>2
        <5>3. QED
          BY <5>1, <5>2
      <4>6. s.transmit_enable = x.transmit_enable
        BY <1>2, <2>7, <2>8
      <4>7. Transmit(s) \in Transmitters
        BY <4>2 DEF TransmitterOK
      <4>8. /\ Transmit(s).transmit_timer = Timed(y, 0).transmit_timer
            /\ Transmit(s).transmit_enable = Timed(y, 0).transmit_enable
            /\ Transmit(s).transmit_queue = Timed(y, 0).transmit_queue
            /\ Transmit(s).transmit_empty = Timed(y, 0).transmit_empty
        BY <2>8, <3>8, <4>1, <4>3, <4>5, <4>6
      <4>9. Transmit(s).transmit_full = Timed(y, 0).transmit_full
        BY <2>8, <3>8, <4>1, <4>4
      <4>10. QED
        BY <4>1, <4>7, <4>8, <4>9, SameTransmitter
    <3>12. ~BtdmpFires(s) /\ BtdmpAudio(s) = <<Frame(x)>>
      BY <2>8, <2>9, <2>11, <3>9 DEF BtdmpFires, BtdmpAudio
    <3>13. SkipAudio(b, n + 1) = SkipAudio(b, n) \o <<Frame(x)>>
      <4>1. Frame(x) \in [1 .. 2 -> Sample]
        BY <2>7, FrameType
      <4>2. QED
        BY <2>3, <2>7, <3>2, <3>4, <4>1, AppendOne DEF Sent
    <3>14. QED
      BY <3>2, <3>10, <3>11, <3>12, <3>13 DEF s
  <2>12. QED
    BY <2>10, <2>11
<1>3. QED
  BY <1>1, <1>2

\* A skip of no ticks changes nothing and sends nothing.
LEMMA SkipNothingTransmitter ==
    ASSUME NEW b, TransmitterOK(b)
    PROVE  BtdmpSkip(b, 0) = b /\ SkipAudio(b, 0) = <<>>
<1>1. CASE ~b.transmit_enable
  BY <1>1 DEF BtdmpSkip, SkipAudio
<1>2. CASE b.transmit_enable
  <2> DEFINE t == b.transmit_timer
  <2>1. Period \in Nat /\ Period > 0 /\ t \in 0 .. Period - 1
    BY BtdmpAssumption DEF TransmitterOK, Transmitters
  <2>2. t + 0 = 0 * Period + t
    BY <2>1
  <2>3. BtdmpSkip(b, 0) = Timed(Transmissions(b, 0).left, t)
        /\ SkipAudio(b, 0) = Transmissions(b, 0).sent
    BY <1>2, <2>1, <2>2, SkipIs
  <2>4. Transmissions(b, 0).left = b /\ Transmissions(b, 0).sent = <<>>
    BY TransmissionSteps DEF FirstSent
  <2>5. Timed(b, t) = b
    <3>1. b \in Transmitters
      BY DEF TransmitterOK
    <3>2. QED
      BY <2>1, <3>1, TimedFields, SameTransmitter
  <2>6. QED
    BY <2>3, <2>4, <2>5
<1>3. QED
  BY <1>1, <1>2

-----------------------------------------------------------------------------
(***************************************************************************)
(* What every peripheral allows                                            *)
(***************************************************************************)
PeriphTypes ==
    /\ timer \in [TimerId -> TimerState]
    /\ btdmp \in [BtdmpId -> Transmitters]
    /\ \A j \in BtdmpId : TransmitterOK(btdmp[j])

\* No timer is to restart from 0.
PeriphRestarts == \A i \in TimerId : TimerOK(timer[i])

PeriphOK == PeriphTypes /\ PeriphRestarts

LEMMA InfinityType == Infinity \in Nat
<1>1. Range32 \in Nat /\ Range32 > 1
  BY Range32Type
<1>2. Range32 * Range32 \in Nat /\ Range32 * Range32 > 0
  BY <1>1
<1>3. QED
  BY <1>2 DEF Infinity

LEMMA PeriodType == ASSUME NEW t \in TimerState PROVE Period32(t) \in Counter
  BY Range32Type, StartType DEF Period32, MaxCount

LEMMA TimerMaxSkipType == ASSUME NEW t \in TimerState PROVE TimerMaxSkip(t) \in Nat
<1>1. t.counter \in 0 .. Range32 - 1 /\ Period32(t) \in 0 .. Range32 - 1
  BY Range32Type, PeriodType DEF TimerState
<1>2. QED
  BY <1>1, InfinityType, Range32Type DEF TimerMaxSkip

LEMMA BtdmpMaxSkipType ==
    ASSUME NEW b, TransmitterOK(b)
    PROVE  BtdmpMaxSkip(b, Infinity) \in Nat
<1>1. CASE ~b.transmit_enable \/ b.transmit_queue = <<>>
  BY <1>1, InfinityType DEF BtdmpMaxSkip
<1>2. CASE b.transmit_enable /\ b.transmit_queue # <<>>
  <2> DEFINE L == Len(b.transmit_queue)
             h == (L + 1) \div 2
             t == b.transmit_timer
  <2>1. Period \in Nat /\ Period > 0 /\ t \in 0 .. Period - 1
    BY BtdmpAssumption DEF TransmitterOK, Transmitters
  <2>2. L \in Nat /\ L # 0
    BY <1>2, RestOf
  <2>3. h \in Nat
    BY <2>2, HalfUp
  <2>4. BtdmpMaxSkip(b, Infinity) = Period - t - 1 + (h - 1) * Period
    <3>1. b.transmit_timer < Period
      BY <2>1
    <3>2. QED
      BY <1>2, <3>1, Zenon DEF BtdmpMaxSkip
  <2>5. h >= 1
    <3>1. \A p \in Nat : p # 0 => (p + 1) \div 2 >= 1
      BY SMTT(20)
    <3>2. QED
      BY <2>2, <3>1
  <2> HIDE DEF L, h, t
  <2>6. (h - 1) * Period \in Nat
    BY <2>1, <2>3, <2>5
  <2>7. QED
    BY <2>1, <2>4, <2>6
<1>3. QED
  BY <1>1, <1>2

LEMMA MaxSkipsType == ASSUME PeriphTypes PROVE MaxSkips \in SUBSET Nat
  BY TimerMaxSkipType, BtdmpMaxSkipType DEF MaxSkips, PeriphTypes

\* A tick or a skip within the limit gives a timer, also when START_COUNT is 0.
LEMMA TickType == ASSUME NEW t \in TimerState PROVE TimerTick(t) \in TimerState
<1>1. t.counter \in 0 .. Range32 - 1 /\ MaxCount \in Counter
  BY Range32Type DEF TimerState, MaxCount
<1>2. t.counter # 0 => t.counter - 1 \in Counter
  BY <1>1, Range32Type
<1>3. QED
  BY <1>1, <1>2, LoadInState, StartType DEF TimerTick, Restart

LEMMA SkipType ==
    ASSUME NEW t \in TimerState, NEW n \in Nat, n <= TimerMaxSkip(t)
    PROVE  TimerSkip(t, n) \in TimerState
<1>1. CASE Halted(t) \/ (t.counter = 0 /\ ~Rearms(t))
  BY <1>1 DEF TimerSkip
<1>2. CASE ~Halted(t) /\ t.counter = 0 /\ Rearms(t)
  <2>1. Period32(t) \in 0 .. Range32 - 1 /\ Range32 \in Nat /\ Range32 > 0
    BY PeriodType, Range32Type
  <2>2. Period32(t) - n + 1 \in Int
    BY <2>1
  <2>3. (Period32(t) - n + 1) % Range32 \in Counter
    BY <2>1, <2>2, Range32Type
  <2>4. QED
    BY <1>2, <2>3, LoadInState DEF TimerSkip
<1>3. CASE ~Halted(t) /\ t.counter # 0
  <2>1. t.counter \in 0 .. Range32 - 1
    BY Range32Type DEF TimerState
  <2>2. t.counter - n \in Counter
    BY <1>3, <2>1, Range32Type DEF TimerMaxSkip
  <2>3. QED
    BY <1>3, <2>2, LoadInState DEF TimerSkip
<1>4. QED
  BY <1>1, <1>2, <1>3

LEMMA SkipTransmitterType ==
    ASSUME NEW b, TransmitterOK(b), NEW n \in Nat, n <= BtdmpMaxSkip(b, Infinity)
    PROVE  /\ TransmitterOK(BtdmpSkip(b, n))
           /\ SkipAudio(b, n) \in Sent /\ Len(SkipAudio(b, n)) <= n
<1>1. CASE ~b.transmit_enable
  <2>1. <<>> \in Sent /\ Len(<<>>) = 0
    BY DEF Sent
  <2>2. QED
    BY <1>1, <2>1 DEF BtdmpSkip, SkipAudio
<1>2. CASE b.transmit_enable
  <2> DEFINE t == b.transmit_timer
  <2>1. Period \in Nat /\ Period > 0 /\ t \in 0 .. Period - 1
    BY BtdmpAssumption DEF TransmitterOK, Transmitters
  <2>2. PICK m \in Nat, e \in 0 .. Period - 1 : t + n = m * Period + e
    <3>1. t + n \in Nat
      BY <2>1
    <3>2. QED
      BY <2>1, <3>1, Division
  <2>3. Sending(b, m)
    BY <1>2, <2>2, MaxSkipSends
  <2>4. /\ BtdmpSkip(b, n) = Timed(Transmissions(b, m).left, e)
        /\ SkipAudio(b, n) = Transmissions(b, m).sent
    BY <1>2, <2>2, SkipIs
  <2>5. /\ TransmitterOK(Transmissions(b, m).left)
        /\ Transmissions(b, m).sent \in Sent /\ Len(Transmissions(b, m).sent) = m
    BY <2>3, AfterTransmissions
  <2>6. m <= n
    <3> HIDE DEF t
    <3>1. ASSUME n + 1 <= m
          PROVE  (n + 1) * Period <= m * Period
      BY <2>1, <3>1
    <3>2. (n + 1) * Period = n * Period + Period /\ n <= n * Period
      BY <2>1
    <3>3. n * Period \in Nat /\ m * Period \in Nat
      BY <2>1
    <3>4. QED
      BY <2>1, <2>2, <3>1, <3>2, <3>3
  <2>7. QED
    BY <2>4, <2>5, <2>6, TimedFields
<1>3. QED
  BY <1>1, <1>2

\* CoreTiming::Skip finds a number of ticks that every peripheral allows.
LEMMA SkippableIs ==
    ASSUME PeriphTypes, NEW maximum \in Nat
    PROVE  /\ Skippable(maximum) \in 0 .. maximum
           /\ \A s \in MaxSkips : Skippable(maximum) <= s
<1> DEFINE Limits == MaxSkips \cup {maximum}
<1>1. Limits \in SUBSET Nat /\ Limits # {}
  BY MaxSkipsType
<1> HIDE DEF Limits
<1>2. PICK n \in Limits : \A s \in Limits : n <= s
  BY <1>1, LeastNatural
<1>3. /\ n \in 0 .. maximum
      /\ \A s \in MaxSkips : n <= s
      /\ n = maximum \/ n \in MaxSkips
  BY <1>1, <1>2 DEF Limits
<1>4. QED
  BY <1>3 DEF Skippable

-----------------------------------------------------------------------------
(***************************************************************************)
(* Skipping all the peripherals                                            *)
(***************************************************************************)
\* A tick after a skip that may be one tick longer is that longer skip.
LEMMA SkipAllThenTick ==
    ASSUME PeriphOK, NEW n \in Nat, \A s \in MaxSkips : n + 1 <= s
    PROVE  TickAll(SkipAll(n)) = SkipAll(n + 1)
<1> DEFINE k == SkipAll(n)
<1>1. \A i \in TimerId : /\ TimerTick(TimerSkip(timer[i], n)) = TimerSkip(timer[i], n + 1)
                         /\ ~TimerFires(TimerSkip(timer[i], n))
  BY SkipThenTick DEF PeriphOK, PeriphRestarts, TimerOK, MaxSkips
<1>2. \A j \in BtdmpId :
        /\ BtdmpTick(BtdmpSkip(btdmp[j], n)) = BtdmpSkip(btdmp[j], n + 1)
        /\ ~BtdmpFires(BtdmpSkip(btdmp[j], n))
        /\ SkipAudio(btdmp[j], n) \o BtdmpAudio(BtdmpSkip(btdmp[j], n)) =
             SkipAudio(btdmp[j], n + 1)
  BY SkipThenTickTransmitter DEF PeriphOK, PeriphTypes, MaxSkips
<1>3. /\ k.timer = [i \in TimerId |-> TimerSkip(timer[i], n)]
      /\ k.btdmp = [j \in BtdmpId |-> BtdmpSkip(btdmp[j], n)]
      /\ k.elapsed = n /\ k.fired = {}
      /\ k.audio = [j \in BtdmpId |-> SkipAudio(btdmp[j], n)]
  BY DEF SkipAll
<1> HIDE DEF k
<1>4. Firing(k) = {}
  BY <1>1, <1>2, <1>3 DEF Firing
<1>5. k.fired \cup {<<p, k.elapsed + 1>> : p \in Firing(k)} = {}
  BY <1>3, <1>4
<1>6. [i \in TimerId |-> TimerTick(k.timer[i])] =
        [i \in TimerId |-> TimerSkip(timer[i], n + 1)]
  BY <1>1, <1>3
<1>7. [j \in BtdmpId |-> BtdmpTick(k.btdmp[j])] =
        [j \in BtdmpId |-> BtdmpSkip(btdmp[j], n + 1)]
  BY <1>2, <1>3
<1>8. [j \in BtdmpId |-> k.audio[j] \o BtdmpAudio(k.btdmp[j])] =
        [j \in BtdmpId |-> SkipAudio(btdmp[j], n + 1)]
  BY <1>2, <1>3
<1>9. TickAll(k) = SkipAll(n + 1)
  BY <1>3, <1>5, <1>6, <1>7, <1>8 DEF TickAll, SkipAll
<1>10. QED
  BY <1>9 DEF k

\* A skip of no ticks is not seen by the tick after it.
LEMMA SkipAllOfNothing ==
    ASSUME PeriphOK
    PROVE  TickAll(SkipAll(0)) = TickAll(Clock)
<1> DEFINE k == SkipAll(0)
           c == Clock
<1>1. \A i \in TimerId : /\ TimerTick(TimerSkip(timer[i], 0)) = TimerTick(timer[i])
                         /\ TimerFires(TimerSkip(timer[i], 0)) = TimerFires(timer[i])
  BY SkipNothing DEF PeriphOK, PeriphRestarts, TimerOK
<1>2. \A j \in BtdmpId : /\ BtdmpSkip(btdmp[j], 0) = btdmp[j]
                         /\ SkipAudio(btdmp[j], 0) = <<>>
  BY SkipNothingTransmitter DEF PeriphOK, PeriphTypes
<1>3. /\ k.timer = [i \in TimerId |-> TimerSkip(timer[i], 0)]
      /\ k.btdmp = [j \in BtdmpId |-> BtdmpSkip(btdmp[j], 0)]
      /\ k.elapsed = 0 /\ k.fired = {}
      /\ k.audio = [j \in BtdmpId |-> SkipAudio(btdmp[j], 0)]
  BY DEF SkipAll
<1>4. /\ c.timer = timer /\ c.btdmp = btdmp /\ c.elapsed = 0 /\ c.fired = {}
      /\ c.audio = [j \in BtdmpId |-> <<>>]
  BY DEF Clock
<1> HIDE DEF k, c
<1>5. Firing(k) = Firing(c)
  <2>1. {i \in TimerId : TimerFires(k.timer[i])} = {i \in TimerId : TimerFires(c.timer[i])}
    BY <1>1, <1>3, <1>4
  <2>2. {j \in BtdmpId : BtdmpFires(k.btdmp[j])} = {j \in BtdmpId : BtdmpFires(c.btdmp[j])}
    BY <1>2, <1>3, <1>4
  <2>3. QED
    BY <2>1, <2>2 DEF Firing
<1>6. [i \in TimerId |-> TimerTick(k.timer[i])] = [i \in TimerId |-> TimerTick(c.timer[i])]
  BY <1>1, <1>3, <1>4
<1>7. [j \in BtdmpId |-> BtdmpTick(k.btdmp[j])] = [j \in BtdmpId |-> BtdmpTick(c.btdmp[j])]
  BY <1>2, <1>3, <1>4
<1>8. [j \in BtdmpId |-> k.audio[j] \o BtdmpAudio(k.btdmp[j])] =
        [j \in BtdmpId |-> c.audio[j] \o BtdmpAudio(c.btdmp[j])]
  BY <1>2, <1>3, <1>4
<1>9. k.elapsed = c.elapsed /\ k.fired = c.fired
  BY <1>3, <1>4
<1>10. TickAll(k) = TickAll(c)
  <2> DEFINE Fired(x) == x.fired \cup {<<p, x.elapsed + 1>> : p \in Firing(x)}
  <2>1. Fired(k) = Fired(c)
    BY <1>5, <1>9
  <2>2. k.elapsed + 1 = c.elapsed + 1
    BY <1>9
  <2>3. \A x : TickAll(x) =
          [timer |-> [i \in TimerId |-> TimerTick(x.timer[i])],
           btdmp |-> [j \in BtdmpId |-> BtdmpTick(x.btdmp[j])],
           elapsed |-> x.elapsed + 1,
           fired |-> Fired(x),
           audio |-> [j \in BtdmpId |-> x.audio[j] \o BtdmpAudio(x.btdmp[j])]]
    BY DEF TickAll
  <2> HIDE DEF Fired
  <2>4. QED
    BY <1>6, <1>7, <1>8, <2>1, <2>2, <2>3
<1>11. QED
  BY <1>10 DEF k, c

\* Skipping what every peripheral allows and then ticking is ticking all the way.
THEOREM SkippingIsTicking ==
    ASSUME PeriphOK, NEW n \in Nat, \A s \in MaxSkips : n <= s
    PROVE  TickAll(SkipAll(n)) = T!After(n + 1)
<1> DEFINE Good == {m \in Nat : m <= n => TickAll(SkipAll(m)) = T!After(m + 1)}
<1>1. 0 \in Good
  BY SkipAllOfNothing, AfterTicks
<1>2. ASSUME NEW m \in Good
      PROVE  m + 1 \in Good
  <2> SUFFICES ASSUME m + 1 <= n PROVE TickAll(SkipAll(m + 1)) = T!After((m + 1) + 1)
    BY <1>2
  <2>1. m \in Nat
    BY <1>2
  <2>2. m <= n
    BY <2>1
  <2>3. TickAll(SkipAll(m)) = T!After(m + 1)
    BY <1>2, <2>2
  <2>4. \A s \in MaxSkips : m + 1 <= s
    BY <2>1, MaxSkipsType DEF PeriphOK
  <2>5. TickAll(SkipAll(m)) = SkipAll(m + 1)
    BY <2>1, <2>4, SkipAllThenTick
  <2>6. m + 1 \in Nat
    BY <2>1
  <2>7. T!After((m + 1) + 1) = TickAll(T!After(m + 1))
    BY <2>6, AfterTicks
  <2>8. QED
    BY <2>3, <2>5, <2>7
<1>3. Good = Nat
  <2> HIDE DEF Good
  <2>1. Good \in SUBSET Nat
    BY DEF Good
  <2>2. QED
    BY <1>1, <1>2, <2>1, Induction
<1>4. QED
  BY <1>3

-----------------------------------------------------------------------------
(***************************************************************************)
(* Ticking keeps the peripherals well-formed.                              *)
(***************************************************************************)
ClockOK(k, n) ==
    /\ k.timer \in [TimerId -> TimerState]
    /\ k.btdmp \in [BtdmpId -> Transmitters]
    /\ \A j \in BtdmpId : TransmitterOK(k.btdmp[j])
    /\ k.elapsed = n
    /\ k.fired \subseteq (TimerId \cup BtdmpId) \X (0 .. n)
    /\ \A j \in BtdmpId : k.audio[j] \in Sent /\ Len(k.audio[j]) <= n

LEMMA AudioType ==
    ASSUME NEW b, TransmitterOK(b), NEW q \in Sent
    PROVE  /\ q \o BtdmpAudio(b) \in Sent
           /\ Len(q \o BtdmpAudio(b)) <= Len(q) + 1
<1>1. CASE TransmitDue(b)
  <2>1. Frame(b) \in [1 .. 2 -> Sample]
    BY FrameType
  <2>2. BtdmpAudio(b) = <<Frame(b)>>
    BY <1>1 DEF BtdmpAudio
  <2>3. QED
    BY <2>1, <2>2 DEF Sent
<1>2. CASE ~TransmitDue(b)
  <2>1. BtdmpAudio(b) = <<>>
    BY <1>2 DEF BtdmpAudio
  <2>2. q \o <<>> = q /\ Len(q) \in Nat
    BY DEF Sent
  <2>3. QED
    BY <2>1, <2>2
<1>3. QED
  BY <1>1, <1>2

LEMMA TickAllOK ==
    ASSUME NEW k, NEW n \in Nat, ClockOK(k, n)
    PROVE  ClockOK(TickAll(k), n + 1)
<1> DEFINE l == TickAll(k)
<1>1. /\ l.timer = [i \in TimerId |-> TimerTick(k.timer[i])]
      /\ l.btdmp = [j \in BtdmpId |-> BtdmpTick(k.btdmp[j])]
      /\ l.elapsed = k.elapsed + 1
      /\ l.fired = k.fired \cup {<<p, k.elapsed + 1>> : p \in Firing(k)}
      /\ l.audio = [j \in BtdmpId |-> k.audio[j] \o BtdmpAudio(k.btdmp[j])]
  BY DEF TickAll
<1> HIDE DEF l
<1>2. \A i \in TimerId : TimerTick(k.timer[i]) \in TimerState
  BY TickType DEF ClockOK
<1>3. \A j \in BtdmpId : TransmitterOK(BtdmpTick(k.btdmp[j]))
  BY TickTransmitter DEF ClockOK
<1>4. l.timer \in [TimerId -> TimerState]
  BY <1>1, <1>2
<1>5. /\ l.btdmp \in [BtdmpId -> Transmitters]
      /\ \A j \in BtdmpId : TransmitterOK(l.btdmp[j])
  BY <1>1, <1>3 DEF TransmitterOK
<1>6. l.elapsed = n + 1
  BY <1>1 DEF ClockOK
<1>7. l.fired \subseteq (TimerId \cup BtdmpId) \X (0 .. n + 1)
  <2>1. Firing(k) \subseteq TimerId \cup BtdmpId
    BY DEF Firing
  <2>2. k.fired \subseteq (TimerId \cup BtdmpId) \X (0 .. n) /\ k.elapsed = n
    BY DEF ClockOK
  <2>3. 0 .. n \subseteq 0 .. n + 1 /\ n + 1 \in 0 .. n + 1
    OBVIOUS
  <2>4. k.fired \subseteq (TimerId \cup BtdmpId) \X (0 .. n + 1)
    BY <2>2, <2>3
  <2>5. {<<p, n + 1>> : p \in Firing(k)} \subseteq (TimerId \cup BtdmpId) \X (0 .. n + 1)
    BY <2>1, <2>3
  <2>6. QED
    BY <1>1, <2>2, <2>4, <2>5
<1>8. ASSUME NEW j \in BtdmpId
      PROVE  l.audio[j] \in Sent /\ Len(l.audio[j]) <= n + 1
  <2>1. k.audio[j] \in Sent /\ Len(k.audio[j]) <= n /\ TransmitterOK(k.btdmp[j])
    BY DEF ClockOK
  <2>2. l.audio[j] = k.audio[j] \o BtdmpAudio(k.btdmp[j])
    BY <1>1
  <2>3. l.audio[j] \in Sent /\ Len(l.audio[j]) <= Len(k.audio[j]) + 1
    BY <2>1, <2>2, AudioType
  <2>4. Len(k.audio[j]) \in Nat /\ Len(l.audio[j]) \in Nat
    BY <2>1, <2>3 DEF Sent
  <2>5. QED
    BY <2>1, <2>3, <2>4
<1>9. ClockOK(l, n + 1)
  BY <1>4, <1>5, <1>6, <1>7, <1>8 DEF ClockOK
<1>10. QED
  BY <1>9 DEF l

LEMMA ClockTypes == ASSUME PeriphTypes PROVE ClockOK(Clock, 0)
<1>1. <<>> \in Sent /\ Len(<<>>) <= 0
  BY DEF Sent
<1>2. QED
  BY <1>1 DEF ClockOK, Clock, PeriphTypes

\* The clock after n ticks.
LEMMA AfterOK ==
    ASSUME PeriphOK, NEW n \in Nat
    PROVE  T!After(n).elapsed = n /\ \A i \in TimerId : TimerOK(T!After(n).timer[i])
<1> DEFINE Good == {m \in Nat : /\ T!After(m).elapsed = m
                                 /\ \A i \in TimerId : TimerOK(T!After(m).timer[i])}
<1>1. 0 \in Good
  BY AfterTicks DEF Clock, PeriphOK, PeriphRestarts
<1>2. ASSUME NEW m \in Good
      PROVE  m + 1 \in Good
  <2> DEFINE k == T!After(m)
  <2>1. m \in Nat /\ k.elapsed = m /\ \A i \in TimerId : TimerOK(k.timer[i])
    BY <1>2
  <2>2. T!After(m + 1) = TickAll(k)
    BY <2>1, AfterTicks
  <2> HIDE DEF k
  <2>3. TickAll(k).elapsed = m + 1 /\ \A i \in TimerId : TimerOK(TickAll(k).timer[i])
    BY <2>1, TickTimer DEF TickAll
  <2>4. QED
    BY <2>1, <2>2, <2>3
<1>3. Good = Nat
  <2> HIDE DEF Good
  <2>1. Good \in SUBSET Nat
    BY DEF Good
  <2>2. QED
    BY <1>1, <1>2, <2>1, Induction
<1>4. QED
  BY <1>3

\* The clock after a skip that every peripheral allows.
LEMMA SkipAllOK ==
    ASSUME PeriphTypes, NEW n \in Nat, \A s \in MaxSkips : n <= s
    PROVE  ClockOK(SkipAll(n), n)
<1> DEFINE k == SkipAll(n)
<1>1. /\ k.timer = [i \in TimerId |-> TimerSkip(timer[i], n)]
      /\ k.btdmp = [j \in BtdmpId |-> BtdmpSkip(btdmp[j], n)]
      /\ k.elapsed = n /\ k.fired = {}
      /\ k.audio = [j \in BtdmpId |-> SkipAudio(btdmp[j], n)]
  BY DEF SkipAll
<1> HIDE DEF k
<1>2. \A i \in TimerId : TimerSkip(timer[i], n) \in TimerState
  BY SkipType DEF PeriphTypes, MaxSkips
<1>3. \A j \in BtdmpId : /\ TransmitterOK(BtdmpSkip(btdmp[j], n))
                         /\ SkipAudio(btdmp[j], n) \in Sent
                         /\ Len(SkipAudio(btdmp[j], n)) <= n
  BY SkipTransmitterType DEF PeriphTypes, MaxSkips
<1>4. ClockOK(k, n)
  BY <1>1, <1>2, <1>3 DEF ClockOK, TransmitterOK
<1>5. QED
  BY <1>4 DEF k

\* What the turns of the loop do, in ticks.
LEMMA TurnTicks ==
    ASSUME PeriphOK, BusyTurn \/ \E cycles \in 1 .. MaxTurn : IdleTurn(cycles)
    PROVE  \E m \in 1 .. MaxTurn : Becomes(T!After(m))
<1>1. CASE BusyTurn
  <2>1. TickAll(Clock) = T!After(1)
    BY AfterTicks
  <2>2. 1 \in 1 .. MaxTurn
    BY TimingAssumption
  <2>3. QED
    BY <1>1, <2>1, <2>2 DEF BusyTurn
<1>2. ASSUME NEW cycles \in 1 .. MaxTurn, IdleTurn(cycles)
      PROVE  \E m \in 1 .. MaxTurn : Becomes(T!After(m))
  <2> DEFINE n == Skippable(cycles - 1)
             waited == SkipAll(n)
  <2>1. cycles - 1 \in Nat /\ cycles \in Nat /\ cycles <= MaxTurn /\ MaxTurn \in Nat
    BY TimingAssumption
  <2>2. n \in 0 .. cycles - 1 /\ \A s \in MaxSkips : n <= s
    BY <2>1, SkippableIs DEF PeriphOK
  <2>3. waited.elapsed = n
    BY DEF SkipAll
  <2>4. Becomes(TickAll(IF waited.elapsed < cycles - 1 THEN TickAll(waited) ELSE waited))
    BY <1>2 DEF IdleTurn
  <2> HIDE DEF n
  <2>5. n \in Nat /\ TickAll(waited) = T!After(n + 1)
    BY <2>1, <2>2, SkippingIsTicking
  <2> HIDE DEF waited
  <2>6. CASE n < cycles - 1
    <3>1. n + 1 \in Nat /\ (n + 1) + 1 \in 1 .. MaxTurn
      BY <2>1, <2>5, <2>6
    <3>2. Becomes(T!After((n + 1) + 1))
      BY <2>3, <2>4, <2>5, <2>6, <3>1, AfterTicks
    <3>3. QED
      BY <3>1, <3>2
  <2>7. CASE ~(n < cycles - 1)
    <3>1. n + 1 \in 1 .. MaxTurn
      BY <2>1, <2>2, <2>5
    <3>2. QED
      BY <2>3, <2>4, <2>5, <2>7, <3>1
  <2>8. QED
    BY <2>6, <2>7
<1>3. QED
  BY <1>1, <1>2

-----------------------------------------------------------------------------
(***************************************************************************)
(* The MMIO writes keep the peripherals well-formed.                       *)
(***************************************************************************)
LEMMA SetTimerOK ==
    ASSUME PeriphTypes, NEW i \in TimerId, NEW t \in TimerState, SetTimer(i, t)
    PROVE  PeriphTypes' /\ (~ZeroRestart /\ PeriphRestarts => PeriphRestarts')
<1>1. ~ZeroRestart => TimerOK(t)
  BY DEF SetTimer, Acceptable, TimerOK
<1>2. /\ timer' = [timer EXCEPT ![i] = t] /\ btdmp' = btdmp
      /\ timer \in [TimerId -> TimerState]
  BY DEF SetTimer, PeriphTypes
<1>3. ~ZeroRestart /\ PeriphRestarts => PeriphRestarts'
  BY <1>1, <1>2 DEF PeriphRestarts
<1>4. PeriphTypes'
  BY <1>2 DEF PeriphTypes
<1>5. QED
  BY <1>3, <1>4

LEMMA SetBtdmpOK ==
    ASSUME PeriphTypes, NEW j \in BtdmpId, NEW b, TransmitterOK(b), SetBtdmp(j, b)
    PROVE  PeriphTypes' /\ (PeriphRestarts => PeriphRestarts')
<1>1. /\ btdmp' \in [BtdmpId -> Transmitters]
      /\ \A l \in BtdmpId : TransmitterOK(btdmp'[l])
  BY DEF SetBtdmp, PeriphTypes, TransmitterOK
<1>2. timer' = timer
  BY DEF SetBtdmp
<1>3. QED
  BY <1>1, <1>2 DEF PeriphTypes, PeriphRestarts

LEMMA RestartType == ASSUME NEW t \in TimerState PROVE Restart(t) \in TimerState
  BY StartType, LoadInState DEF Restart

LEMMA EventType == ASSUME NEW t \in TimerState PROVE TimerTickEvent(t) \in TimerState
<1>1. CASE EventCounts(t)
  <2>1. t.counter - 1 \in Counter
    BY <1>1, Range32Type DEF EventCounts, TimerState
  <2>2. QED
    BY <1>1, <2>1, LoadInState DEF TimerTickEvent
<1>2. CASE ~EventCounts(t)
  BY <1>2 DEF TimerTickEvent
<1>3. QED
  BY <1>1, <1>2

\* Sending puts the word at the end, if there is room.
LEMMA SendOK ==
    ASSUME NEW b, TransmitterOK(b), NEW word \in Sample
    PROVE  TransmitterOK(BtdmpSend(b, word))
<1> DEFINE q == b.transmit_queue
           s == BtdmpSend(b, word)
<1>1. CASE Len(q) = Capacity
  BY <1>1 DEF BtdmpSend
<1>2. CASE Len(q) # Capacity
  <2>1. q \in Seq(Sample) /\ Len(q) \in Nat /\ Len(q) <= Capacity /\ Capacity \in Nat
    BY BtdmpAssumption DEF TransmitterOK, Transmitters
  <2> HIDE DEF q
  <2>2. /\ Append(q, word) \in Seq(Sample) /\ Append(q, word) # <<>>
        /\ Len(Append(q, word)) = Len(q) + 1
    <3>1. Append(q, word) \in Seq(Sample) /\ Len(Append(q, word)) = Len(q) + 1
      BY <2>1
    <3>2. Len(Append(q, word)) # 0 /\ Len(<<>>) = 0
      BY <2>1, <3>1
    <3>3. Append(q, word) # <<>>
      BY <3>2
    <3>4. QED
      BY <3>1, <3>3
  <2>3. s = [b EXCEPT !.transmit_queue = Append(q, word), !.transmit_empty = FALSE,
                      !.transmit_full = (Len(q) + 1 = Capacity)]
    BY <1>2 DEF BtdmpSend, q
  <2> HIDE DEF s
  <2>4. b \in Transmitters
    BY DEF TransmitterOK
  <2>5. /\ s \in Transmitters /\ s.transmit_queue = Append(q, word)
        /\ s.transmit_empty = FALSE
    BY <2>2, <2>3, <2>4 DEF Transmitters
  <2>6. s.transmit_full = (Len(q) + 1 = Capacity)
    BY <2>3, <2>4 DEF Transmitters
  <2>7. s.transmit_empty = (s.transmit_queue = <<>>)
    BY <2>2, <2>5
  <2>8. s.transmit_full = (Len(s.transmit_queue) = Capacity)
    BY <2>2, <2>5, <2>6
  <2>9. Len(s.transmit_queue) <= Capacity
    BY <1>2, <2>1, <2>2, <2>5 DEF q
  <2>10. TransmitterOK(s)
    BY <2>5, <2>7, <2>8, <2>9 DEF TransmitterOK, FlagsOK
  <2>11. QED
    BY <2>10 DEF s
<1>3. QED
  BY <1>1, <1>2

LEMMA FlushOK ==
    ASSUME NEW b, TransmitterOK(b)
    PROVE  TransmitterOK(SetTransmitFlush(b))
<1> DEFINE s == SetTransmitFlush(b)
<1>1. /\ s \in Transmitters /\ s.transmit_queue = <<>>
      /\ s.transmit_empty = TRUE /\ s.transmit_full = FALSE
  <2>1. b \in Transmitters /\ <<>> \in Seq(Sample)
    BY DEF TransmitterOK
  <2>2. QED
    BY <2>1 DEF SetTransmitFlush, Transmitters
<1>2. Len(<<>>) = 0 /\ Capacity # 0 /\ Capacity \in Nat
  BY BtdmpAssumption
<1> HIDE DEF s
<1>3. s.transmit_full = (Len(s.transmit_queue) = Capacity)
  BY <1>1, <1>2
<1>4. s.transmit_empty = (s.transmit_queue = <<>>) /\ Len(s.transmit_queue) <= Capacity
  <2>1. s.transmit_empty = (s.transmit_queue = <<>>)
    BY <1>1
  <2>2. Len(s.transmit_queue) = 0
    BY <1>1, <1>2
  <2>3. QED
    BY <1>2, <2>1, <2>2
<1>5. TransmitterOK(s)
  BY <1>1, <1>3, <1>4 DEF TransmitterOK, FlagsOK
<1>6. QED
  BY <1>5 DEF s

LEMMA EnableOK ==
    ASSUME NEW b, TransmitterOK(b), NEW value \in BOOLEAN
    PROVE  TransmitterOK(SetTransmitEnable(b, value))
<1> DEFINE s == SetTransmitEnable(b, value)
<1>1. /\ s \in Transmitters /\ s.transmit_queue = b.transmit_queue
      /\ s.transmit_empty = b.transmit_empty /\ s.transmit_full = b.transmit_full
  BY DEF SetTransmitEnable, TransmitterOK, Transmitters
<1> HIDE DEF s
<1>2. TransmitterOK(s)
  BY <1>1 DEF TransmitterOK, FlagsOK
<1>3. QED
  BY <1>2 DEF s

LEMMA MmioOK ==
    ASSUME PeriphTypes, Mmio
    PROVE  /\ PeriphTypes' /\ (~ZeroRestart /\ PeriphRestarts => PeriphRestarts')
           /\ \E interrupts \in SUBSET (TimerId \X {0}) : Outputs(interrupts)
<1> DEFINE Kept == PeriphTypes' /\ (~ZeroRestart /\ PeriphRestarts => PeriphRestarts')
<1>1. {} \in SUBSET (TimerId \X {0})
  OBVIOUS
<1>2. ASSUME NEW i \in TimerId, WriteConfig(i)
      PROVE  Kept /\ Silent
  <2>1. PICK mode \in Modes, update \in Updates, pause \in BOOLEAN, restart \in BOOLEAN :
          LET t == [timer[i] EXCEPT !.count_mode = mode, !.pause = pause,
                                    !.update_mmio = update]
          IN  SetTimer(i, IF restart THEN Restart(t) ELSE t) /\ Silent
    BY <1>2 DEF WriteConfig
  <2> DEFINE t == [timer[i] EXCEPT !.count_mode = mode, !.pause = pause,
                                   !.update_mmio = update]
  <2>2. mode \in CountMode /\ update \in BOOLEAN /\ timer[i] \in TimerState
    BY PeripheralsAssumption DEF PeriphTypes
  <2>3. t \in TimerState
    BY <2>2 DEF TimerState
  <2> HIDE DEF t
  <2>4. (IF restart THEN Restart(t) ELSE t) \in TimerState
    BY <2>3, RestartType
  <2>5. QED
    BY <2>1, <2>4, SetTimerOK DEF t
<1>3. ASSUME NEW i \in TimerId, WriteStart(i)
      PROVE  Kept /\ Silent
  <2>1. PICK half \in StartHalves : \/ SetTimer(i, [timer[i] EXCEPT !.start_low = half])
                                    \/ SetTimer(i, [timer[i] EXCEPT !.start_high = half])
    BY <1>3 DEF WriteStart
  <2>2. half \in Half /\ timer[i] \in TimerState
    BY PeripheralsAssumption DEF PeriphTypes
  <2>3. /\ [timer[i] EXCEPT !.start_low = half] \in TimerState
        /\ [timer[i] EXCEPT !.start_high = half] \in TimerState
    BY <2>2 DEF TimerState
  <2>4. QED
    BY <1>3, <2>1, <2>3, SetTimerOK DEF WriteStart
<1>4. ASSUME NEW i \in TimerId, WriteEvent(i)
      PROVE  Kept /\ \E interrupts \in SUBSET (TimerId \X {0}) : Outputs(interrupts)
  <2>1. TimerTickEvent(timer[i]) \in TimerState
    BY EventType DEF PeriphTypes
  <2>2. Kept
    BY <1>4, <2>1, SetTimerOK DEF WriteEvent
  <2>3. Outputs(IF EventFires(timer[i]) THEN {<<i, 0>>} ELSE {})
    BY <1>4 DEF WriteEvent
  <2>4. (IF EventFires(timer[i]) THEN {<<i, 0>>} ELSE {}) \in SUBSET (TimerId \X {0})
    OBVIOUS
  <2>5. QED
    BY <2>2, <2>3, <2>4
<1>5. ASSUME NEW j \in BtdmpId, WriteBtdmp(j)
      PROVE  Kept /\ Silent
  <2>1. PICK b : SetBtdmp(j, b) /\ TransmitterOK(b)
    <3>1. TransmitterOK(btdmp[j])
      BY DEF PeriphTypes
    <3>2. CASE \E word \in Sample : SetBtdmp(j, BtdmpSend(btdmp[j], word))
      BY <3>1, <3>2, SendOK
    <3>3. CASE SetBtdmp(j, SetTransmitFlush(btdmp[j]))
      BY <3>1, <3>3, FlushOK
    <3>4. CASE \E value \in BOOLEAN : SetBtdmp(j, SetTransmitEnable(btdmp[j], value))
      BY <3>1, <3>4, EnableOK
    <3>5. QED
      BY <1>5, <3>2, <3>3, <3>4 DEF WriteBtdmp
  <2>2. Silent
    BY <2>1 DEF SetBtdmp
  <2>3. QED
    BY <2>1, <2>2, SetBtdmpOK
<1>6. QED
  BY <1>1, <1>2, <1>3, <1>4, <1>5 DEF Mmio, Silent

-----------------------------------------------------------------------------
(***************************************************************************)
(* The theorems about the run loop                                         *)
(***************************************************************************)
TimingInv ==
    /\ PeriphTypes
    /\ elapsed \in 0 .. MaxTurn
    /\ fired \subseteq (TimerId \cup BtdmpId) \X (0 .. MaxTurn)
    /\ \A j \in BtdmpId : audio[j] \in Sent /\ Len(audio[j]) <= MaxTurn

LEMMA InitOK == ASSUME PeriphInit PROVE TimingInv /\ PeriphRestarts
<1>1. TimerReset \in TimerState /\ TimerReset.count_mode # AutoRestart
  <2>1. 0 \in Half /\ 0 \in Counter
    BY TimerAssumption, Range32Type DEF Half
  <2>2. QED
    BY <2>1 DEF TimerReset, TimerState, CountMode, Single, AutoRestart, EventCount
<1>2. TimerOK(TimerReset)
  BY <1>1 DEF TimerOK
<1>3. TransmitterOK(BtdmpReset)
  <2>1. 0 \in 0 .. Period - 1 /\ Capacity \in Nat /\ Capacity # 0 /\ Len(<<>>) = 0
    BY BtdmpAssumption
  <2>2. /\ BtdmpReset \in Transmitters /\ BtdmpReset.transmit_queue = <<>>
        /\ BtdmpReset.transmit_empty = TRUE /\ BtdmpReset.transmit_full = FALSE
    BY <2>1 DEF BtdmpReset, Transmitters
  <2>3. BtdmpReset.transmit_full = (Len(BtdmpReset.transmit_queue) = Capacity)
    BY <2>1, <2>2
  <2>4. BtdmpReset.transmit_empty = (BtdmpReset.transmit_queue = <<>>)
    BY <2>2
  <2>5. Len(BtdmpReset.transmit_queue) = 0
    BY <2>1, <2>2
  <2>6. QED
    BY <2>1, <2>2, <2>3, <2>4, <2>5 DEF TransmitterOK, FlagsOK
<1>4. PeriphTypes /\ PeriphRestarts
  BY <1>1, <1>2, <1>3 DEF PeriphInit, PeriphTypes, PeriphRestarts, TransmitterOK
<1>5. 0 \in 0 .. MaxTurn /\ <<>> \in Sent /\ Len(<<>>) <= MaxTurn
  BY TimingAssumption DEF Sent
<1>6. QED
  BY <1>4, <1>5 DEF TimingInv, PeriphInit

\* What a turn leads to.
LEMMA BecomesOK ==
    ASSUME NEW k, NEW m \in 0 .. MaxTurn, ClockOK(k, m), Becomes(k)
    PROVE  TimingInv'
<1>1. /\ elapsed' = k.elapsed /\ timer' = k.timer /\ btdmp' = k.btdmp
      /\ fired' = k.fired /\ audio' = k.audio
  BY DEF Becomes
<1>2. m \in Nat /\ m <= MaxTurn /\ MaxTurn \in Nat
  BY TimingAssumption
<1>3. PeriphTypes'
  BY <1>1 DEF ClockOK, PeriphTypes
<1>4. elapsed' \in 0 .. MaxTurn
  BY <1>1, <1>2 DEF ClockOK
<1>5. fired' \subseteq (TimerId \cup BtdmpId) \X (0 .. MaxTurn)
  <2>1. 0 .. m \subseteq 0 .. MaxTurn
    BY <1>2
  <2>2. QED
    BY <1>1, <2>1 DEF ClockOK
<1>6. \A j \in BtdmpId : audio'[j] \in Sent /\ Len(audio'[j]) <= MaxTurn
  <2>1. \A j \in BtdmpId : k.audio[j] \in Sent /\ Len(k.audio[j]) <= m
    BY DEF ClockOK
  <2>2. \A q \in Sent : Len(q) \in Nat
    BY DEF Sent
  <2>3. QED
    BY <1>1, <1>2, <2>1, <2>2
<1>7. QED
  BY <1>3, <1>4, <1>5, <1>6 DEF TimingInv

LEMMA StepTypes == ASSUME TimingInv, TimingNext PROVE TimingInv'
<1>1. CASE Mmio
  <2>1. PICK interrupts \in SUBSET (TimerId \X {0}) : Outputs(interrupts)
    BY <1>1, MmioOK DEF TimingInv
  <2>2. PeriphTypes'
    BY <1>1, MmioOK DEF TimingInv
  <2>3. 0 \in 0 .. MaxTurn /\ <<>> \in Sent /\ Len(<<>>) <= MaxTurn
    BY TimingAssumption DEF Sent
  <2>4. QED
    BY <2>1, <2>2, <2>3 DEF TimingInv, Outputs
<1>2. CASE BusyTurn
  <2>1. ClockOK(TickAll(Clock), 0 + 1)
    BY ClockTypes, TickAllOK DEF TimingInv
  <2>2. 0 + 1 \in 0 .. MaxTurn
    BY TimingAssumption
  <2>3. QED
    BY <1>2, <2>1, <2>2, BecomesOK DEF BusyTurn
<1>3. ASSUME NEW cycles \in 1 .. MaxTurn, IdleTurn(cycles)
      PROVE  TimingInv'
  <2> DEFINE n == Skippable(cycles - 1)
             waited == SkipAll(n)
  <2>1. cycles - 1 \in Nat /\ cycles \in Nat /\ cycles <= MaxTurn /\ MaxTurn \in Nat
    BY TimingAssumption
  <2>2. n \in 0 .. cycles - 1 /\ \A s \in MaxSkips : n <= s
    BY <2>1, SkippableIs DEF TimingInv
  <2>3. waited.elapsed = n
    BY DEF SkipAll
  <2>4. Becomes(TickAll(IF waited.elapsed < cycles - 1 THEN TickAll(waited) ELSE waited))
    BY <1>3 DEF IdleTurn
  <2> HIDE DEF n
  <2>5. n \in Nat /\ ClockOK(waited, n)
    BY <2>1, <2>2, SkipAllOK DEF TimingInv
  <2> HIDE DEF waited
  <2>6. n + 1 \in Nat /\ ClockOK(TickAll(waited), n + 1)
    BY <2>5, TickAllOK
  <2>7. CASE n < cycles - 1
    <3>1. ClockOK(TickAll(TickAll(waited)), (n + 1) + 1)
      BY <2>6, TickAllOK
    <3>2. (n + 1) + 1 \in 0 .. MaxTurn
      BY <2>1, <2>5, <2>7
    <3>3. QED
      BY <2>3, <2>4, <2>7, <3>1, <3>2, BecomesOK
  <2>8. CASE ~(n < cycles - 1)
    <3>1. n + 1 \in 0 .. MaxTurn
      BY <2>1, <2>2, <2>5
    <3>2. QED
      BY <2>3, <2>4, <2>6, <2>8, <3>1, BecomesOK
  <2>9. QED
    BY <2>7, <2>8
<1>4. QED
  BY <1>1, <1>2, <1>3 DEF TimingNext

\* A step of the loop is a step of the processor that ticks, as long as no timer is
\* to restart from 0.
LEMMA StepTicks ==
    ASSUME ZeroRestart = FALSE, TimingInv, PeriphRestarts, TimingNext
    PROVE  T!TickingNext /\ PeriphRestarts'
<1>1. CASE Mmio
  <2>1. T!TickingNext
    BY <1>1, SameMmio DEF T!TickingNext
  <2>2. QED
    BY <1>1, <2>1, MmioOK DEF TimingInv
<1>2. CASE BusyTurn \/ \E cycles \in 1 .. MaxTurn : IdleTurn(cycles)
  <2>1. PICK m \in 1 .. MaxTurn : Becomes(T!After(m))
    BY <1>2, TurnTicks DEF TimingInv, PeriphOK
  <2>2. m \in Nat
    BY TimingAssumption
  <2>3. T!After(m).elapsed = m /\ \A i \in TimerId : TimerOK(T!After(m).timer[i])
    BY <2>2, AfterOK DEF TimingInv, PeriphOK
  <2>4. elapsed' = m /\ timer' = T!After(m).timer
    BY <2>1, <2>3 DEF Becomes
  <2>5. T!Becomes(T!After(m))
    BY <2>1, SameClock
  <2>6. T!TickingNext
    BY <2>4, <2>5 DEF T!TickingNext, T!Cycles
  <2>7. PeriphRestarts'
    BY <2>3, <2>4 DEF PeriphRestarts
  <2>8. QED
    BY <2>6, <2>7
<1>3. QED
  BY <1>1, <1>2 DEF TimingNext

\* The invariant: the flags of every transmitter tell what its queue holds.
THEOREM TimingInductive == TimingSpec => []TimingInv
<1>1. PeriphInit => TimingInv
  BY InitOK
<1>2. TimingInv /\ [TimingNext]_periphVars => TimingInv'
  <2> SUFFICES ASSUME TimingInv, [TimingNext]_periphVars PROVE TimingInv'
    OBVIOUS
  <2>1. CASE TimingNext
    BY <2>1, StepTypes
  <2>2. CASE UNCHANGED periphVars
    BY <2>2 DEF periphVars, TimingInv, PeriphTypes
  <2>3. QED
    BY <2>1, <2>2
<1>3. QED
  BY <1>1, <1>2, PTL DEF TimingSpec

\* The members of the peripherals stay within their types, the queue within its
\* capacity, and a turn gives out no more than its ticks can.
THEOREM TimingTypes == TimingSpec => []TimingTypeOK
<1>1. TimingInv => TimingTypeOK
  <2> SUFFICES ASSUME TimingInv PROVE TimingTypeOK
    OBVIOUS
  <2>1. btdmp \in [BtdmpId -> BtdmpState]
    BY TransmitterState DEF TimingInv, PeriphTypes
  <2>2. QED
    BY <2>1 DEF TimingInv, PeriphTypes, TimingTypeOK
<1>2. QED
  BY <1>1, TimingInductive, PTL

\* The flags in the status register agree with the queue, whichever of Send, Tick,
\* Skip and the flush wrote them last.
THEOREM TimingFlagsAgree == TimingSpec => []FlagsAgree
<1>1. TimingInv => FlagsAgree
  BY DEF TimingInv, PeriphTypes, FlagsAgree, TransmitterOK, FlagsOK
<1>2. QED
  BY <1>1, TimingInductive, PTL

\* The assertions of Timer::Skip and Btdmp::Skip never fail, however many
\* peripherals there are and however long the processor waits.
THEOREM TimingMaySkip == TimingSpec => []MaySkip
<1>1. TimingInv => MaySkip
  <2> SUFFICES ASSUME TimingInv, NEW cycles \in 1 .. MaxTurn
               PROVE  LET n == Skippable(cycles - 1)
                      IN  /\ \A i \in TimerId : TimerMaySkip(timer[i], n)
                          /\ \A j \in BtdmpId : BtdmpMaySkip(btdmp[j], n)
    BY DEF MaySkip
  <2> DEFINE n == Skippable(cycles - 1)
  <2>1. cycles - 1 \in Nat
    BY TimingAssumption
  <2>2. n \in Nat /\ \A s \in MaxSkips : n <= s
    BY <2>1, SkippableIs DEF TimingInv
  <2> HIDE DEF n
  <2>3. ASSUME NEW i \in TimerId
        PROVE  TimerMaySkip(timer[i], n)
    <3>1. n <= TimerMaxSkip(timer[i]) /\ timer[i] \in TimerState
      BY <2>2 DEF MaxSkips, TimingInv, PeriphTypes
    <3>2. timer[i].counter \in 0 .. Range32 - 1 /\ Range32 \in Nat
      BY <3>1, Range32Type DEF TimerState
    <3>3. QED
      BY <2>2, <3>1, <3>2 DEF TimerMaxSkip, TimerMaySkip
  <2>4. ASSUME NEW j \in BtdmpId
        PROVE  BtdmpMaySkip(btdmp[j], n)
    <3> DEFINE b == btdmp[j]
    <3>1. n <= BtdmpMaxSkip(b, Infinity) /\ TransmitterOK(b)
      BY <2>2 DEF MaxSkips, TimingInv, PeriphTypes
    <3> HIDE DEF b
    <3>2. SUFFICES ASSUME b.transmit_enable, b.transmit_queue # <<>>
                   PROVE  2 * (Ahead(b, n) \div Period) < Len(b.transmit_queue)
      BY DEF BtdmpMaySkip, b
    <3>3. Period \in Nat /\ Period > 0 /\ b.transmit_timer \in 0 .. Period - 1
      BY <3>1, BtdmpAssumption DEF TransmitterOK, Transmitters
    <3>4. PICK m \in Nat, e \in 0 .. Period - 1 : b.transmit_timer + n = m * Period + e
      <4>1. b.transmit_timer + n \in Nat
        BY <2>2, <3>3
      <4>2. QED
        BY <3>3, <4>1, Division
    <3>5. Ahead(b, n) = m * Period + e
      BY <3>3, <3>4 DEF Ahead
    <3>6. Ahead(b, n) \div Period = m
      BY <3>3, <3>4, <3>5, Quotient
    <3>7. Sending(b, m)
      BY <2>2, <3>1, <3>2, <3>4, MaxSkipSends
    <3>8. QED
      BY <3>2, <3>6, <3>7 DEF Sending
  <2>5. QED
    BY <2>3, <2>4 DEF n
<1>2. QED
  BY <1>1, TimingInductive, PTL

\* Skipping is not observable, if no timer may restart from 0: registers, samples
\* and interrupts, each at its cycle, are those of the processor that ticks through
\* every cycle.
THEOREM TimingImplementsTicking ==
    ASSUME ZeroRestart = FALSE PROVE TimingSpec => ImplementsTicking
<1>1. PeriphInit => T!PeriphInit /\ PeriphRestarts
  BY SameMmio, InitOK
<1>2. TimingInv /\ PeriphRestarts /\ [TimingNext]_periphVars
        => PeriphRestarts' /\ [T!TickingNext]_(T!periphVars)
  <2> SUFFICES ASSUME TimingInv, PeriphRestarts, [TimingNext]_periphVars
               PROVE  PeriphRestarts' /\ [T!TickingNext]_(T!periphVars)
    OBVIOUS
  <2>1. T!periphVars = periphVars
    BY DEF T!periphVars, periphVars
  <2>2. CASE TimingNext
    BY <2>2, StepTicks
  <2>3. CASE UNCHANGED periphVars
    BY <2>1, <2>3 DEF periphVars, T!periphVars, PeriphRestarts
  <2>4. QED
    BY <2>2, <2>3
<1>3. QED
  BY <1>1, <1>2, TimingInductive, PTL DEF TimingSpec, ImplementsTicking, T!TickingSpec
=============================================================================
