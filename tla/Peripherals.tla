----------------------------- MODULE Peripherals -----------------------------
(***************************************************************************)
(* The peripherals that core_timing ticks, the timers and the BTDMPs, with *)
(* the MMIO writes that change them (src/src/mmio.cpp).  How their time    *)
(* passes is left to Ticking and CoreTiming.                               *)
(***************************************************************************)
EXTENDS Timer, Btdmp, FiniteSets

CONSTANTS
    TimerId, BtdmpId,
    StartHalves,    \* bound: what is written to the halves of START_COUNT
    Modes,          \* bound: what is written to CM
    Updates,        \* bound: what is written to MU
    ZeroRestart     \* may a timer be in auto restart mode with START_COUNT 0

ASSUME PeripheralsAssumption ==
    /\ TimerId \cap BtdmpId = {}
    /\ StartHalves \subseteq Half
    /\ Modes \subseteq CountMode
    /\ Updates \subseteq BOOLEAN
    /\ ZeroRestart \in BOOLEAN

VARIABLES
    timer, btdmp,
    elapsed,        \* how many ticks the last step took
    fired,          \* <<peripheral, tick>>: the interrupts of the last step
    audio           \* the samples each BTDMP gave out in the last step

periphVars == <<timer, btdmp, elapsed, fired, audio>>

PeriphInit ==
    /\ timer = [i \in TimerId |-> TimerReset]
    /\ btdmp = [j \in BtdmpId |-> BtdmpReset]
    /\ elapsed = 0
    /\ fired = {}
    /\ audio = [j \in BtdmpId |-> <<>>]

Outputs(interrupts) ==
    /\ elapsed' = 0
    /\ fired' = interrupts
    /\ audio' = [j \in BtdmpId |-> <<>>]

Silent == Outputs({})

Acceptable(t) == ZeroRestart \/ t.count_mode # AutoRestart \/ Start(t) # 0

SetTimer(i, t) ==
    /\ Acceptable(t)
    /\ timer' = [timer EXCEPT ![i] = t]
    /\ UNCHANGED btdmp

SetBtdmp(j, b) ==
    /\ btdmp' = [btdmp EXCEPT ![j] = b]
    /\ UNCHANGED timer
    /\ Silent

-----------------------------------------------------------------------------
(***************************************************************************)
(* TIMERx_CFG: the fields are written in the order of their bits, RES last.*)
(***************************************************************************)
WriteConfig(i) ==
    \E mode \in Modes, update \in Updates, pause, restart \in BOOLEAN :
        LET t == [timer[i] EXCEPT !.count_mode = mode, !.pause = pause,
                                  !.update_mmio = update]
        IN  SetTimer(i, IF restart THEN Restart(t) ELSE t) /\ Silent

\* TIMERx_SCL and TIMERx_SCH
WriteStart(i) ==
    /\ \E half \in StartHalves :
        \/ SetTimer(i, [timer[i] EXCEPT !.start_low = half])
        \/ SetTimer(i, [timer[i] EXCEPT !.start_high = half])
    /\ Silent

\* TIMERx_EW
WriteEvent(i) ==
    /\ SetTimer(i, TimerTickEvent(timer[i]))
    /\ Outputs(IF EventFires(timer[i]) THEN {<<i, 0>>} ELSE {})

WriteBtdmp(j) ==
    \/ \E word \in Sample : SetBtdmp(j, BtdmpSend(btdmp[j], word))
    \/ SetBtdmp(j, SetTransmitFlush(btdmp[j]))
    \/ \E value \in BOOLEAN : SetBtdmp(j, SetTransmitEnable(btdmp[j], value))

Mmio == (\E i \in TimerId : WriteConfig(i) \/ WriteStart(i) \/ WriteEvent(i))
            \/ (\E j \in BtdmpId : WriteBtdmp(j))

-----------------------------------------------------------------------------
(***************************************************************************)
(* One tick of all of them.  A clock is the state of the peripherals with  *)
(* what they did: the ticks, the interrupts, each with its tick, and the   *)
(* samples.                                                                *)
(***************************************************************************)
Clock == [timer |-> timer, btdmp |-> btdmp, elapsed |-> 0, fired |-> {},
          audio |-> [j \in BtdmpId |-> <<>>]]

Firing(k) == {i \in TimerId : TimerFires(k.timer[i])}
                \cup {j \in BtdmpId : BtdmpFires(k.btdmp[j])}

\* CoreTiming::Tick
TickAll(k) ==
    [timer |-> [i \in TimerId |-> TimerTick(k.timer[i])],
     btdmp |-> [j \in BtdmpId |-> BtdmpTick(k.btdmp[j])],
     elapsed |-> k.elapsed + 1,
     fired |-> k.fired \cup {<<p, k.elapsed + 1>> : p \in Firing(k)},
     audio |-> [j \in BtdmpId |-> k.audio[j] \o BtdmpAudio(k.btdmp[j])]]

Becomes(k) ==
    /\ elapsed' = k.elapsed
    /\ timer' = k.timer /\ btdmp' = k.btdmp
    /\ fired' = k.fired /\ audio' = k.audio
=============================================================================
