------------------------------ MODULE HostLink ------------------------------
(***************************************************************************)
(* The host and the DSP joined by the APBP, as src/src/teakra.cpp wires    *)
(* them: SendData and SetSemaphore on the host thread end in               *)
(* icu.TriggerSingle(0xE), which the run loop of the DSP thread turns into *)
(* a dispatch of the firmware's handler.  Three locks take part: the       *)
(* channel's, the semaphore's (held while its handler runs) and the ICU's. *)
(*                                                                         *)
(* The firmware is the program the documents ask for: connect the IRQ,     *)
(* open the interrupt, raise the IRQ once for what came too early; in the  *)
(* handler check and acknowledge the IRQ, take what the status register    *)
(* shows, return.  In between it may close a channel's interrupt for a     *)
(* while and poll that channel afterwards.  Every instruction is one turn  *)
(* of Core's run loop.  Between two calls of Run the host may reset it all. *)
(***************************************************************************)
EXTENDS Core, Apbp

CONSTANTS
    ApbpIrq,        \* 0xE
    Channels,       \* how many data channels: 3 in the code
    Polled          \* the channel whose interrupt the firmware closes at times

ASSUME LinkAssumption ==
    /\ Channels \in Nat
    /\ Channel = 0 .. Channels - 1
    /\ Polled \in Channel
    /\ ApbpIrq \in Irq
    /\ 0 \in Line

VARIABLES
    called,         \* SetSemaphore's handler has entered Trigger
    prog,           \* the firmware's next instruction
    back,           \* where its handler returns to
    cursor,         \* the channel the handler looks at next
    seen            \* the semaphore bits the handler has read

progVars == <<prog, back, cursor, seen>>
linkVars == <<vars, apbpVars, called, progVars>>

Main    == {"boot", "connect", "open", "kick", "main", "reopen", "poll"}
Handler == {"check", "ack", "drain", "status", "read", "clear", "return"}

LinkTypeOK ==
    /\ TypeOK
    /\ ApbpTypeOK
    /\ called \in BOOLEAN
    /\ prog \in Main \cup Handler
    /\ back \in Main
    /\ cursor \in Channel
    /\ seen \subseteq Bit

LinkInit ==
    /\ Init
    /\ ApbpInit
    /\ called = FALSE
    /\ prog = "boot"
    /\ back = "boot"
    /\ cursor = 0
    /\ seen = {}

-----------------------------------------------------------------------------
(***************************************************************************)
(* Host thread: one call of the API at a time.                             *)
(***************************************************************************)
HostIdle == mutex # Cpu

HostSendData(c) ==
    /\ HostIdle
    /\ \E word \in Word : Send(c, word)
    /\ UNCHANGED <<vars, called, progVars>>

HostSetSemaphore(bits) ==
    /\ HostIdle
    /\ SetSemaphore(bits)
    /\ UNCHANGED <<vars, called, progVars>>

DataHandlerFirstOnly ==
    /\ \E c \in Channel :
        /\ CallHandler(c)
        /\ IF c = 0 THEN HostTrigger({ApbpIrq}) ELSE UNCHANGED vars
    /\ UNCHANGED <<called, progVars>>

\* The handler that teakra.cpp installs on every channel ...
DataHandler ==
    /\ \E c \in Channel : CallHandler(c)
    /\ HostTrigger({ApbpIrq})
    /\ UNCHANGED <<called, progVars>>

\* ... and on the semaphore, where it runs under the semaphore's mutex.
SemaphoreHandler ==
    /\ setting = "handler"
    /\ ~called
    /\ called' = TRUE
    /\ HostTrigger({ApbpIrq})
    /\ UNCHANGED <<apbpVars, progVars>>

SemaphoreHandlerReturns ==
    /\ called
    /\ HostIdle
    /\ HandlerReturns
    /\ called' = FALSE
    /\ UNCHANGED <<vars, progVars>>

HostUpdateSignal ==
    /\ UpdateSignal
    /\ UNCHANGED <<vars, called, progVars>>

HostFinishes == SemaphoreHandlerReturns \/ HostUpdateSignal

\* Processor::Reset makes new registers.  What the ICU has called and the loop has
\* not latched yet stays pending; what it has latched is gone with ip.
ProcessorReset ==
    /\ ie' = FALSE
    /\ im' = {} /\ ip' = {} /\ ic' = {}
    /\ rep' = FALSE
    /\ shadow_im' = {}
    /\ frames' = <<>>
    /\ owed' = owed \cap pending
    /\ UNCHANGED <<signalVars, at, scan, due, intended, loose,
                   overlapped>>

\* Teakra::Reset, then the firmware from its start.  The ICU has no Reset: its
\* requests and connections stay as the old firmware left them.
HostReset ==
    /\ at = "latch" /\ scan = 0                \* Run has returned
    /\ mutex = Nobody
    /\ Reset
    /\ ProcessorReset
    /\ prog' = "boot"
    /\ back' = "boot"
    /\ cursor' = 0
    /\ seen' = {}
    /\ UNCHANGED <<icuVars, called>>

-----------------------------------------------------------------------------
(***************************************************************************)
(* Firmware, one instruction at a time.                                    *)
(***************************************************************************)
Goto(from, to) ==
    /\ at = "execute"
    /\ at' = "dispatch"
    /\ prog = from
    /\ prog' = to
    /\ UNCHANGED <<scan, ip, rep, due, called>>

OtherRegisters == UNCHANGED <<signalVars, ie, im, ic, shadow_im, frames, historyVars>>

\* A reset does not open the channels' interrupts, so the firmware does.
Boot ==
    /\ Goto("boot", "connect")
    /\ SetDisableInterrupt(Polled, FALSE)
    /\ UNCHANGED icuVars /\ OtherRegisters
    /\ UNCHANGED <<back, cursor, seen>>

Connect ==
    /\ Goto("connect", "open")
    /\ SetEnable(0, {ApbpIrq})
    /\ OtherRegisters
    /\ UNCHANGED <<apbpVars, back, cursor, seen>>

Open ==
    /\ Goto("open", "kick")
    /\ ie' = TRUE
    /\ im' = {0}
    /\ UNCHANGED <<icuVars, signalVars, ic, shadow_im, frames, historyVars>>
    /\ UNCHANGED <<apbpVars, back, cursor, seen>>

Kick ==
    /\ Goto("kick", "main")
    /\ Trigger(Dsp, {ApbpIrq})
    /\ UNCHANGED <<ie, im, ic, shadow_im, frames>>
    /\ UNCHANGED <<apbpVars, back, cursor, seen>>

Work ==
    /\ Goto("main", "main")
    /\ UNCHANGED icuVars /\ OtherRegisters
    /\ UNCHANGED <<apbpVars, back, cursor, seen>>

Close ==
    /\ Goto("main", "reopen")
    /\ SetDisableInterrupt(Polled, TRUE)
    /\ UNCHANGED icuVars /\ OtherRegisters
    /\ UNCHANGED <<back, cursor, seen>>

Reopen ==
    /\ Goto("reopen", "poll")
    /\ SetDisableInterrupt(Polled, FALSE)
    /\ UNCHANGED icuVars /\ OtherRegisters
    /\ UNCHANGED <<back, cursor, seen>>

Take(c) == IF IsReady(c) THEN Recv(c) ELSE UNCHANGED apbpVars

Poll ==
    /\ Goto("poll", "main")
    /\ Take(Polled)
    /\ UNCHANGED icuVars /\ OtherRegisters
    /\ UNCHANGED <<back, cursor, seen>>

-----------------------------------------------------------------------------
(***************************************************************************)
(* The interrupt handler.                                                  *)
(***************************************************************************)
Check ==
    /\ mutex = Nobody                           \* GetRequest locks
    /\ Goto("check", IF ApbpIrq \in request THEN "ack" ELSE "return")
    /\ UNCHANGED icuVars /\ OtherRegisters
    /\ UNCHANGED <<apbpVars, back, cursor, seen>>

Ack ==
    /\ Goto("ack", "drain")
    /\ Acknowledge({ApbpIrq})
    /\ OtherRegisters
    /\ UNCHANGED <<apbpVars, back, cursor, seen>>

Drain ==
    /\ Goto("drain", IF cursor + 1 < Channels THEN "drain" ELSE "status")
    /\ Take(cursor)
    /\ cursor' = (cursor + 1) % Channels
    /\ UNCHANGED icuVars /\ OtherRegisters
    /\ UNCHANGED <<back, seen>>

Status ==
    /\ SemaphoreFree                            \* IsSemaphoreSignaled locks
    /\ Goto("status", IF semaphore_master_signal THEN "read" ELSE "return")
    /\ UNCHANGED icuVars /\ OtherRegisters
    /\ UNCHANGED <<apbpVars, back, cursor, seen>>

Read ==
    /\ SemaphoreFree                            \* GetSemaphore locks
    /\ Goto("read", "clear")
    /\ seen' = semaphore
    /\ UNCHANGED icuVars /\ OtherRegisters
    /\ UNCHANGED <<apbpVars, back, cursor>>

Clear ==
    /\ SemaphoreFree                            \* ClearSemaphore locks
    /\ Goto("clear", "return")
    /\ ClearSemaphore(seen)
    /\ seen' = {}
    /\ UNCHANGED icuVars /\ OtherRegisters
    /\ UNCHANGED <<back, cursor>>

HandlerReturn ==
    /\ Goto("return", back)
    /\ Return
    /\ UNCHANGED <<apbpVars, back, cursor, seen>>

Firmware ==
    \/ Boot \/ Connect \/ Open \/ Kick \/ Work \/ Close \/ Reopen \/ Poll
    \/ Check \/ Ack \/ Drain \/ Status \/ Read \/ Clear \/ HandlerReturn

-----------------------------------------------------------------------------
\* Core's loop around the firmware.
Loop ==
    /\ Latch \/ NoDispatch \/ PeripheralFires \/ EndTick
    /\ UNCHANGED <<apbpVars, called, progVars>>

TakeInterrupt ==
    /\ Dispatch(0)
    /\ back' = prog
    /\ prog' = "check"
    /\ UNCHANGED <<apbpVars, called, cursor, seen>>

InsideTrigger ==
    /\ IcuStep
    /\ UNCHANGED <<apbpVars, called, progVars>>

DspStep == Firmware \/ Loop \/ TakeInterrupt

LinkNext ==
    \/ \E c \in Channel : HostSendData(c)
    \/ \E bits \in SUBSET Bit : HostSetSemaphore(bits)
    \/ DataHandler \/ SemaphoreHandler \/ HostFinishes
    \/ HostReset
    \/ InsideTrigger
    \/ DspStep

(***************************************************************************)
(* The host keeps calling Run; a call of the API that has begun goes on,   *)
(* and whoever waits for the ICU's mutex gets it once it is free again and *)
(* again.  No host call has to begin.                                      *)
(***************************************************************************)
LinkFairness ==
    /\ WF_linkVars(InsideTrigger) /\ WF_linkVars(HostFinishes)
    /\ SF_linkVars(DataHandler) /\ SF_linkVars(SemaphoreHandler)
    /\ SF_linkVars(DspStep)

LinkSpec == LinkInit /\ [][LinkNext]_linkVars /\ LinkFairness

-----------------------------------------------------------------------------
\* The main program's next instruction, in a handler or not.
MainNext == IF prog \in Handler THEN back ELSE prog

\* A handler is still to run from its start: it is owed to the DSP, or it is at
\* the check and the IRQ is there to be found, or the firmware raises the IRQ yet.
HandlerToCome ==
    \/ 0 \in owed
    \/ prog = "check" /\ ApbpIrq \in request
    \/ prog = "ack"
    \/ MainNext \in {"boot", "connect", "open", "kick"}

\* No word is stranded: as long as a channel is ready, its handler is still to be
\* called, or the DSP's handler will look at the channel, or the firmware has
\* closed the channel's interrupt and is going to poll it.  Send, Trigger, the
\* run loop, the acknowledgement and the drain interleave in any order.
NoStrandedWord ==
    \A c \in Channel : ready[c] =>
        \/ c \in notify
        \/ HandlerToCome
        \/ prog = "drain" /\ cursor <= c
        \/ c = Polled /\ MainNext \in {"reopen", "poll"}

\* No semaphore bit is stranded: a bit that is set has an interrupt to come, or
\* the handler is about to read it.  The status register shows the bit by then,
\* although the interrupt is fired before the master signal is updated.
NoStrandedBit ==
    semaphore # {} =>
        \/ setting = "handler" /\ ~called
        \/ HandlerToCome
        \/ prog = "drain"
        \/ prog = "status" /\ (semaphore_master_signal \/ setting # "idle")
        \/ prog = "read"
        \/ prog = "clear" /\ semaphore \subseteq seen

\* A word that is ready is taken, and a semaphore bit that is set is cleared, if
\* only the host keeps calling Run: neither a lost interrupt nor threads waiting
\* for each other's locks leaves one behind.
WordsTaken == \A c \in Channel : ready[c] ~> ~ready[c]
BitsCleared == \A b \in Bit : b \in semaphore ~> b \notin semaphore

\* Every API call of the host returns.
HostReturns == ~SenderIdle ~> SenderIdle
=============================================================================
