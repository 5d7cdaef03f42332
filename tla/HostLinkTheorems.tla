-------------------------- MODULE HostLinkTheorems --------------------------
(***************************************************************************)
(* Theorems about HostLink, for any number of channels, words, semaphore   *)
(* bits and lines: no word and no semaphore bit the host sends is left     *)
(* without an interrupt to come or a look of the firmware at it.           *)
(***************************************************************************)
EXTENDS HostLink, CoreTheorems

Starting == {"boot", "connect", "open"}

\* Handlers do not nest, and none runs before the firmware has opened interrupts.
HandlersOK ==
    /\ at # "switch"
    /\ prog \in Starting => ~ie
    /\ prog \in Main => frames = <<>>
    /\ prog \in Handler => ~ie /\ Len(frames) = 1 /\ back \notin Starting

\* Once the firmware is past connecting the APBP's IRQ, it stays connected.
IrqConnected == MainNext \notin {"boot", "connect"} => ApbpIrq \in enabled[0]

\* A channel's interrupt is closed only while the firmware is to reopen it, or
\* found closed by a firmware that a reset has started over.
ClosedOK ==
    \A c \in Channel :
        disable_interrupt[c] => c = Polled /\ MainNext \in {"boot", "reopen"}

CursorOK == prog # "drain" => cursor = 0

\* The firmware masks no bit, so the master signal shows any bit that is set; while
\* SetSemaphore is under way, its local variable does.
SignalOK ==
    /\ semaphore_mask = {}
    /\ semaphore # {} =>
        IF setting = "idle" THEN semaphore_master_signal ELSE new_signal
    /\ called => setting = "handler"

\* HandlerToCome counts any dispatch that is owed, but a dispatch that finds its
\* request acknowledged by the handler before it returns at once.  What keeps a
\* word from being stranded is a dispatch that will find the request.
HandlerWillLook ==
    \/ 0 \in owed /\ ApbpIrq \in request
    \/ prog = "check" /\ ApbpIrq \in request
    \/ prog = "ack"
    \/ MainNext \in {"boot", "connect", "open", "kick"}

WordsOK ==
    \A c \in Channel : ready[c] =>
        \/ c \in notify
        \/ HandlerWillLook
        \/ prog = "drain" /\ cursor <= c
        \/ c = Polled /\ MainNext \in {"reopen", "poll"}

BitsOK ==
    semaphore # {} =>
        \/ setting = "handler" /\ ~called
        \/ HandlerWillLook
        \/ prog = "drain"
        \/ prog = "status"
        \/ prog = "read"
        \/ prog = "clear" /\ semaphore \subseteq seen

LinkInv ==
    /\ LinkTypeOK /\ IInv
    /\ HandlersOK /\ IrqConnected /\ ClosedOK /\ CursorOK /\ SignalOK
    /\ WordsOK /\ BitsOK

USE DEF Line, Vectored, Target

-----------------------------------------------------------------------------
\* What the steps of Core that HostLink takes leave alone or only add to.
LEMMA IcuStepEffect ==
    ASSUME IcuStep
    PROVE  UNCHANGED <<request, enabled, owed, loopVars>>
  BY DEF IcuStep, SignalInterrupt, ReadArgument, StoreAddress, StorePending, StoreSwitch,
     TriggerReturns, TriggerLeave, CallReturns, icuVars, historyVars

LEMMA TriggerEffect ==
    ASSUME NEW thread \in Thread, NEW bits, Trigger(thread, bits)
    PROVE  /\ request \subseteq request' /\ owed \subseteq owed'
           /\ enabled' = enabled
  BY DEF Trigger, TriggerEnter

\* Raising the connected IRQ owes the firmware a handler that finds the request.
LEMMA TriggerApbp ==
    ASSUME NEW thread \in Thread, Trigger(thread, {ApbpIrq}), ApbpIrq \in enabled[0]
    PROVE  0 \in owed' /\ ApbpIrq \in request'
<1>1. 0 \in Target /\ 0 # Vectored
  BY LinkAssumption, IcuAssumption
<1>2. <<ApbpIrq, 0>> \in Calls({ApbpIrq})
  BY <1>1 DEF Calls, Connected
<1>3. \E c \in Calls({ApbpIrq}) : 0 = c[2]
  BY <1>2
<1> QED
  BY <1>3 DEF Trigger, TriggerEnter

\* A step that leaves the APBP and the firmware alone, and at most adds requests
\* and what is owed, keeps what HostLink adds to the invariant of Core.
LEMMA AsideKeeps ==
    ASSUME LinkInv, UNCHANGED <<apbpVars, called, progVars>>,
           request \subseteq request', owed \subseteq owed', enabled' = enabled
    PROVE  /\ IrqConnected' /\ ClosedOK' /\ CursorOK' /\ SignalOK'
           /\ WordsOK' /\ BitsOK'
<1> USE DEF LinkInv, apbpVars, channelVars, semaphoreVars, progVars
<1>1. MainNext' = MainNext
  BY DEF MainNext
<1>2. HandlerWillLook => HandlerWillLook'
  BY <1>1 DEF HandlerWillLook
<1>3. IrqConnected' /\ ClosedOK' /\ CursorOK' /\ SignalOK'
  BY <1>1 DEF IrqConnected, ClosedOK, CursorOK, SignalOK
<1>4. WordsOK'
  BY <1>1, <1>2 DEF WordsOK
<1>5. BitsOK'
  BY <1>2 DEF BitsOK
<1> QED
  BY <1>3, <1>4, <1>5

\* The types of HostLink's own variables.
LEMMA OwnTypes ==
    ASSUME IInv', ApbpTypeOK', called' \in BOOLEAN, prog' \in Main \cup Handler,
           back' \in Main, cursor' \in Channel, seen' \subseteq Bit
    PROVE  LinkTypeOK'
  BY DEF LinkTypeOK, IInv

-----------------------------------------------------------------------------
LEMMA LinkInitInv == LinkInit => LinkInv
<1> SUFFICES ASSUME LinkInit PROVE LinkInv
  OBVIOUS
<1> USE DEF LinkInit
<1>1. IInv
  BY InitIInv
<1>2. 0 \in Channel
  BY LinkAssumption
<1>3. ApbpTypeOK
  BY ApbpAssumption DEF ApbpInit, ApbpTypeOK
<1>4. LinkTypeOK
  BY <1>1, <1>2, <1>3 DEF IInv, LinkTypeOK, Main, Handler
<1>5. HandlersOK
  BY DEF Init, HandlersOK, Main, Handler
<1>6. IrqConnected /\ ClosedOK /\ CursorOK /\ SignalOK /\ WordsOK /\ BitsOK
  BY DEF ApbpInit, IrqConnected, ClosedOK, CursorOK, SignalOK, WordsOK, BitsOK,
     MainNext, Handler
<1> QED
  BY <1>1, <1>4, <1>5, <1>6 DEF LinkInv

-----------------------------------------------------------------------------
(***************************************************************************)
(* The host's steps.                                                       *)
(***************************************************************************)
LEMMA HostSendDataInv ==
    ASSUME LinkInv, NEW c \in Channel, HostSendData(c)
    PROVE  LinkInv'
<1>1. PICK word \in Word : Send(c, word)
  BY DEF HostSendData
<1> USE <1>1 DEF HostSendData, Send
<1>2. UNCHANGED <<vars, called, progVars, disable_interrupt, semaphoreVars>>
  OBVIOUS
<1>3. IInv'
  BY <1>2, NextIInv DEF LinkInv
<1>4. ApbpTypeOK'
  BY <1>2 DEF LinkInv, LinkTypeOK, ApbpTypeOK, semaphoreVars
<1>5. LinkTypeOK' /\ HandlersOK'
  BY <1>2, <1>3, <1>4 DEF LinkInv, LinkTypeOK, HandlersOK, progVars, vars, loopVars, IInv
<1>6. MainNext' = MainNext /\ HandlerWillLook' = HandlerWillLook
  BY <1>2 DEF MainNext, HandlerWillLook, progVars, vars, icuVars, historyVars
<1>7. IrqConnected' /\ ClosedOK' /\ CursorOK' /\ SignalOK'
  BY <1>2, <1>6 DEF LinkInv, IrqConnected, ClosedOK, CursorOK, SignalOK, progVars,
     semaphoreVars, vars, icuVars
<1>8. WordsOK'
  <2> SUFFICES ASSUME NEW d \in Channel, ready'[d], ~HandlerWillLook,
                      ~(prog = "drain" /\ cursor <= d),
                      ~(d = Polled /\ MainNext \in {"reopen", "poll"})
               PROVE  d \in notify'
    BY <1>2, <1>6 DEF WordsOK, progVars
  <2>1. CASE d = c
    <3>1. ~disable_interrupt[c]
      BY <2>1 DEF LinkInv, ClosedOK, HandlerWillLook
    <3> QED
      BY <2>1, <3>1
  <2>2. CASE d # c
    <3>1. ready[d]
      BY <2>2 DEF LinkInv, LinkTypeOK, ApbpTypeOK
    <3>2. d \in notify
      BY <3>1 DEF LinkInv, WordsOK
    <3> QED
      BY <3>2 DEF SenderIdle
  <2> QED
    BY <2>1, <2>2
<1>9. BitsOK'
  BY <1>2, <1>6 DEF LinkInv, BitsOK, progVars, semaphoreVars
<1> QED
  BY <1>3, <1>5, <1>7, <1>8, <1>9 DEF LinkInv

\* A step of the APBP alone that keeps the channels and the processor.
LEMMA SemaphoreStepInv ==
    ASSUME LinkInv, UNCHANGED <<vars, progVars, channelVars>>,
           ApbpTypeOK', called' \in BOOLEAN, SignalOK', BitsOK'
    PROVE  LinkInv'
<1>1. IInv'
  BY NextIInv DEF LinkInv
<1>2. LinkTypeOK' /\ HandlersOK'
  BY <1>1 DEF LinkInv, LinkTypeOK, HandlersOK, progVars, vars, loopVars, IInv
<1>3. MainNext' = MainNext /\ HandlerWillLook' = HandlerWillLook
  BY DEF MainNext, HandlerWillLook, progVars, vars, icuVars, historyVars
<1>4. IrqConnected' /\ ClosedOK' /\ CursorOK' /\ WordsOK'
  BY <1>3 DEF LinkInv, IrqConnected, ClosedOK, CursorOK, WordsOK, progVars,
     channelVars, vars, icuVars
<1> QED
  BY <1>1, <1>2, <1>4 DEF LinkInv

LEMMA HostSetSemaphoreInv ==
    ASSUME LinkInv, NEW bits \in SUBSET Bit, HostSetSemaphore(bits)
    PROVE  LinkInv'
<1> USE DEF LinkInv, HostSetSemaphore, SetSemaphore, SenderIdle
<1>1. ApbpTypeOK' /\ called' \in BOOLEAN
  BY DEF LinkTypeOK, ApbpTypeOK, channelVars, Signal
<1>2. new_signal' = (semaphore' # {}) /\ ~called
  BY DEF SignalOK, Signal
<1>3. SignalOK' /\ BitsOK'
  BY <1>2 DEF SignalOK, BitsOK
<1> QED
  BY <1>1, <1>3, SemaphoreStepInv

LEMMA HostUpdateSignalInv ==
    ASSUME LinkInv, HostUpdateSignal
    PROVE  LinkInv'
<1> USE DEF LinkInv, HostUpdateSignal, UpdateSignal
<1>1. ApbpTypeOK' /\ called' \in BOOLEAN
  BY DEF LinkTypeOK, ApbpTypeOK, channelVars
<1>2. MainNext' = MainNext /\ HandlerWillLook' = HandlerWillLook
  BY DEF MainNext, HandlerWillLook, progVars, vars, icuVars, historyVars
<1>3. SignalOK' /\ BitsOK'
  BY <1>2 DEF SignalOK, BitsOK, progVars
<1> QED
  BY <1>1, <1>3, SemaphoreStepInv

LEMMA SemaphoreHandlerReturnsInv ==
    ASSUME LinkInv, SemaphoreHandlerReturns
    PROVE  LinkInv'
<1> USE DEF LinkInv, SemaphoreHandlerReturns, HandlerReturns
<1>1. ApbpTypeOK' /\ called' \in BOOLEAN
  BY DEF LinkTypeOK, ApbpTypeOK, channelVars
<1>2. MainNext' = MainNext /\ HandlerWillLook' = HandlerWillLook
  BY DEF MainNext, HandlerWillLook, progVars, vars, icuVars, historyVars
<1>3. SignalOK' /\ BitsOK'
  BY <1>2 DEF SignalOK, BitsOK, progVars
<1> QED
  BY <1>1, <1>3, SemaphoreStepInv

\* A handler raises the IRQ: either the firmware has connected it and will look, or
\* it is yet to raise the IRQ itself.
LEMMA HandlerTriggers ==
    ASSUME LinkInv, HostTrigger({ApbpIrq}), UNCHANGED progVars
    PROVE  /\ IInv' /\ HandlersOK' /\ IrqConnected' /\ HandlerWillLook'
           /\ MainNext' = MainNext
<1>1. {ApbpIrq} \in SUBSET Irq
  BY LinkAssumption
<1>2. IInv'
  BY <1>1, HostTriggerIInv DEF LinkInv
<1>3. Trigger(Cpu, {ApbpIrq}) /\ Cpu \in Thread /\ UNCHANGED loopVars
  BY CoreAssumption DEF HostTrigger
<1>4. HandlersOK'
  BY <1>3 DEF LinkInv, HandlersOK, progVars, loopVars
<1>5. MainNext' = MainNext
  BY DEF MainNext, progVars
<1>6. IrqConnected'
  BY <1>3, <1>5, TriggerEffect DEF LinkInv, IrqConnected
<1>7. HandlerWillLook'
  BY <1>3, <1>5, TriggerApbp DEF LinkInv, IrqConnected, HandlerWillLook
<1> QED
  BY <1>2, <1>4, <1>5, <1>6, <1>7

LEMMA DataHandlerInv ==
    ASSUME LinkInv, DataHandler
    PROVE  LinkInv'
<1>1. PICK c \in Channel : CallHandler(c)
  BY DEF DataHandler
<1> USE <1>1 DEF DataHandler, CallHandler
<1>2. UNCHANGED <<called, progVars, ready, disable_interrupt, data, semaphoreVars>>
  OBVIOUS
<1>3. /\ IInv' /\ HandlersOK' /\ IrqConnected' /\ HandlerWillLook'
      /\ MainNext' = MainNext
  BY <1>2, HandlerTriggers
<1>4. ApbpTypeOK'
  BY <1>2 DEF LinkInv, LinkTypeOK, ApbpTypeOK, semaphoreVars
<1>5. LinkTypeOK'
  BY <1>2, <1>3, <1>4, OwnTypes DEF LinkInv, LinkTypeOK, progVars
<1>6. ClosedOK' /\ CursorOK' /\ SignalOK'
  BY <1>2, <1>3 DEF LinkInv, ClosedOK, CursorOK, SignalOK, progVars, semaphoreVars
<1>7. WordsOK' /\ BitsOK'
  BY <1>3 DEF WordsOK, BitsOK
<1> QED
  BY <1>3, <1>5, <1>6, <1>7 DEF LinkInv

LEMMA SemaphoreHandlerInv ==
    ASSUME LinkInv, SemaphoreHandler
    PROVE  LinkInv'
<1> USE DEF SemaphoreHandler
<1>1. /\ IInv' /\ HandlersOK' /\ IrqConnected' /\ HandlerWillLook'
      /\ MainNext' = MainNext
  BY HandlerTriggers
<1>2. UNCHANGED <<apbpVars, progVars>> /\ called' = TRUE /\ setting = "handler"
  OBVIOUS
<1>3. LinkTypeOK'
  BY <1>1, <1>2, OwnTypes DEF LinkInv, LinkTypeOK, ApbpTypeOK, apbpVars, channelVars,
     semaphoreVars, progVars
<1>4. ClosedOK' /\ CursorOK' /\ SignalOK'
  BY <1>1, <1>2 DEF LinkInv, ClosedOK, CursorOK, SignalOK, apbpVars, channelVars,
     semaphoreVars, progVars
<1>5. WordsOK' /\ BitsOK'
  BY <1>1 DEF WordsOK, BitsOK
<1> QED
  BY <1>1, <1>3, <1>4, <1>5 DEF LinkInv

\* A reset leaves nothing behind but what the ICU has called, and starts the
\* firmware over.
LEMMA HostResetInv ==
    ASSUME LinkInv, HostReset
    PROVE  LinkInv'
<1> USE DEF HostReset, ProcessorReset, Reset, SenderIdle
<1>1. left = {} /\ stage = "none" /\ mutex = Nobody
  BY DEF LinkInv, IInv, PipelineOK, CallsOK
<1>2. UNCHANGED <<icuVars, signalVars, at, scan, due, intended, loose, overlapped, called>>
  OBVIOUS
<1>3. TypeOK'
  <2>1. frames' \in Seq(BOOLEAN) /\ Len(frames') <= MaxDepth
    BY CoreAssumption
  <2> QED
    BY <1>2, <2>1 DEF LinkInv, IInv, TypeOK, IcuTypeOK, icuVars, vectorVars, signalVars
<1>4. IInv'
  <2>0. LoopOK'
    BY <1>1, <1>2, IcuAssumption, CoreAssumption DEF LoopOK, icuVars
  <2>1. CallsOK' /\ StageOK' /\ ConnectedOK' /\ VectorsWhole'
    BY <1>1, <1>2 DEF LinkInv, IInv, PipelineOK, CallsOK, StageOK, ConnectedOK,
       VectorsWhole, icuVars, signalVars
  <2>2. NoLostInterrupt'
    BY <1>2 DEF NoLostInterrupt, Pipeline, signalVars
  <2> QED
    BY <1>3, <2>0, <2>1, <2>2 DEF IInv, PipelineOK
<1>5. ApbpTypeOK'
  BY ApbpAssumption DEF LinkInv, LinkTypeOK, ApbpTypeOK
<1>6. LinkTypeOK' /\ HandlersOK'
  BY <1>2, <1>4, <1>5, LinkAssumption DEF LinkInv, LinkTypeOK, HandlersOK, Main,
     Handler, Starting, IInv
<1>7. MainNext' = "boot"
  BY DEF MainNext, Handler
<1>8. IrqConnected' /\ ClosedOK' /\ CursorOK' /\ SignalOK'
  BY <1>2, <1>7 DEF LinkInv, IrqConnected, ClosedOK, CursorOK, SignalOK
<1>9. WordsOK' /\ BitsOK'
  BY DEF WordsOK, BitsOK
<1> QED
  BY <1>4, <1>6, <1>8, <1>9 DEF LinkInv

-----------------------------------------------------------------------------
(***************************************************************************)
(* The firmware's instructions.                                            *)
(***************************************************************************)
\* An instruction that does nothing to the ICU and the registers of Core.
LEMMA PlainInstruction ==
    ASSUME LinkInv, NEW from, NEW to, Goto(from, to), UNCHANGED icuVars,
           OtherRegisters
    PROVE  /\ IInv' /\ at' = "dispatch" /\ prog = from /\ prog' = to
           /\ UNCHANGED <<request, enabled, owed, ie, frames, called>>
<1> USE DEF Goto, OtherRegisters
<1>1. Plain
  BY DEF Plain
<1>2. RepCount
  BY DEF RepCount, LinkInv, IInv, TypeOK
<1>3. Execute
  BY <1>1, <1>2 DEF Execute, Instruction
<1> QED
  BY <1>3, ExecuteIInv DEF LinkInv, icuVars, historyVars

\* It moves on within the main program, or within the handler.
LEMMA MovesOn ==
    ASSUME LinkInv, prog' \in Main \cup Handler, prog' \in Main <=> prog \in Main,
           prog' \in Starting => prog \in Starting,
           at' = "dispatch", UNCHANGED <<ie, frames, back>>
    PROVE  HandlersOK'
  BY DEF LinkInv, LinkTypeOK, HandlersOK, Main, Handler, Starting

\* The main program's instructions that concern one channel's interrupt.
LEMMA MainInv ==
    ASSUME LinkInv, Boot \/ Work \/ Close \/ Reopen \/ Poll
    PROVE  LinkInv'
<1> USE DEF Boot, Work, Close, Reopen, Poll
<1>1. PICK from, to \in Main : Goto(from, to)
  BY DEF Main
<1>2. UNCHANGED icuVars /\ OtherRegisters
  OBVIOUS
<1>3. /\ IInv' /\ at' = "dispatch" /\ prog = from /\ prog' = to
      /\ UNCHANGED <<request, enabled, owed, ie, frames, called>>
  BY <1>1, <1>2, PlainInstruction
<1>4. UNCHANGED <<back, cursor, seen>>
  OBVIOUS
<1>5. /\ prog \in {"boot", "main", "reopen", "poll"}
      /\ prog' = CASE prog = "boot" -> "connect"
                   [] prog = "main" -> IF Close THEN "reopen" ELSE "main"
                   [] prog = "reopen" -> "poll"
                   [] prog = "poll" -> "main"
  BY DEF Goto
<1>6. UNCHANGED <<semaphoreVars, notify>>
  BY DEF SetDisableInterrupt, Take, IsReady, Recv, apbpVars, channelVars
<1>7. ApbpTypeOK'
  BY <1>6 DEF LinkInv, LinkTypeOK, ApbpTypeOK, SetDisableInterrupt, Take, IsReady, Recv,
     apbpVars, channelVars, semaphoreVars
<1>8. LinkTypeOK'
  BY <1>3, <1>4, <1>7, OwnTypes DEF LinkInv, LinkTypeOK
<1>9. HandlersOK'
  BY <1>3, <1>4, <1>5, MovesOn DEF Main, Handler, Starting
<1>10. MainNext = prog /\ MainNext' = prog'
  BY <1>5 DEF MainNext, Handler
<1>11. IrqConnected' /\ CursorOK' /\ SignalOK'
  BY <1>3, <1>4, <1>5, <1>6, <1>10 DEF LinkInv, IrqConnected, CursorOK, SignalOK,
     semaphoreVars
<1>12. ClosedOK'
  <2>1. CASE Boot \/ Reopen
    <3>1. disable_interrupt' = [disable_interrupt EXCEPT ![Polled] = FALSE]
      BY <2>1 DEF SetDisableInterrupt
    <3> QED
      BY <3>1 DEF LinkInv, LinkTypeOK, ApbpTypeOK, ClosedOK
  <2>2. CASE Close
    <3>1. disable_interrupt' = [disable_interrupt EXCEPT ![Polled] = TRUE]
      BY <2>2 DEF SetDisableInterrupt
    <3>2. MainNext' = "reopen"
      BY <2>2, <1>10 DEF Goto
    <3> QED
      BY <3>1, <3>2 DEF LinkInv, LinkTypeOK, ApbpTypeOK, ClosedOK
  <2>3. CASE Work \/ Poll
    <3>1. UNCHANGED disable_interrupt
      BY <2>3 DEF Take, IsReady, Recv, apbpVars, channelVars
    <3>2. prog \in {"main", "poll"}
      BY <2>3 DEF Goto
    <3> QED
      BY <3>1, <3>2, <1>10 DEF LinkInv, ClosedOK
  <2> QED
    BY <2>1, <2>2, <2>3
<1>13. HandlerWillLook => HandlerWillLook'
  BY <1>3, <1>5, <1>10 DEF HandlerWillLook
<1>14. WordsOK'
  <2> SUFFICES ASSUME NEW c \in Channel, ready'[c], ~HandlerWillLook'
               PROVE  \/ c \in notify'
                      \/ c = Polled /\ MainNext' \in {"reopen", "poll"}
    BY DEF WordsOK
  <2>1. ready[c] /\ ~(prog = "poll" /\ c = Polled)
    BY <1>5 DEF LinkInv, LinkTypeOK, ApbpTypeOK, SetDisableInterrupt, Take, IsReady,
       Recv, apbpVars, channelVars, Goto
  <2>2. c \in notify \/ (c = Polled /\ MainNext \in {"reopen", "poll"})
    BY <2>1, <1>5, <1>13 DEF LinkInv, WordsOK
  <2> QED
    BY <2>1, <2>2, <1>5, <1>6, <1>10
<1>15. BitsOK'
  BY <1>3, <1>4, <1>5, <1>6, <1>13 DEF LinkInv, BitsOK, semaphoreVars
<1> QED
  BY <1>3, <1>8, <1>9, <1>11, <1>12, <1>14, <1>15 DEF LinkInv

LEMMA ConnectInv ==
    ASSUME LinkInv, Connect
    PROVE  LinkInv'
<1> USE DEF Connect, Goto, OtherRegisters, SetEnable
<1>1. RepCount
  BY DEF RepCount, LinkInv, IInv, TypeOK
<1>2. WriteIcu
  BY LinkAssumption DEF WriteIcu, historyVars
<1>3. IInv'
  BY <1>1, <1>2, ExecuteIInv DEF Execute, Instruction, LinkInv
<1>4. UNCHANGED <<request, owed, ie, frames, called, back, cursor, seen, apbpVars>>
  BY DEF historyVars
<1>5. LinkTypeOK'
  BY <1>3, <1>4, OwnTypes DEF LinkInv, LinkTypeOK, ApbpTypeOK, apbpVars, channelVars,
     semaphoreVars, Main
<1>6. HandlersOK'
  BY <1>4, MovesOn DEF Main, Handler, Starting
<1>7. MainNext = "connect" /\ MainNext' = "open"
  BY DEF MainNext, Handler
<1>8. IrqConnected'
  BY LinkAssumption DEF LinkInv, IInv, TypeOK, IcuTypeOK, IrqConnected
<1>9. ClosedOK' /\ CursorOK' /\ SignalOK'
  BY <1>4, <1>7 DEF LinkInv, ClosedOK, CursorOK, SignalOK, apbpVars, channelVars,
     semaphoreVars
<1>10. WordsOK' /\ BitsOK'
  BY <1>7 DEF WordsOK, BitsOK, HandlerWillLook
<1> QED
  BY <1>3, <1>5, <1>6, <1>8, <1>9, <1>10 DEF LinkInv

LEMMA OpenInv ==
    ASSUME LinkInv, Open
    PROVE  LinkInv'
<1> USE DEF Open, Goto
<1>1. UNCHANGED <<icuVars, signalVars, ip, owed, loose, frames, called, back, cursor, seen,
                  apbpVars>>
  BY DEF historyVars
<1>2. frames = <<>>
  BY DEF LinkInv, HandlersOK, Main
<1>3. TypeOK' /\ LoopOK'
  <2>1. 0 \in Target /\ 0 < MaxDepth
    BY LinkAssumption, IcuAssumption, CoreAssumption
  <2> QED
    BY <1>1, <1>2, <2>1 DEF LinkInv, IInv, TypeOK, IcuTypeOK, LoopOK, icuVars,
       vectorVars, signalVars, historyVars
<1>4. IInv'
  BY <1>1, <1>3, QuietIInv DEF LinkInv
<1>5. LinkTypeOK'
  BY <1>1, <1>4, OwnTypes DEF LinkInv, LinkTypeOK, ApbpTypeOK, apbpVars, channelVars,
     semaphoreVars, Main
<1>6. HandlersOK'
  BY <1>1, <1>2 DEF HandlersOK, Main, Handler, Starting
<1>7. MainNext = "open" /\ MainNext' = "kick"
  BY DEF MainNext, Handler
<1>8. IrqConnected' /\ ClosedOK' /\ CursorOK' /\ SignalOK'
  BY <1>1, <1>7 DEF LinkInv, IrqConnected, ClosedOK, CursorOK, SignalOK, apbpVars,
     channelVars, semaphoreVars, icuVars
<1>9. WordsOK' /\ BitsOK'
  BY <1>7 DEF WordsOK, BitsOK, HandlerWillLook
<1> QED
  BY <1>4, <1>5, <1>6, <1>8, <1>9 DEF LinkInv

\* What was raised before the IRQ was connected is made up for.
LEMMA KickInv ==
    ASSUME LinkInv, Kick
    PROVE  LinkInv'
<1> USE DEF Kick, Goto
<1>1. UNCHANGED <<ip, ie, frames, called, back, cursor, seen, apbpVars>>
  OBVIOUS
<1>2. Dsp \in Thread /\ {ApbpIrq} \in SUBSET Irq
  BY CoreAssumption, LinkAssumption
<1>3. IcuTypeOK' /\ owed' \subseteq Target /\ PipelineOK'
  BY <1>1, <1>2, TriggerStep DEF LinkInv
<1>4. TypeOK' /\ LoopOK'
  <2>1. /\ UNCHANGED <<scan, ip, rep, due, ie, im, ic, shadow_im, frames>>
        /\ UNCHANGED <<pending, vinterrupt_address, vinterrupt_context_switch, arguments,
                       stage, context_switch, intended, loose, overlapped>>
        /\ at' = "dispatch"
    BY DEF Trigger, signalVars
  <2>2. TypeOK'
    BY <1>3, <2>1 DEF LinkInv, IInv, TypeOK
  <2>3. LoopOK'
    BY <2>1 DEF LinkInv, IInv, LoopOK
  <2> QED
    BY <2>2, <2>3
<1>5. IInv'
  BY <1>3, <1>4 DEF IInv
<1>6. LinkTypeOK'
  BY <1>1, <1>5, OwnTypes DEF LinkInv, LinkTypeOK, ApbpTypeOK, apbpVars, channelVars,
     semaphoreVars, Main
<1>7. HandlersOK'
  BY <1>1, MovesOn DEF Main, Handler, Starting
<1>8. MainNext = "kick" /\ MainNext' = "main"
  BY DEF MainNext, Handler
<1>9. ApbpIrq \in enabled[0] /\ enabled' = enabled
  BY <1>2, <1>8, TriggerEffect DEF LinkInv, IrqConnected
<1>10. IrqConnected' /\ ClosedOK' /\ CursorOK' /\ SignalOK'
  BY <1>1, <1>8, <1>9 DEF LinkInv, IrqConnected, ClosedOK, CursorOK, SignalOK, apbpVars,
     channelVars, semaphoreVars
<1>11. WordsOK' /\ BitsOK'
  BY <1>2, <1>9, TriggerApbp DEF WordsOK, BitsOK, HandlerWillLook
<1> QED
  BY <1>5, <1>6, <1>7, <1>10, <1>11 DEF LinkInv

-----------------------------------------------------------------------------
(***************************************************************************)
(* The handler's instructions.                                             *)
(***************************************************************************)
\* The main program's next instruction, and what it says, is the same throughout the
\* handler.
LEMMA InsideHandler ==
    ASSUME LinkInv, prog \in Handler, prog' \in Handler, UNCHANGED back
    PROVE  MainNext' = MainNext /\ MainNext = back
  BY DEF MainNext

\* The check: the handler that finds its request goes on to look, the other returns.
LEMMA CheckInv ==
    ASSUME LinkInv, Check
    PROVE  LinkInv'
<1> USE DEF Check
<1>1. PICK to \in {"ack", "return"} :
        Goto("check", to) /\ to = IF ApbpIrq \in request THEN "ack" ELSE "return"
  OBVIOUS
<1>2. UNCHANGED <<icuVars, apbpVars, back, cursor, seen>> /\ OtherRegisters
  OBVIOUS
<1>3. /\ IInv' /\ at' = "dispatch" /\ prog = "check" /\ prog' = to
      /\ UNCHANGED <<request, enabled, owed, ie, frames, called>>
  BY <1>1, <1>2, PlainInstruction
<1> HIDE DEF Check
<1>4. prog \in Handler /\ prog' \in Handler
  BY <1>3 DEF Handler
<1>5. MainNext' = MainNext
  BY <1>2, <1>4, InsideHandler
<1>6. LinkTypeOK'
  BY <1>2, <1>3, <1>4, OwnTypes DEF LinkInv, LinkTypeOK, ApbpTypeOK, apbpVars,
     channelVars, semaphoreVars
<1>7. HandlersOK'
  BY <1>2, <1>3, <1>4, MovesOn DEF Main, Handler, Starting
<1>8. IrqConnected' /\ ClosedOK' /\ CursorOK' /\ SignalOK'
  BY <1>2, <1>3, <1>5 DEF LinkInv, IrqConnected, ClosedOK, CursorOK, SignalOK, apbpVars,
     channelVars, semaphoreVars
<1>9. HandlerWillLook => HandlerWillLook'
  BY <1>1, <1>3, <1>5 DEF HandlerWillLook
<1>10. WordsOK' /\ BitsOK'
  BY <1>2, <1>3, <1>5, <1>9 DEF LinkInv, WordsOK, BitsOK, apbpVars, channelVars,
     semaphoreVars
<1> QED
  BY <1>3, <1>6, <1>7, <1>8, <1>10 DEF LinkInv

\* The acknowledgement takes the request away from whatever dispatch is owed, and the
\* handler looks at everything after it.
LEMMA AckInv ==
    ASSUME LinkInv, Ack
    PROVE  LinkInv'
<1> USE DEF Ack, Goto, OtherRegisters, Acknowledge
<1>1. RepCount
  BY DEF RepCount, LinkInv, IInv, TypeOK
<1>2. WriteIcu
  BY LinkAssumption DEF WriteIcu, historyVars
<1>3. IInv'
  BY <1>1, <1>2, ExecuteIInv DEF Execute, Instruction, LinkInv
<1>4. /\ UNCHANGED <<enabled, ie, frames, called, back, cursor, seen, apbpVars>>
      /\ prog = "ack" /\ prog' = "drain" /\ at' = "dispatch"
  OBVIOUS
<1> HIDE DEF Ack
<1>5. prog \in Handler /\ prog' \in Handler
  BY <1>4 DEF Handler
<1>6. MainNext' = MainNext
  BY <1>4, <1>5, InsideHandler
<1>7. LinkTypeOK'
  BY <1>3, <1>4, <1>5, OwnTypes DEF LinkInv, LinkTypeOK, ApbpTypeOK, apbpVars,
     channelVars, semaphoreVars
<1>8. HandlersOK'
  BY <1>4, <1>5, MovesOn DEF Main, Handler, Starting
<1>9. IrqConnected' /\ ClosedOK' /\ CursorOK' /\ SignalOK'
  BY <1>4, <1>6 DEF LinkInv, IrqConnected, ClosedOK, CursorOK, SignalOK, apbpVars,
     channelVars, semaphoreVars
<1>10. cursor' = 0 /\ \A c \in Channel : 0 <= c
  BY <1>4, LinkAssumption DEF LinkInv, CursorOK
<1>11. WordsOK' /\ BitsOK'
  BY <1>4, <1>10 DEF WordsOK, BitsOK
<1> QED
  BY <1>3, <1>7, <1>8, <1>9, <1>11 DEF LinkInv

\* The drain takes the word of one channel and moves to the next.
LEMMA DrainInv ==
    ASSUME LinkInv, Drain
    PROVE  LinkInv'
<1> USE DEF Drain
<1>1. PICK to \in {"drain", "status"} :
        Goto("drain", to) /\ to = IF cursor + 1 < Channels THEN "drain" ELSE "status"
  OBVIOUS
<1>2. UNCHANGED <<icuVars, back, seen>> /\ OtherRegisters
  OBVIOUS
<1>3. /\ IInv' /\ at' = "dispatch" /\ prog = "drain" /\ prog' = to
      /\ UNCHANGED <<request, enabled, owed, ie, frames, called>>
  BY <1>1, <1>2, PlainInstruction
<1>4. /\ UNCHANGED <<data, disable_interrupt, notify, semaphoreVars>>
      /\ ready' = [ready EXCEPT ![cursor] = FALSE]
  BY DEF Take, IsReady, Recv, apbpVars, channelVars, LinkInv, LinkTypeOK, ApbpTypeOK
<1>5. cursor \in 0 .. Channels - 1 /\ Channels \in Nat
  BY LinkAssumption DEF LinkInv, LinkTypeOK
<1>6. cursor' = IF to = "drain" THEN cursor + 1 ELSE 0
  BY <1>1, <1>5
<1> HIDE DEF Drain
<1>7. prog \in Handler /\ prog' \in Handler
  BY <1>3 DEF Handler
<1>8. MainNext' = MainNext
  BY <1>2, <1>7, InsideHandler
<1>9. ApbpTypeOK'
  BY <1>4 DEF LinkInv, LinkTypeOK, ApbpTypeOK, semaphoreVars
<1>10. cursor' \in Channel
  BY <1>1, <1>5, <1>6, LinkAssumption
<1>11. LinkTypeOK'
  BY <1>2, <1>3, <1>7, <1>9, <1>10, OwnTypes DEF LinkInv, LinkTypeOK
<1>12. HandlersOK'
  BY <1>2, <1>3, <1>7, MovesOn DEF Main, Handler, Starting
<1>13. IrqConnected' /\ ClosedOK' /\ CursorOK' /\ SignalOK'
  BY <1>3, <1>4, <1>6, <1>8 DEF LinkInv, IrqConnected, ClosedOK, CursorOK, SignalOK,
     semaphoreVars
<1>14. HandlerWillLook => HandlerWillLook'
  BY <1>3, <1>8 DEF HandlerWillLook
<1>15. WordsOK'
  <2> SUFFICES ASSUME NEW c \in Channel, ready'[c], ~HandlerWillLook',
                      c \notin notify'
               PROVE  \/ prog' = "drain" /\ cursor' <= c
                      \/ c = Polled /\ MainNext' \in {"reopen", "poll"}
    BY DEF WordsOK
  <2>1. ready[c] /\ c # cursor /\ c \in 0 .. Channels - 1
    BY <1>4, LinkAssumption DEF LinkInv, LinkTypeOK, ApbpTypeOK
  <2>2. cursor <= c \/ (c = Polled /\ MainNext \in {"reopen", "poll"})
    BY <2>1, <1>4, <1>14 DEF LinkInv, WordsOK
  <2>3. cursor <= c => cursor + 1 <= c /\ cursor + 1 < Channels
    BY <2>1, <1>5
  <2> QED
    BY <2>2, <2>3, <1>1, <1>3, <1>6, <1>8
<1>16. BitsOK'
  BY <1>3 DEF BitsOK
<1> QED
  BY <1>3, <1>11, <1>12, <1>13, <1>15, <1>16 DEF LinkInv

\* The status register shows the bits by the time it can be read: the semaphore's
\* mutex is free then, so the master signal is up to date.
LEMMA StatusInv ==
    ASSUME LinkInv, Status
    PROVE  LinkInv'
<1> USE DEF Status, SemaphoreFree
<1>1. PICK to \in {"read", "return"} :
        /\ Goto("status", to)
        /\ to = IF semaphore_master_signal THEN "read" ELSE "return"
  OBVIOUS
<1>2. UNCHANGED <<icuVars, apbpVars, back, cursor, seen>> /\ OtherRegisters
  OBVIOUS
<1>3. /\ IInv' /\ at' = "dispatch" /\ prog = "status" /\ prog' = to
      /\ UNCHANGED <<request, enabled, owed, ie, frames, called>>
  BY <1>1, <1>2, PlainInstruction
<1>4. semaphore # {} => to = "read"
  BY <1>1 DEF LinkInv, SignalOK
<1> HIDE DEF Status
<1>5. prog \in Handler /\ prog' \in Handler
  BY <1>3 DEF Handler
<1>6. MainNext' = MainNext
  BY <1>2, <1>5, InsideHandler
<1>7. LinkTypeOK'
  BY <1>2, <1>3, <1>5, OwnTypes DEF LinkInv, LinkTypeOK, ApbpTypeOK, apbpVars,
     channelVars, semaphoreVars
<1>8. HandlersOK'
  BY <1>2, <1>3, <1>5, MovesOn DEF Main, Handler, Starting
<1>9. IrqConnected' /\ ClosedOK' /\ CursorOK' /\ SignalOK'
  BY <1>2, <1>3, <1>6 DEF LinkInv, IrqConnected, ClosedOK, CursorOK, SignalOK, apbpVars,
     channelVars, semaphoreVars
<1>10. HandlerWillLook => HandlerWillLook'
  BY <1>1, <1>3, <1>6 DEF HandlerWillLook
<1>11. WordsOK' /\ BitsOK'
  BY <1>2, <1>3, <1>4, <1>6, <1>10 DEF LinkInv, WordsOK, BitsOK, apbpVars, channelVars,
     semaphoreVars
<1> QED
  BY <1>3, <1>7, <1>8, <1>9, <1>11 DEF LinkInv

LEMMA ReadInv ==
    ASSUME LinkInv, Read
    PROVE  LinkInv'
<1> USE DEF Read
<1>1. Goto("read", "clear") /\ seen' = semaphore
  OBVIOUS
<1>2. UNCHANGED <<icuVars, apbpVars, back, cursor>> /\ OtherRegisters
  OBVIOUS
<1>3. /\ IInv' /\ at' = "dispatch" /\ prog = "read" /\ prog' = "clear"
      /\ UNCHANGED <<request, enabled, owed, ie, frames, called>>
  BY <1>1, <1>2, PlainInstruction
<1> HIDE DEF Read
<1>4. prog \in Handler /\ prog' \in Handler
  BY <1>3 DEF Handler
<1>5. MainNext' = MainNext
  BY <1>2, <1>4, InsideHandler
<1>6. LinkTypeOK'
  BY <1>1, <1>2, <1>3, <1>4, OwnTypes DEF LinkInv, LinkTypeOK, ApbpTypeOK, apbpVars,
     channelVars, semaphoreVars
<1>7. HandlersOK'
  BY <1>2, <1>3, <1>4, MovesOn DEF Main, Handler, Starting
<1>8. IrqConnected' /\ ClosedOK' /\ CursorOK' /\ SignalOK'
  BY <1>2, <1>3, <1>5 DEF LinkInv, IrqConnected, ClosedOK, CursorOK, SignalOK, apbpVars,
     channelVars, semaphoreVars
<1>9. HandlerWillLook => HandlerWillLook'
  BY <1>3, <1>5 DEF HandlerWillLook
<1>10. WordsOK' /\ BitsOK'
  BY <1>1, <1>2, <1>3, <1>5, <1>9 DEF LinkInv, WordsOK, BitsOK, apbpVars, channelVars,
     semaphoreVars
<1> QED
  BY <1>3, <1>6, <1>7, <1>8, <1>10 DEF LinkInv

\* Bits set between the read and the clear stay, and SetSemaphore of theirs, which has
\* not returned or has raised the IRQ, accounts for them.
LEMMA ClearInv ==
    ASSUME LinkInv, Clear
    PROVE  LinkInv'
<1> USE DEF Clear, ClearSemaphore, SemaphoreFree
<1>1. Goto("clear", "return")
  OBVIOUS
<1>2. UNCHANGED <<icuVars, back, cursor>> /\ OtherRegisters
  OBVIOUS
<1>3. /\ IInv' /\ at' = "dispatch" /\ prog = "clear" /\ prog' = "return"
      /\ UNCHANGED <<request, enabled, owed, ie, frames, called>>
  BY <1>1, <1>2, PlainInstruction
<1>4. /\ UNCHANGED <<semaphore_mask, setting, new_signal, channelVars>>
      /\ semaphore' = semaphore \ seen /\ setting = "idle"
      /\ semaphore_master_signal' = Signal(semaphore', semaphore_mask)
      /\ seen' = {}
  OBVIOUS
<1> HIDE DEF Clear, ClearSemaphore
<1>5. prog \in Handler /\ prog' \in Handler
  BY <1>3 DEF Handler
<1>6. MainNext' = MainNext
  BY <1>2, <1>5, InsideHandler
<1>7. ApbpTypeOK'
  BY <1>4 DEF LinkInv, LinkTypeOK, ApbpTypeOK, channelVars, Signal
<1>8. LinkTypeOK'
  BY <1>2, <1>3, <1>4, <1>5, <1>7, OwnTypes DEF LinkInv, LinkTypeOK
<1>9. HandlersOK'
  BY <1>2, <1>3, <1>5, MovesOn DEF Main, Handler, Starting
<1>10. IrqConnected' /\ ClosedOK' /\ CursorOK'
  BY <1>2, <1>3, <1>4, <1>6 DEF LinkInv, IrqConnected, ClosedOK, CursorOK, channelVars
<1>11. SignalOK'
  BY <1>3, <1>4 DEF LinkInv, SignalOK, Signal
<1>12. HandlerWillLook => HandlerWillLook'
  BY <1>3, <1>6 DEF HandlerWillLook
<1>13. WordsOK' /\ BitsOK'
  BY <1>2, <1>3, <1>4, <1>6, <1>12 DEF LinkInv, WordsOK, BitsOK, channelVars
<1> QED
  BY <1>3, <1>8, <1>9, <1>10, <1>11, <1>13 DEF LinkInv

LEMMA HandlerReturnInv ==
    ASSUME LinkInv, HandlerReturn
    PROVE  LinkInv'
<1> USE DEF HandlerReturn, Goto, Return
<1>1. RepCount
  BY DEF RepCount, LinkInv, IInv, TypeOK
<1>2. IInv'
  BY <1>1, ExecuteIInv DEF Execute, Instruction, LinkInv
<1>3. /\ UNCHANGED <<request, enabled, owed, called, back, cursor, seen, apbpVars>>
      /\ prog = "return" /\ prog' = back /\ at' = "dispatch"
      /\ frames' = Tail(frames)
  BY DEF icuVars, historyVars
<1> HIDE DEF HandlerReturn, Return
<1>4. back \in Main /\ prog \in Handler /\ back \notin Starting /\ Len(frames) = 1
  BY <1>3 DEF LinkInv, LinkTypeOK, HandlersOK, Handler
<1>5. MainNext = back /\ MainNext' = back
  BY <1>3, <1>4 DEF MainNext, Main, Handler
<1>6. LinkTypeOK'
  BY <1>2, <1>3, <1>4, OwnTypes DEF LinkInv, LinkTypeOK, ApbpTypeOK, apbpVars,
     channelVars, semaphoreVars
<1>7. frames' = <<>>
  <2>1. frames \in Seq(BOOLEAN)
    BY DEF LinkInv, IInv, TypeOK
  <2>2. Tail(frames) \in Seq(BOOLEAN) /\ Len(Tail(frames)) = 0
    BY <1>4, <2>1
  <2> QED
    BY <1>3, <2>2
<1>8. HandlersOK'
  BY <1>3, <1>4, <1>7 DEF HandlersOK, Main, Handler, Starting
<1>9. IrqConnected' /\ ClosedOK' /\ CursorOK' /\ SignalOK'
  BY <1>3, <1>4, <1>5 DEF LinkInv, IrqConnected, ClosedOK, CursorOK, SignalOK, apbpVars,
     channelVars, semaphoreVars, Main
<1>10. HandlerWillLook => HandlerWillLook'
  BY <1>3, <1>5 DEF HandlerWillLook
<1>11. WordsOK' /\ BitsOK'
  BY <1>3, <1>5, <1>10 DEF LinkInv, WordsOK, BitsOK, apbpVars, channelVars, semaphoreVars
<1> QED
  BY <1>2, <1>6, <1>8, <1>9, <1>11 DEF LinkInv

LEMMA FirmwareInv ==
    ASSUME LinkInv, Firmware
    PROVE  LinkInv'
  BY MainInv, ConnectInv, OpenInv, KickInv, CheckInv, AckInv, DrainInv, StatusInv,
     ReadInv, ClearInv, HandlerReturnInv DEF Firmware

-----------------------------------------------------------------------------
(***************************************************************************)
(* The loop around the firmware, and the whole.                            *)
(***************************************************************************)
LEMMA LoopEffect ==
    ASSUME LinkInv, Latch \/ NoDispatch \/ PeripheralFires \/ EndTick
    PROVE  /\ IInv' /\ at' # "switch" /\ UNCHANGED <<ie, frames>>
           /\ request \subseteq request' /\ owed \subseteq owed'
           /\ enabled' = enabled
<1>1. IInv'
  BY RunLoopIInv DEF RunLoop, LinkInv
<1>2. CASE Latch
  BY <1>1, <1>2 DEF Latch, icuVars, historyVars, LinkInv, HandlersOK
<1>3. CASE NoDispatch
  BY <1>1, <1>3 DEF NoDispatch, BeginTick, icuVars, historyVars
<1>4. CASE PeripheralFires
  <2>1. PICK irq \in due : Trigger(Dsp, {irq})
    BY <1>4 DEF PeripheralFires
  <2>2. UNCHANGED <<at, ie, frames>>
    BY <1>4 DEF PeripheralFires
  <2> QED
    BY <1>1, <2>1, <2>2, TriggerEffect, CoreAssumption DEF LinkInv, HandlersOK
<1>5. CASE EndTick
  BY <1>1, <1>5 DEF EndTick, icuVars, historyVars
<1> QED
  BY <1>2, <1>3, <1>4, <1>5

\* A step aside of the APBP and the firmware.
LEMMA AsideInv ==
    ASSUME LinkInv, IInv', UNCHANGED <<apbpVars, called, progVars>>,
           at' # "switch", UNCHANGED <<ie, frames>>,
           request \subseteq request', owed \subseteq owed', enabled' = enabled
    PROVE  LinkInv'
<1>1. LinkTypeOK'
  BY OwnTypes DEF LinkInv, LinkTypeOK, ApbpTypeOK, apbpVars, channelVars, semaphoreVars,
     progVars
<1>2. HandlersOK'
  BY DEF LinkInv, HandlersOK, progVars
<1> QED
  BY <1>1, <1>2, AsideKeeps DEF LinkInv

\* A dispatch begins the handler with the check, which finds the request if the
\* dispatch was one that will.
LEMMA TakeInterruptInv ==
    ASSUME LinkInv, TakeInterrupt
    PROVE  LinkInv'
<1> USE DEF TakeInterrupt, Dispatch
<1>1. 0 \in Line
  BY LinkAssumption
<1>2. IInv'
  BY <1>1, RunLoopIInv DEF RunLoop, LinkInv
<1>3. /\ UNCHANGED <<request, enabled, apbpVars, called, cursor, seen>>
      /\ back' = prog /\ prog' = "check" /\ at' = "tick" /\ ie' = FALSE /\ ie = TRUE
      /\ owed' = owed \ {0}
  BY DEF BeginTick, DisableInterrupts, icuVars, Ready, LinkInv, IInv, TypeOK
<1>4. prog \in Main \ Starting /\ frames = <<>>
  BY <1>3 DEF LinkInv, LinkTypeOK, HandlersOK, Handler
<1>5. Len(frames') = 1
  BY <1>4 DEF Enter
<1> HIDE DEF TakeInterrupt, Dispatch
<1>6. MainNext = prog /\ MainNext' = prog
  BY <1>3, <1>4 DEF MainNext, Main, Handler
<1>7. LinkTypeOK'
  BY <1>2, <1>3, <1>4, OwnTypes DEF LinkInv, LinkTypeOK, ApbpTypeOK, apbpVars,
     channelVars, semaphoreVars, Handler
<1>8. HandlersOK'
  BY <1>3, <1>4, <1>5 DEF HandlersOK, Main, Handler, Starting
<1>9. IrqConnected' /\ ClosedOK' /\ CursorOK' /\ SignalOK'
  BY <1>3, <1>4, <1>6 DEF LinkInv, IrqConnected, ClosedOK, CursorOK, SignalOK, apbpVars,
     channelVars, semaphoreVars, Main
<1>10. HandlerWillLook => HandlerWillLook'
  BY <1>3, <1>4, <1>6 DEF HandlerWillLook, Main
<1>11. WordsOK' /\ BitsOK'
  BY <1>3, <1>4, <1>6, <1>10 DEF LinkInv, WordsOK, BitsOK, Main, apbpVars, channelVars,
     semaphoreVars
<1> QED
  BY <1>2, <1>7, <1>8, <1>9, <1>11 DEF LinkInv

LEMMA LinkNextInv == LinkInv /\ [LinkNext]_linkVars => LinkInv'
<1> SUFFICES ASSUME LinkInv, [LinkNext]_linkVars PROVE LinkInv'
  OBVIOUS
<1>1. CASE \E c \in Channel : HostSendData(c)
  BY <1>1, HostSendDataInv
<1>2. CASE \E bits \in SUBSET Bit : HostSetSemaphore(bits)
  BY <1>2, HostSetSemaphoreInv
<1>3. CASE DataHandler \/ SemaphoreHandler \/ HostFinishes \/ HostReset
  BY <1>3, DataHandlerInv, SemaphoreHandlerInv, SemaphoreHandlerReturnsInv,
     HostUpdateSignalInv, HostResetInv DEF HostFinishes
<1>4. CASE InsideTrigger
  <2>1. IInv'
    BY <1>4, IcuStepIInv DEF InsideTrigger, LinkInv
  <2>2. UNCHANGED <<request, enabled, owed, loopVars>>
    BY <1>4, IcuStepEffect DEF InsideTrigger
  <2> QED
    BY <1>4, <2>1, <2>2, AsideInv DEF InsideTrigger, loopVars, LinkInv, HandlersOK
<1>5. CASE Firmware
  BY <1>5, FirmwareInv
<1>6. CASE Loop
  BY <1>6, LoopEffect, AsideInv DEF Loop
<1>7. CASE TakeInterrupt
  BY <1>7, TakeInterruptInv
<1>8. CASE UNCHANGED linkVars
  <2>1. IInv'
    BY <1>8, NextIInv DEF linkVars, LinkInv
  <2> QED
    BY <1>8, <2>1, AsideInv DEF linkVars, vars, icuVars, loopVars, historyVars, LinkInv,
       HandlersOK
<1> QED
  BY <1>1, <1>2, <1>3, <1>4, <1>5, <1>6, <1>7, <1>8 DEF LinkNext, DspStep

-----------------------------------------------------------------------------
\* The invariant of host, APBP, ICU, run loop and firmware together.
THEOREM LinkInductive == LinkSpec => []LinkInv
<1> QED
  BY LinkInitInv, LinkNextInv, PTL DEF LinkSpec

\* Every variable keeps its type; in particular, the interrupts of the host never make
\* handlers nest.
THEOREM LinkTypes == LinkSpec => []LinkTypeOK
<1>1. LinkInv => LinkTypeOK
  BY DEF LinkInv
<1> QED
  BY LinkInductive, <1>1, PTL

LEMMA WillLookIsToCome == HandlerWillLook => HandlerToCome
  BY DEF HandlerWillLook, HandlerToCome

\* No word that the host sends is stranded, whatever the interleaving of SendData, its
\* handler, the ICU, the run loop, the firmware and a reset, for any number of
\* channels.
THEOREM LinkNoStrandedWord == LinkSpec => []NoStrandedWord
<1>1. LinkInv => NoStrandedWord
  BY WillLookIsToCome DEF LinkInv, WordsOK, NoStrandedWord
<1> QED
  BY LinkInductive, <1>1, PTL

\* No semaphore bit that the host sets is stranded, although the interrupt is raised
\* before the master signal shows the bit and the firmware clears what it has read.
THEOREM LinkNoStrandedBit == LinkSpec => []NoStrandedBit
<1>1. LinkInv => NoStrandedBit
  BY WillLookIsToCome DEF LinkInv, BitsOK, SignalOK, NoStrandedBit
<1> QED
  BY LinkInductive, <1>1, PTL
=============================================================================
