---------------------------- MODULE CoreTheorems ----------------------------
(***************************************************************************)
(* Theorems about Core, for any set of IRQs, any number of lines and any   *)
(* firmware: its types, that no interrupt is lost, and what a vectored     *)
(* call is made of.                                                        *)
(***************************************************************************)
EXTENDS Core, TLAPS

\* Handlers nest only while interrupts are enabled, within the bound, and the DSP
\* thread is inside Trigger only during an instruction or a tick.
LoopOK ==
    /\ ie => Len(frames) < MaxDepth
    /\ at = "switch" => Len(frames) < MaxDepth /\ ~ie
    /\ mutex = Dsp => at \in {"dispatch", "tick"}

\* Calls are outstanding only inside Trigger, and SignalVectoredInterrupt is only
\* under way, or about to be called, for a call that is next.
CallsOK ==
    /\ mutex = Nobody => left = {}
    /\ stage # "none" \/ arguments # {} => left # {}
    /\ stage # "none" \/ arguments # {} =>
            \A c \in left : NextCall(c) => c[2] = Vectored
    /\ stage # "none" => arguments = {}

\* Between setting vinterrupt_pending and returning, the vectored interrupt is
\* owed no more, or latched, or pending: the call alone does not account for it.
StageOK ==
    stage = "switch" /\ Vectored \in owed => Vectored \in pending \cup ip

\* A vectored call is made only for an IRQ that stays connected meanwhile.
ConnectedOK == \A c \in left : c[2] = Vectored => c[1] \in vectored_enabled

PipelineOK == CallsOK /\ StageOK /\ ConnectedOK /\ VectorsWhole /\ NoLostInterrupt

IInv == TypeOK /\ LoopOK /\ PipelineOK

USE DEF Line, Vectored, Target

-----------------------------------------------------------------------------
\* Two calls cannot both be the next one: Before is a strict order.
LEMMA NextCallUnique ==
    ASSUME IcuTypeOK, NEW c, NEW d, NextCall(c), NextCall(d)
    PROVE  c = d
<1>1. c \in left /\ d \in left
  BY DEF NextCall
<1>2. c \in Irq \X Target /\ d \in Irq \X Target
  BY <1>1 DEF IcuTypeOK
<1>3. c[1] \in Nat /\ c[2] \in Nat /\ d[1] \in Nat /\ d[2] \in Nat
  <2>1. c[1] \in Irq /\ c[2] \in 0 .. Lines /\ d[1] \in Irq /\ d[2] \in 0 .. Lines
    BY <1>2
  <2>2. \A x \in Irq : x \in Nat
    BY IcuAssumption
  <2>3. \A x \in 0 .. Lines : x \in Nat
    BY IcuAssumption
  <2> QED
    BY <2>1, <2>2, <2>3
<1>4. ~(Before(c, d) /\ Before(d, c))
  BY <1>3 DEF Before
<1> QED
  BY <1>1, <1>4 DEF NextCall

\* What Trigger has to call are calls of its own IRQs to the core interrupts.
LEMMA CallsType ==
    ASSUME NEW bits \in SUBSET Irq
    PROVE  /\ Calls(bits) \subseteq Irq \X Target
           /\ \A c \in Calls(bits) : c[2] = Vectored => c[1] \in vectored_enabled
           /\ {c[2] : c \in Calls(bits)} \subseteq Target
<1>1. Calls(bits) \subseteq bits \X Target
  BY DEF Calls
<1>2. \A c \in bits \X Target : c[2] \in Target
  OBVIOUS
<1> QED
  BY <1>1, <1>2 DEF Calls, Connected

\* At first no mutex is held, nothing is called and every mask is closed.
LEMMA InitIInv == Init => IInv
<1> SUFFICES ASSUME Init PROVE IInv
  OBVIOUS
<1>1. 0 \in Target /\ MaxDepth \in Nat
  BY IcuAssumption, CoreAssumption
<1>2. TypeOK
  <2>1. IcuTypeOK
    BY DEF Init, IcuInit, IcuTypeOK
  <2>2. Len(frames) <= MaxDepth /\ frames \in Seq(BOOLEAN)
    BY <1>1 DEF Init
  <2> QED
    BY <1>1, <2>1, <2>2 DEF Init, TypeOK
<1>3. LoopOK /\ PipelineOK
  BY IcuAssumption, CoreAssumption DEF Init, IcuInit, LoopOK, PipelineOK, CallsOK, StageOK,
     ConnectedOK, VectorsWhole, NoLostInterrupt, Pipeline
<1> QED
  BY <1>2, <1>3 DEF IInv

\* Trigger keeps the invariant, whichever thread runs it; the loop's own state is
\* the caller's business.
LEMMA TriggerStep ==
    ASSUME IInv, NEW thread \in Thread, NEW bits \in SUBSET Irq,
           Trigger(thread, bits), UNCHANGED ip
    PROVE  IcuTypeOK' /\ owed' \subseteq Target /\ PipelineOK'
<1> USE DEF IInv, PipelineOK, Trigger, TriggerEnter
<1>1. IcuTypeOK' /\ owed' \subseteq Target
  BY CallsType DEF TypeOK, IcuTypeOK, vectorVars
<1>2. left = {} /\ stage = "none" /\ stage' = "none" /\ arguments = {} /\ arguments' = {}
  BY DEF CallsOK, signalVars
<1>3. mutex' # Nobody
  BY IcuAssumption
<1>4. CallsOK' /\ StageOK' /\ VectorsWhole'
  BY <1>2, <1>3 DEF CallsOK, StageOK, VectorsWhole
<1>5. ConnectedOK'
  BY CallsType DEF ConnectedOK
<1>6. NoLostInterrupt'
  BY <1>2 DEF NoLostInterrupt, Pipeline, signalVars
<1> QED
  BY <1>1, <1>4, <1>5, <1>6

\* A Trigger of the host begins, whatever the DSP thread is doing.
LEMMA HostTriggerIInv ==
    ASSUME IInv, NEW bits \in SUBSET Irq, HostTrigger(bits)
    PROVE  IInv'
<1>1. Trigger(Cpu, bits) /\ UNCHANGED loopVars
  BY DEF HostTrigger
<1>2. IcuTypeOK' /\ owed' \subseteq Target /\ PipelineOK'
  BY <1>1, TriggerStep, CoreAssumption DEF loopVars
<1>3. TypeOK' /\ LoopOK'
  BY <1>1, <1>2, CoreAssumption DEF IInv, TypeOK, LoopOK, Trigger, TriggerEnter,
     signalVars, loopVars
<1> QED
  BY <1>2, <1>3 DEF IInv

\* The steps of a Trigger under way: a call is delivered or the mutex released.
LEMMA IcuStepIInv ==
    ASSUME IInv, IcuStep
    PROVE  IInv'
<1> USE DEF IInv, PipelineOK, icuVars, vectorVars, signalVars, loopVars, historyVars
<1>0. Nobody # Dsp
  BY IcuAssumption, CoreAssumption
<1>1. CASE SignalInterrupt
  <2>1. PICK c \in left : /\ NextCall(c) /\ c[2] # Vectored
                          /\ pending' = pending \cup {c[2]}
                          /\ CallReturns(c)
    BY <1>1 DEF SignalInterrupt
  <2> USE <1>1, <2>1 DEF SignalInterrupt, CallReturns
  <2>2. c \in Irq \X Target /\ c[2] \in Target
    BY DEF TypeOK, IcuTypeOK
  <2>3. stage = "none" /\ arguments = {}
    BY DEF CallsOK
  <2>4. TypeOK'
    BY <2>2 DEF TypeOK, IcuTypeOK
  <2>5. LoopOK' /\ CallsOK' /\ StageOK' /\ ConnectedOK' /\ VectorsWhole'
    BY <2>3 DEF LoopOK, CallsOK, StageOK, ConnectedOK, VectorsWhole
  <2>6. NoLostInterrupt'
    BY DEF NoLostInterrupt, Pipeline
  <2> QED
    BY <2>4, <2>5, <2>6
<1>2. ASSUME NEW name \in {"low", "high", "switch"}, ReadArgument(name)
      PROVE  IInv'
  <2>1. PICK c \in left :
            /\ NextCall(c) /\ c[2] = Vectored /\ stage = "none"
            /\ arguments' = arguments \cup {<<name, VectorWord(name, c[1])>>}
    BY <1>2 DEF ReadArgument
  <2> USE <1>2, <2>1 DEF ReadArgument
  <2>2. c[1] \in VectoredIrq
    BY DEF ConnectedOK, TypeOK, IcuTypeOK
  <2>3. /\ vector_low[c[1]] \in Low /\ vector_high[c[1]] \in High
        /\ vector_context_switch[c[1]] \in BOOLEAN
    BY <2>2 DEF TypeOK, IcuTypeOK
  <2>4. <<name, VectorWord(name, c[1])>> \in
            ({"low"} \X Low) \cup ({"high"} \X High) \cup ({"switch"} \X BOOLEAN)
    BY <2>3 DEF VectorWord
  <2>5. TypeOK'
    BY <2>4 DEF TypeOK, IcuTypeOK
  <2>6. \A d \in left : NextCall(d) => d = c
    BY NextCallUnique DEF TypeOK
  <2>7. CallsOK'
    BY <2>6 DEF CallsOK, NextCall
  <2>8. VectorsWhole'
    <3>1. \A other, irq : VectorWord(other, irq)' = VectorWord(other, irq)
      BY DEF VectorWord
    <3>2. \A d \in left' : NextCall(d)' => d = c
      BY <2>6 DEF NextCall
    <3>3. \A word \in arguments' :
            word \in arguments \/ (word[1] = name /\ word[2] = VectorWord(name, c[1]))
      OBVIOUS
    <3> QED
      BY <3>1, <3>2, <3>3 DEF VectorsWhole
  <2>9. LoopOK' /\ StageOK' /\ ConnectedOK' /\ NoLostInterrupt'
    BY DEF LoopOK, StageOK, ConnectedOK, NoLostInterrupt, Pipeline
  <2> QED
    BY <2>5, <2>7, <2>8, <2>9
<1>3. CASE StoreAddress
  <2>1. PICK low \in Low, high \in High, switch \in BOOLEAN :
            /\ arguments = {<<"low", low>>, <<"high", high>>, <<"switch", switch>>}
            /\ vinterrupt_address' = GetVector(low, high)
            /\ context_switch' = switch
    BY <1>3 DEF StoreAddress
  <2> USE <1>3, <2>1 DEF StoreAddress
  <2>2. GetVector(low, high) \in Address
    BY DEF GetVector, Address
  <2>3. TypeOK'
    BY <2>2 DEF TypeOK, IcuTypeOK
  <2>4. arguments # {}
    OBVIOUS
  <2>5. CallsOK' /\ VectorsWhole'
    BY <2>4 DEF CallsOK, NextCall, VectorsWhole
  <2>6. LoopOK' /\ StageOK' /\ ConnectedOK' /\ NoLostInterrupt'
    BY DEF LoopOK, StageOK, ConnectedOK, NoLostInterrupt, Pipeline
  <2> QED
    BY <2>3, <2>5, <2>6
<1>4. CASE StorePending
  <2> USE <1>4 DEF StorePending
  <2>1. Vectored \in Target
    BY IcuAssumption
  <2>2. TypeOK'
    BY <2>1 DEF TypeOK, IcuTypeOK
  <2>3. CallsOK' /\ VectorsWhole'
    BY DEF CallsOK, NextCall, VectorsWhole
  <2>4. LoopOK' /\ StageOK' /\ ConnectedOK' /\ NoLostInterrupt'
    BY DEF LoopOK, StageOK, ConnectedOK, NoLostInterrupt, Pipeline
  <2> QED
    BY <2>2, <2>3, <2>4
<1>5. CASE StoreSwitch
  <2>1. PICK c \in left : NextCall(c) /\ CallReturns(c)
    BY <1>5 DEF StoreSwitch
  <2> USE <1>5, <2>1 DEF StoreSwitch, CallReturns
  <2>2. c[2] = Vectored /\ stage = "switch" /\ arguments = {}
    BY DEF CallsOK
  <2>3. TypeOK'
    BY DEF TypeOK, IcuTypeOK
  <2>4. LoopOK' /\ CallsOK' /\ StageOK' /\ ConnectedOK' /\ VectorsWhole'
    BY <2>2 DEF LoopOK, CallsOK, StageOK, ConnectedOK, VectorsWhole
  <2>5. NoLostInterrupt'
    BY <2>2 DEF NoLostInterrupt, Pipeline, StageOK
  <2> QED
    BY <2>3, <2>4, <2>5
<1>6. CASE TriggerReturns
  <2> USE <1>6 DEF TriggerReturns, TriggerLeave
  <2>1. TypeOK' /\ LoopOK' /\ CallsOK'
    BY <1>0 DEF TypeOK, IcuTypeOK, LoopOK, CallsOK
  <2>2. StageOK' /\ ConnectedOK' /\ VectorsWhole' /\ NoLostInterrupt'
    BY DEF StageOK, ConnectedOK, VectorsWhole, NoLostInterrupt, Pipeline
  <2> QED
    BY <2>1, <2>2
<1> QED
  BY <1>1, <1>2, <1>3, <1>4, <1>5, <1>6 DEF IcuStep

\* Entering a handler and returning from one keep the frames and the banks of im.
LEMMA EnterType ==
    ASSUME TypeOK, NEW switched \in BOOLEAN, Enter(switched),
           Len(frames) < MaxDepth
    PROVE  /\ frames' \in Seq(BOOLEAN) /\ Len(frames') <= MaxDepth
           /\ im' \subseteq Target /\ shadow_im' \subseteq Target
<1>1. <<switched>> \in Seq(BOOLEAN) /\ frames \in Seq(BOOLEAN)
  BY DEF TypeOK
<1>2. frames' \in Seq(BOOLEAN) /\ Len(frames') = 1 + Len(frames)
  BY <1>1 DEF Enter
<1>3. Len(frames) \in Nat /\ MaxDepth \in Nat
  BY <1>1, CoreAssumption
<1> QED
  BY <1>2, <1>3 DEF Enter, SwapIf, TypeOK

\* An instruction that leaves the ICU and the signals alone disturbs nothing of
\* the interrupt pipeline.
LEMMA QuietIInv ==
    ASSUME IInv, TypeOK', LoopOK', UNCHANGED <<icuVars, signalVars, ip, owed, loose>>
    PROVE  IInv'
<1> USE DEF IInv, PipelineOK, icuVars, vectorVars, signalVars
<1>1. CallsOK' /\ VectorsWhole'
  BY DEF CallsOK, NextCall, VectorsWhole, VectorWord
<1>2. StageOK' /\ ConnectedOK' /\ NoLostInterrupt'
  BY DEF StageOK, ConnectedOK, NoLostInterrupt, Pipeline
<1> QED
  BY <1>1, <1>2

\* A write of the vector registers concerns the vector of one IRQ.
LEMMA SetVectorEffect ==
    ASSUME IcuTypeOK, NEW irq \in VectoredIrq, SetVector(irq)
    PROVE  /\ IcuTypeOK'
           /\ UNCHANGED <<vectored_enabled, left, mutex>>
           /\ \A other \in VectoredIrq \ {irq}, name \in {"low", "high", "switch"} :
                    VectorWord(name, other)' = VectorWord(name, other)
<1>1. CASE \E low \in Low : SetVectorLow(irq, low)
  BY <1>1 DEF SetVectorLow, IcuTypeOK, VectorWord
<1>2. CASE \E high \in High, switch \in BOOLEAN : SetVectorHigh(irq, high, switch)
  BY <1>2 DEF SetVectorHigh, IcuTypeOK, VectorWord
<1> QED
  BY <1>1, <1>2 DEF SetVector

\* MMIO writes to the ICU wait for the mutex, or touch only the vectors; and a vector
\* that is written while its IRQ is connected is no longer counted on.
LEMMA WriteIcuIInv ==
    ASSUME IInv, WriteIcu, at = "execute", UNCHANGED <<ip, owed>>
    PROVE  IcuTypeOK' /\ loose' \subseteq VectoredIrq /\ mutex' = mutex /\ PipelineOK'
<1> USE DEF IInv, PipelineOK, signalVars
<1>1. UNCHANGED signalVars
  BY DEF WriteIcu
<1>2. CASE UNCHANGED <<left, mutex>> /\ left = {} /\ IcuTypeOK' /\ loose' \subseteq VectoredIrq
  <2>1. CallsOK' /\ StageOK' /\ ConnectedOK' /\ VectorsWhole' /\ NoLostInterrupt'
    BY <1>1, <1>2 DEF CallsOK, NextCall, StageOK, ConnectedOK, VectorsWhole,
       NoLostInterrupt, Pipeline
  <2> QED
    BY <1>2, <2>1
<1>3. ASSUME NEW bits \in SUBSET Irq, Acknowledge(bits), loose' = loose
      PROVE  UNCHANGED <<left, mutex>> /\ left = {} /\ IcuTypeOK' /\ loose' \subseteq VectoredIrq
  BY <1>3 DEF Acknowledge, TypeOK, IcuTypeOK, CallsOK, vectorVars
<1>4. ASSUME NEW i \in Line, NEW bits \in SUBSET Irq, SetEnable(i, bits), loose' = loose
      PROVE  UNCHANGED <<left, mutex>> /\ left = {} /\ IcuTypeOK' /\ loose' \subseteq VectoredIrq
  BY <1>4 DEF SetEnable, TypeOK, IcuTypeOK, CallsOK, vectorVars
<1>5. ASSUME NEW bits \in SUBSET VectoredIrq, SetEnableVectored(bits),
             loose' = loose \cap bits
      PROVE  UNCHANGED <<left, mutex>> /\ left = {} /\ IcuTypeOK' /\ loose' \subseteq VectoredIrq
  BY <1>5 DEF SetEnableVectored, TypeOK, IcuTypeOK, CallsOK, vectorVars
<1>6. ASSUME NEW irq \in VectoredIrq, SetVector(irq),
             loose' = loose \cup ({irq} \cap vectored_enabled)
      PROVE  IcuTypeOK' /\ loose' \subseteq VectoredIrq /\ mutex' = mutex /\ PipelineOK'
  <2>1. /\ IcuTypeOK' /\ loose' \subseteq VectoredIrq
        /\ UNCHANGED <<vectored_enabled, left, mutex>>
    BY <1>6, SetVectorEffect DEF TypeOK
  <2>2. CallsOK' /\ StageOK' /\ ConnectedOK' /\ NoLostInterrupt'
    BY <1>1, <2>1 DEF CallsOK, NextCall, StageOK, ConnectedOK, NoLostInterrupt, Pipeline
  <2>3. VectorsWhole'
    <3> SUFFICES ASSUME NEW c \in left, NextCall(c), c[1] \notin loose' \/ mutex = Dsp,
                        NEW word \in arguments
                 PROVE  word[2] = VectorWord(word[1], c[1])'
      BY <1>1, <2>1 DEF VectorsWhole, NextCall
    <3>1. c[1] \notin loose'
      BY DEF LoopOK
    <3>2. c[1] \in vectored_enabled /\ c[1] \in VectoredIrq
      BY DEF CallsOK, ConnectedOK, TypeOK, IcuTypeOK
    <3>3. c[1] # irq /\ c[1] \notin loose
      BY <1>6, <3>1, <3>2
    <3>4. word[1] \in {"low", "high", "switch"}
      BY DEF TypeOK
    <3>5. VectorWord(word[1], c[1])' = VectorWord(word[1], c[1])
      BY <1>6, <3>2, <3>3, <3>4, SetVectorEffect DEF TypeOK
    <3>6. word[2] = VectorWord(word[1], c[1])
      BY <3>3 DEF VectorsWhole
    <3> QED
      BY <3>5, <3>6
  <2> QED
    BY <2>1, <2>2, <2>3
<1> QED
  BY <1>2, <1>3, <1>4, <1>5, <1>6 DEF WriteIcu

\* The frames under the innermost handler.
LEMMA TailFrames ==
    ASSUME NEW s \in Seq(BOOLEAN), s # <<>>, Len(s) <= MaxDepth
    PROVE  /\ Tail(s) \in Seq(BOOLEAN)
           /\ Len(Tail(s)) <= MaxDepth /\ Len(Tail(s)) < MaxDepth
<1>1. Len(s) \in Nat /\ MaxDepth \in Nat
  BY CoreAssumption
<1>2. Tail(s) \in Seq(BOOLEAN) /\ Len(Tail(s)) = Len(s) - 1
  OBVIOUS
<1> QED
  BY <1>1, <1>2

\* Every instruction of the run loop keeps the invariant: most touch nothing of
\* the pipeline, the others are MMIO writes, enables and returns.
LEMMA ExecuteIInv ==
    ASSUME IInv, Execute
    PROVE  IInv'
<1> USE DEF IInv, Execute, RepCount
<1>1. rep' \in BOOLEAN /\ at' = "dispatch"
  BY DEF TypeOK
<1>2. CASE Plain
  <2> USE <1>2 DEF Plain, icuVars, vectorVars, signalVars, historyVars
  <2>1. TypeOK' /\ LoopOK'
    BY <1>1 DEF TypeOK, IcuTypeOK, LoopOK
  <2> QED
    BY <2>1, QuietIInv
<1>3. CASE SetInterruptEnable
  <2> USE <1>3 DEF SetInterruptEnable, icuVars, vectorVars, signalVars, historyVars
  <2>1. TypeOK' /\ LoopOK'
    BY <1>1 DEF TypeOK, IcuTypeOK, LoopOK
  <2> QED
    BY <2>1, QuietIInv
<1>4. CASE WriteMod3
  <2> USE <1>4 DEF WriteMod3, icuVars, vectorVars, signalVars, historyVars
  <2>1. im' \subseteq Target /\ ic' \subseteq Line
    BY CoreAssumption
  <2>2. TypeOK' /\ LoopOK'
    BY <1>1, <2>1 DEF TypeOK, IcuTypeOK, LoopOK
  <2> QED
    BY <2>2, QuietIInv
<1>5. CASE Return
  <2> USE <1>5 DEF Return, SwapIf, icuVars, vectorVars, signalVars, historyVars
  <2>1. frames \in Seq(BOOLEAN) /\ frames # <<>> /\ Len(frames) <= MaxDepth
    BY DEF TypeOK
  <2>2. frames' \in Seq(BOOLEAN) /\ Len(frames') <= MaxDepth /\ Len(frames') < MaxDepth
    BY <2>1, TailFrames
  <2>5. im' \subseteq Target /\ shadow_im' \subseteq Target
    BY DEF TypeOK
  <2>6. TypeOK' /\ LoopOK'
    BY <1>1, <2>2, <2>5 DEF TypeOK, IcuTypeOK, LoopOK
  <2> QED
    BY <2>6, QuietIInv
<1>6. CASE WriteIcu
  <2>1. UNCHANGED <<signalVars, ie, im, ic, shadow_im, frames, owed, intended, overlapped>>
    BY <1>6 DEF WriteIcu
  <2>2. IcuTypeOK' /\ loose' \subseteq VectoredIrq /\ mutex' = mutex /\ PipelineOK'
    BY <1>6, <2>1, WriteIcuIInv
  <2>3. TypeOK' /\ LoopOK'
    BY <1>1, <2>1, <2>2 DEF TypeOK, LoopOK, signalVars
  <2> QED
    BY <2>2, <2>3
<1>7. CASE SoftTrigger
  <2>1. PICK bits \in SUBSET SoftIrq : Trigger(Dsp, bits)
    BY <1>7 DEF SoftTrigger
  <2>2. IcuTypeOK' /\ owed' \subseteq Target /\ PipelineOK'
    BY <2>1, TriggerStep, CoreAssumption
  <2>3. TypeOK' /\ LoopOK'
    BY <1>1, <1>7, <2>1, <2>2 DEF TypeOK, LoopOK, SoftTrigger, Trigger, signalVars
  <2> QED
    BY <2>2, <2>3
<1> QED
  BY <1>2, <1>3, <1>4, <1>5, <1>6, <1>7 DEF Instruction

\* Latching moves a flag into ip and forgets no bit that was there.
LEMMA LatchIInv ==
    ASSUME IInv, Latch
    PROVE  IInv'
<1> USE DEF IInv, PipelineOK, Latch, Latched, icuVars, vectorVars, historyVars
<1>1. scan' \in Target /\ at' \in {"latch", "execute"}
  BY IcuAssumption DEF TypeOK
<1>2. TypeOK' /\ LoopOK'
  BY <1>1 DEF TypeOK, IcuTypeOK, LoopOK
<1>3. pending' \cup ip' = pending \cup ip
  OBVIOUS
<1>4. CallsOK' /\ ConnectedOK' /\ VectorsWhole'
  BY DEF CallsOK, NextCall, ConnectedOK, VectorsWhole, VectorWord
<1>5. StageOK' /\ NoLostInterrupt'
  BY <1>3 DEF StageOK, NoLostInterrupt, Pipeline
<1> QED
  BY <1>2, <1>4, <1>5

\* A dispatch takes a target out of ip and, at the same time, out of what is owed.
LEMMA DispatchIInv ==
    ASSUME IInv, NEW t \in Target, ip' = ip \ {t}, owed' = owed \ {t},
           UNCHANGED <<icuVars, signalVars, loose>>, TypeOK', LoopOK'
    PROVE  IInv'
<1> USE DEF IInv, PipelineOK, icuVars, vectorVars, signalVars
<1>1. CallsOK' /\ ConnectedOK' /\ VectorsWhole'
  BY DEF CallsOK, NextCall, ConnectedOK, VectorsWhole, VectorWord
<1>2. StageOK' /\ NoLostInterrupt'
  BY DEF StageOK, NoLostInterrupt, Pipeline
<1> QED
  BY <1>1, <1>2

\* Every step of the run loop keeps the invariant.
LEMMA RunLoopIInv ==
    ASSUME IInv, RunLoop
    PROVE  IInv'
<1> USE DEF IInv
<1>1. CASE Latch
  BY <1>1, LatchIInv
<1>2. CASE Execute
  BY <1>2, ExecuteIInv
<1>3. CASE Repeat
  <2>1. TypeOK' /\ LoopOK'
    BY <1>3 DEF Repeat, TypeOK, IcuTypeOK, LoopOK, icuVars, vectorVars, signalVars, historyVars
  <2> QED
    BY <1>3, <2>1, QuietIInv DEF Repeat, historyVars
<1>4. CASE NoDispatch
  <2>1. TypeOK' /\ LoopOK'
    BY <1>4 DEF NoDispatch, BeginTick, TypeOK, IcuTypeOK, LoopOK, icuVars,
       vectorVars, signalVars, historyVars
  <2> QED
    BY <1>4, <2>1, QuietIInv DEF NoDispatch, historyVars
<1>5. ASSUME NEW t \in Line, Dispatch(t)
      PROVE  IInv'
  <2> USE <1>5 DEF Dispatch, DisableInterrupts, BeginTick
  <2>1. Len(frames) < MaxDepth
    BY DEF Ready, LoopOK
  <2>2. /\ frames' \in Seq(BOOLEAN) /\ Len(frames') <= MaxDepth
        /\ im' \subseteq Target /\ shadow_im' \subseteq Target
    <3>1. t \in ic => Enter(TRUE)
      BY DEF Enter, SwapIf
    <3>2. t \notin ic => Enter(FALSE)
      <4>1. t \notin ic => (t \in ic) = FALSE
        OBVIOUS
      <4>2. Enter(t \in ic)
        OBVIOUS
      <4> QED
        BY <4>1, <4>2, Zenon
    <3> QED
      BY <2>1, <3>1, <3>2, EnterType
  <2>3. TypeOK' /\ LoopOK'
    BY <2>2 DEF TypeOK, IcuTypeOK, LoopOK, icuVars, vectorVars, signalVars
  <2>4. t \in Target
    BY IcuAssumption
  <2> QED
    BY <2>3, <2>4, DispatchIInv
<1>6. CASE DispatchVectored
  <2> USE <1>6 DEF DispatchVectored, AtDispatch, DisableInterrupts
  <2>1. Len(frames) < MaxDepth
    BY DEF Ready, LoopOK
  <2>2. TypeOK' /\ LoopOK'
    BY <2>1 DEF TypeOK, IcuTypeOK, LoopOK, icuVars, vectorVars, signalVars
  <2>3. Vectored \in Target
    BY IcuAssumption
  <2> QED
    BY <2>2, <2>3, DispatchIInv
<1>7. CASE SwitchContext
  <2> USE <1>7 DEF SwitchContext, BeginTick
  <2>1. Len(frames) < MaxDepth /\ ~ie
    BY DEF LoopOK
  <2>2. vinterrupt_context_switch \in BOOLEAN
    BY DEF TypeOK
  <2>3. /\ frames' \in Seq(BOOLEAN) /\ Len(frames') <= MaxDepth
        /\ im' \subseteq Target /\ shadow_im' \subseteq Target
    BY <2>1, <2>2, EnterType
  <2>4. TypeOK' /\ LoopOK'
    BY <2>1, <2>3 DEF TypeOK, IcuTypeOK, LoopOK, icuVars, vectorVars, signalVars, historyVars
  <2> QED
    BY <2>4, QuietIInv DEF historyVars
<1>8. CASE PeripheralFires
  <2>1. PICK irq \in due : Trigger(Dsp, {irq}) /\ due' = due \ {irq}
    BY <1>8 DEF PeripheralFires
  <2>2. {irq} \in SUBSET Irq
    BY CoreAssumption DEF TypeOK
  <2>3. at = "tick" /\ UNCHANGED <<at, scan, ie, im, ip, ic, rep, shadow_im, frames>>
    BY <1>8 DEF PeripheralFires
  <2>4. IcuTypeOK' /\ owed' \subseteq Target /\ PipelineOK'
    BY <2>1, <2>2, <2>3, TriggerStep, CoreAssumption
  <2>5. TypeOK' /\ LoopOK'
    BY <2>1, <2>3, <2>4 DEF TypeOK, LoopOK, Trigger, signalVars
  <2> QED
    BY <2>4, <2>5
<1>9. CASE EndTick
  <2>1. 0 \in Target
    BY IcuAssumption
  <2>2. TypeOK' /\ LoopOK'
    BY <1>9, <2>1 DEF EndTick, TypeOK, IcuTypeOK, LoopOK, icuVars, vectorVars,
       signalVars, historyVars
  <2> QED
    BY <1>9, <2>2, QuietIInv DEF EndTick, historyVars
<1> QED
  BY <1>1, <1>2, <1>3, <1>4, <1>5, <1>6, <1>7, <1>8, <1>9 DEF RunLoop

\* The invariant is inductive.
LEMMA NextIInv == IInv /\ [Next]_vars => IInv'
<1> SUFFICES ASSUME IInv, [Next]_vars PROVE IInv'
  OBVIOUS
<1>1. ASSUME NEW irq \in HostIrq, HostTrigger({irq})
      PROVE  IInv'
  <2>1. {irq} \in SUBSET Irq
    BY CoreAssumption
  <2> QED
    BY <1>1, <2>1, HostTriggerIInv
<1>2. CASE IcuStep
  BY <1>2, IcuStepIInv
<1>3. CASE RunLoop
  BY <1>3, RunLoopIInv
<1>4. CASE UNCHANGED vars
  <2> USE <1>4 DEF vars, loopVars, historyVars, IInv
  <2>1. TypeOK' /\ LoopOK'
    BY DEF TypeOK, IcuTypeOK, LoopOK, icuVars, vectorVars, signalVars
  <2> QED
    BY <2>1, QuietIInv
<1> QED
  BY <1>1, <1>2, <1>3, <1>4 DEF Next

\* The invariant of the whole: the types, the holder of the mutex, the calls a
\* Trigger still owes, and the pipeline of each interrupt.
THEOREM Inductive == Spec => []IInv
<1> QED
  BY InitIInv, NextIInv, PTL DEF Spec

\* Every variable keeps its type whatever the interleaving of host and DSP; in
\* particular handlers never nest deeper than the firmware lets them.
THEOREM CoreTypeOK == Spec => []TypeOK
<1>1. IInv => TypeOK
  BY DEF IInv
<1> QED
  BY Inductive, <1>1, PTL

\* No interrupt is lost between Trigger and the dispatch, for any number of IRQs
\* and lines and any interleaving of the host, the peripherals and the run loop.
THEOREM CoreNoLostInterrupt == Spec => []NoLostInterrupt
<1>1. IInv => NoLostInterrupt
  BY DEF IInv, PipelineOK
<1> QED
  BY Inductive, <1>1, PTL

\* A Trigger takes a vector that its IRQ has as a whole, although it reads the words
\* one by one without a lock, if the IRQ was disconnected while its vector was written:
\* the firmware waits for the Trigger in progress, or the Trigger is the DSP's own.
THEOREM CoreVectorsWhole == Spec => []VectorsWhole
<1>1. IInv => VectorsWhole
  BY DEF IInv, PipelineOK
<1> QED
  BY Inductive, <1>1, PTL

-----------------------------------------------------------------------------
(***************************************************************************)
(* The vectored call                                                       *)
(***************************************************************************)
\* Outside SignalVectoredInterrupt, a vectored interrupt on its way has the switch bit
\* of the last call.  At the second read of a dispatch, that bit is the one of the call
\* whose address the first read took, if no call was under way at the first and none
\* has stored anything since.
IntactOK ==
    /\ stage = "none" /\ Vectored \in pending \cup ip =>
            vinterrupt_context_switch = context_switch
    /\ at = "switch" /\ ~overlapped =>
            stage = "none" /\ vinterrupt_context_switch = intended

\* Steps that leave the signals alone keep it, whatever they do to ip but to set the
\* vectored bit.
LEMMA QuietIntact ==
    ASSUME IntactOK, UNCHANGED signalVars, Vectored \in ip' => Vectored \in ip,
           at' = "switch" => UNCHANGED <<at, intended, overlapped>>
    PROVE  IntactOK'
  BY DEF IntactOK, signalVars

LEMMA IcuStepIntact ==
    ASSUME IInv, IntactOK, IcuStep
    PROVE  IntactOK'
<1> USE DEF IntactOK, loopVars, historyVars
<1>1. CASE SignalInterrupt
  <2>1. PICK c \in left : c[2] # Vectored /\ pending' = pending \cup {c[2]}
    BY <1>1 DEF SignalInterrupt
  <2> QED
    BY <1>1, <2>1 DEF SignalInterrupt
<1>2. ASSUME NEW name, ReadArgument(name)
      PROVE  IntactOK'
  BY <1>2 DEF ReadArgument
<1>3. CASE StoreAddress
  BY <1>3 DEF StoreAddress, IInv, TypeOK
<1>4. CASE StorePending
  BY <1>4 DEF StorePending
<1>5. CASE StoreSwitch
  BY <1>5 DEF StoreSwitch
<1>6. CASE TriggerReturns
  BY <1>6 DEF TriggerReturns, signalVars
<1> QED
  BY <1>1, <1>2, <1>3, <1>4, <1>5, <1>6 DEF IcuStep

LEMMA RunLoopIntact ==
    ASSUME IInv, IntactOK, RunLoop
    PROVE  IntactOK'
<1>1. CASE Latch
  BY <1>1 DEF Latch, Latched, IntactOK
<1>2. CASE Execute \/ Repeat
  <2>1. UNCHANGED <<signalVars, ip>> /\ at' = "dispatch"
    BY <1>2 DEF Execute, Repeat, Instruction, Plain, SetInterruptEnable, WriteMod3,
       Return, WriteIcu, SoftTrigger, Trigger
  <2> QED
    BY <2>1, QuietIntact
<1>3. CASE NoDispatch \/ (\E t \in Line : Dispatch(t)) \/ SwitchContext
  <2>1. UNCHANGED signalVars /\ at' = "tick" /\ ip' \subseteq ip
    BY <1>3 DEF NoDispatch, Dispatch, SwitchContext, BeginTick
  <2> QED
    BY <2>1, QuietIntact
<1>4. CASE DispatchVectored
  <2>1. Vectored \in ip
    BY <1>4 DEF DispatchVectored, Ready
  <2> QED
    BY <1>4, <2>1 DEF DispatchVectored, IntactOK, signalVars
<1>5. CASE PeripheralFires
  <2>1. UNCHANGED <<signalVars, ip>> /\ at' = "tick"
    BY <1>5 DEF PeripheralFires, Trigger
  <2> QED
    BY <2>1, QuietIntact
<1>6. CASE EndTick
  BY <1>6, QuietIntact DEF EndTick
<1> QED
  BY <1>1, <1>2, <1>3, <1>4, <1>5, <1>6 DEF RunLoop

LEMMA IntactInductive == Spec => [](IInv /\ IntactOK)
<1>1. Init => IntactOK
  BY DEF Init, IntactOK
<1>2. IInv /\ IntactOK /\ [Next]_vars => IntactOK'
  <2> SUFFICES ASSUME IInv, IntactOK, [Next]_vars PROVE IntactOK'
    OBVIOUS
  <2>1. ASSUME NEW irq \in HostIrq, HostTrigger({irq}) PROVE IntactOK'
    BY <2>1, QuietIntact DEF HostTrigger, Trigger, loopVars
  <2>2. CASE UNCHANGED vars
    BY <2>2, QuietIntact DEF vars, loopVars, historyVars
  <2> QED
    BY <2>1, <2>2, IcuStepIntact, RunLoopIntact DEF Next
<1> QED
  BY InitIInv, NextIInv, <1>1, <1>2, PTL DEF Spec

\* A vectored interrupt makes the context switch of the very call whose address it
\* goes to, though both travel in atomics of their own, unless a call of another
\* thread stores its words while the dispatch reads them.
THEOREM CoreIntactAlone == Spec => IntactAlone
<1>1. IntactOK /\ [Next]_vars =>
        [SwitchContext /\ ~overlapped => vinterrupt_context_switch = intended]_vars
  BY DEF IntactOK, SwitchContext
<1> QED
  BY IntactInductive, <1>1, PTL DEF Spec, IntactAlone

\* The threads that raise IRQs are then the DSP's alone, and it is never inside Trigger
\* while it dispatches.
OneThreadOK ==
    /\ mutex \in {Dsp, Nobody}
    /\ at = "switch" => mutex = Nobody /\ ~overlapped

\* If only the DSP thread raises IRQs, no call is under way at a dispatch, and every
\* vectored interrupt makes the context switch of its own call.  With a host thread
\* that raises them it does not: run CoreVectoredRace.
THEOREM CoreVectoredCallIntact ==
    ASSUME HostIrq = {}
    PROVE  Spec => VectoredCallIntact
<1>0. Dsp # Nobody
  BY IcuAssumption, CoreAssumption
<1>1. Init => OneThreadOK
  BY DEF Init, IcuInit, OneThreadOK
<1>2. IInv /\ OneThreadOK /\ [Next]_vars => OneThreadOK'
  <2> SUFFICES ASSUME IInv, OneThreadOK, [Next]_vars PROVE OneThreadOK'
    OBVIOUS
  <2> USE <1>0 DEF OneThreadOK
  <2>1. CASE UNCHANGED vars
    BY <2>1 DEF vars, icuVars, loopVars, historyVars
  <2>2. CASE IcuStep
    <3>1. at = "switch" => ~StoreAddress
      BY DEF IInv, PipelineOK, CallsOK, StoreAddress
    <3> QED
      BY <2>2, <3>1 DEF IcuStep, SignalInterrupt, CallReturns, ReadArgument, StoreAddress,
         StorePending, StoreSwitch, TriggerReturns, TriggerLeave, icuVars, loopVars,
         historyVars
  <2>3. CASE RunLoop
    <3>1. CASE DispatchVectored
      BY <3>1 DEF DispatchVectored, AtDispatch, icuVars, IInv, PipelineOK, CallsOK
    <3>2. CASE PeripheralFires
      <4>1. mutex' = Dsp /\ at' = "tick"
        BY <3>2 DEF PeripheralFires, Trigger, TriggerEnter
      <4> QED
        BY <4>1
    <3>3. CASE Execute
      BY <3>3 DEF Execute, Instruction, Plain, SetInterruptEnable, WriteMod3, Return,
         WriteIcu, SoftTrigger, Trigger, TriggerEnter, Acknowledge, SetEnable,
         SetEnableVectored, SetVector, SetVectorLow, SetVectorHigh, icuVars
    <3>4. CASE Latch \/ Repeat \/ NoDispatch \/ (\E t \in Line : Dispatch(t))
               \/ SwitchContext \/ EndTick
      BY <3>4 DEF Latch, Repeat, NoDispatch, Dispatch, SwitchContext, BeginTick, EndTick,
         icuVars
    <3> QED
      BY <2>3, <3>1, <3>2, <3>3, <3>4 DEF RunLoop
  <2> QED
    BY <2>1, <2>2, <2>3 DEF Next
<1>3. IntactOK /\ OneThreadOK /\ [Next]_vars =>
        [SwitchContext => vinterrupt_context_switch = intended]_vars
  BY DEF IntactOK, OneThreadOK, SwitchContext
<1> QED
  BY InitIInv, NextIInv, IntactInductive, <1>1, <1>2, <1>3, PTL
     DEF Spec, VectoredCallIntact
=============================================================================
