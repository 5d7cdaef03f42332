----------------------------- MODULE ApbpTheorems -----------------------------
(***************************************************************************)
(* The APBP, for any channels, words and bits.  A data channel used by     *)
(* polling implements the mailbox, alone and with the semaphore of its     *)
(* direction in use beside it; the master signal misses no bit until the   *)
(* mask is written, and says too much only when a handler has cleared.     *)
(***************************************************************************)
EXTENDS ApbpDirection, TLAPS

-----------------------------------------------------------------------------
(***************************************************************************)
(* The polled channels                                                     *)
(***************************************************************************)
Inv == PollingTypeOK /\ FoundStaysTrue

\* Nothing is found before the first step.
LEMMA PollingInitInv == PollingInit => Inv
<1> SUFFICES ASSUME PollingInit PROVE Inv
  OBVIOUS
<1> USE PollingAssumption, ApbpAssumption DEF PollingInit, ApbpInit
<1>1. ApbpTypeOK
  BY DEF ApbpTypeOK
<1>2. <<>> \in Seq(Word)
  OBVIOUS
<1>3. sent \in [Channel -> Seq(Word)] /\ received \in [Channel -> Seq(Word)]
  BY <1>2
<1>4. QED
  BY <1>1, <1>3 DEF Inv, PollingTypeOK, FoundStaysTrue

\* What one side found survives every step of the other side.
LEMMA PollingNextInv == Inv /\ [PollingNext \/ PollingReset]_pollingVars => Inv'
<1> SUFFICES ASSUME Inv, [PollingNext \/ PollingReset]_pollingVars PROVE Inv'
  OBVIOUS
<1> USE PollingAssumption, ApbpAssumption
    DEF Inv, PollingTypeOK, ApbpTypeOK, FoundStaysTrue
<1>1. ASSUME NEW c \in Channel, FindEmpty(c) PROVE Inv'
  BY <1>1 DEF FindEmpty, IsReady, apbpVars, channelVars, semaphoreVars
<1>2. ASSUME NEW c \in Channel, NEW word \in Word, SendData(c, word) PROVE Inv'
  BY <1>2 DEF SendData, Send, semaphoreVars
<1>3. ASSUME NEW c \in Channel, FindReady(c) PROVE Inv'
  BY <1>3 DEF FindReady, IsReady, apbpVars, channelVars, semaphoreVars
<1>4. ASSUME NEW c \in Channel, RecvData(c) PROVE Inv'
  BY <1>4 DEF RecvData, Recv, semaphoreVars
<1>5. CASE Notify
  BY <1>5 DEF Notify, CallHandler, semaphoreVars
<1>6. CASE SetInterrupt
  BY <1>6 DEF SetInterrupt, SetDisableInterrupt, semaphoreVars
<1>7. CASE UNCHANGED pollingVars
  BY <1>7 DEF pollingVars, apbpVars, channelVars, semaphoreVars
<1>8. CASE PollingReset
  <2>1. ApbpTypeOK'
    BY <1>8 DEF PollingReset, Reset
  <2>2. <<>> \in Seq(Word)
    OBVIOUS
  <2>3. sent' \in [Channel -> Seq(Word)] /\ received' \in [Channel -> Seq(Word)]
    BY <1>8, <2>2 DEF PollingReset, StartOver
  <2>4. QED
    BY <1>8, <2>1, <2>3 DEF PollingReset, StartOver
<1>9. QED
  BY <1>1, <1>2, <1>3, <1>4, <1>5, <1>6, <1>7, <1>8 DEF PollingNext, ReceiverStep

\* Between looking and acting, what one side of a channel found stays true.
THEOREM PollingFoundStaysTrue == PollingSpec => []FoundStaysTrue
<1>1. Inv => FoundStaysTrue
  BY DEF Inv
<1>2. QED
  BY PollingInitInv, PollingNextInv, <1>1, PTL DEF PollingSpec, PollingSafety

-----------------------------------------------------------------------------
\* An empty channel is an empty box: no word is Empty.
LEMMA EmptyChannels == PollingInit => M!MailboxInit
  BY DEF PollingInit, ApbpInit, M!MailboxInit

\* SendData is Put, RecvData is Get and a reset empties all; nothing else touches
\* the boxes.
LEMMA MailboxSteps ==
    Inv /\ [PollingNext \/ PollingReset]_pollingVars => [M!MailboxNext]_(M!mailboxVars)
<1> SUFFICES ASSUME Inv, [PollingNext \/ PollingReset]_pollingVars
             PROVE  [M!MailboxNext]_(M!mailboxVars)
  OBVIOUS
<1> USE PollingAssumption DEF Inv, PollingTypeOK, ApbpTypeOK, M!mailboxVars
<1>1. ASSUME NEW c \in Channel, FindEmpty(c) \/ FindReady(c) PROVE UNCHANGED M!mailboxVars
  BY <1>1 DEF FindEmpty, FindReady, apbpVars, channelVars
<1>2. ASSUME NEW c \in Channel, NEW word \in Word, SendData(c, word)
      PROVE  M!Put(c, word)
  <2>1. sending = c /\ ~ready[c] /\ c # Nothing
    BY <1>2 DEF SendData, FoundStaysTrue
  <2>2. QED
    BY <1>2, <2>1 DEF SendData, Send, M!Put
<1>3. ASSUME NEW c \in Channel, RecvData(c) PROVE M!Get(c)
  <2>1. ready[c]
    BY <1>3 DEF RecvData, FoundStaysTrue
  <2>2. QED
    BY <1>3, <2>1 DEF RecvData, Recv, M!Get
<1>4. CASE Notify \/ SetInterrupt
  BY <1>4 DEF Notify, CallHandler, SetInterrupt, SetDisableInterrupt
<1>5. CASE UNCHANGED pollingVars
  BY <1>5 DEF pollingVars, apbpVars, channelVars
<1>6. CASE PollingReset
  <2>1. M!EmptyAll
    BY <1>6 DEF PollingReset, Reset, StartOver, M!EmptyAll
  <2>2. QED
    BY <2>1 DEF M!MailboxNext
<1>7. QED
  BY <1>1, <1>2, <1>3, <1>4, <1>5, <1>6 DEF PollingNext, ReceiverStep, M!MailboxNext

\* Words are received once each, unchanged and in the order they were sent.
THEOREM PollingImplementsMailbox == PollingSpec => M!MailboxSafety
<1>1. QED
  BY PollingInitInv, PollingNextInv, EmptyChannels, MailboxSteps, PTL
     DEF PollingSpec, PollingSafety, M!MailboxSafety

-----------------------------------------------------------------------------
(***************************************************************************)
(* The semaphore, and a whole direction                                    *)
(***************************************************************************)
\* Inside SetSemaphore the local variable covers the bits as they are at the end, for
\* a handler only clears them; it is their signal, and the old signal no more than it,
\* as long as no handler has cleared.
SignalInv ==
    /\ semaphore_master_signal \in BOOLEAN
    /\ new_signal \in BOOLEAN
    /\ stale \in BOOLEAN /\ overtaken \in BOOLEAN
    /\ SignalExact
    /\ setting = "handler" => new_signal
    /\ setting # "idle" /\ ~stale =>
            /\ S => new_signal
            /\ new_signal \/ semaphore_master_signal => S \/ overtaken

DirectionInv == Inv /\ SignalInv

\* No bits and no signal.
LEMMA SignalInit == SemInit => SignalInv
BY DEF SemInit, ApbpInit, SignalInv, SignalExact, S, Signal

\* More bits never take a signal away.
LEMMA SignalGrows ==
    ASSUME NEW old, NEW bits, NEW mask, Signal(old, mask)
    PROVE  Signal(old \cup bits, mask)
<1>1. PICK b \in old : b \notin mask
  BY DEF Signal
<1>2. b \in (old \cup bits) \ mask
  BY <1>1
<1>3. QED
  BY <1>2 DEF Signal

\* Every operation of the semaphore keeps it, by either side and inside the handler.
LEMMA SignalStep == SignalInv /\ SemNext => SignalInv'
<1> SUFFICES ASSUME SignalInv, SemNext PROVE SignalInv'
  OBVIOUS
<1> USE DEF SignalInv, SignalExact
<1>1. ASSUME NEW bits \in SUBSET Bit, SetSemaphore(bits), UNCHANGED <<stale, overtaken>>
      PROVE  SignalInv'
  <2>1. /\ setting = "idle" /\ setting' # "idle"
        /\ semaphore_mask' = semaphore_mask
        /\ semaphore_master_signal' = semaphore_master_signal
        /\ semaphore' = semaphore \cup bits
    BY <1>1 DEF SetSemaphore, SenderIdle
  <2>2. /\ new_signal' = S' /\ new_signal' \in BOOLEAN
        /\ setting' = "handler" => new_signal'
    BY <1>1, <2>1 DEF SetSemaphore, S, Signal
  <2>3. S => S'
    BY <2>1, SignalGrows DEF S
  <2>4. QED
    BY <1>1, <2>1, <2>2, <2>3
<1>2. CASE HandlerReturns /\ UNCHANGED <<stale, overtaken>>
  BY <1>2 DEF HandlerReturns, S
<1>3. CASE UpdateSignal /\ UNCHANGED <<stale, overtaken>>
  <2>1. S' = S
    BY <1>3 DEF UpdateSignal, S
  <2>2. semaphore_master_signal' \in BOOLEAN /\ new_signal' \in BOOLEAN
    BY <1>3 DEF UpdateSignal
  <2>3. ~stale => /\ S => semaphore_master_signal'
                  /\ semaphore_master_signal' => S \/ overtaken
    BY <1>3 DEF UpdateSignal
  <2>4. QED
    BY <1>3, <2>1, <2>2, <2>3 DEF UpdateSignal
<1>4. ASSUME NEW bits \in SUBSET Bit, ClearSemaphore(bits), SemaphoreFree \/ InHandler,
             stale' = FALSE, overtaken' = InHandler
      PROVE  SignalInv'
  <2>1. semaphore_master_signal' = S' /\ S' \in BOOLEAN
    BY <1>4 DEF ClearSemaphore, S, Signal
  <2>2. setting' = setting /\ new_signal' = new_signal /\ overtaken' \in BOOLEAN
    BY <1>4 DEF ClearSemaphore, InHandler
  <2>3. QED
    BY <1>4, <2>1, <2>2 DEF SemaphoreFree, InHandler
<1>5. ASSUME NEW bits \in SUBSET Bit, MaskSemaphore(bits), stale' = TRUE,
             UNCHANGED overtaken
      PROVE  SignalInv'
  BY <1>5 DEF MaskSemaphore
<1>6. CASE ClearBits
  <2>1. SemaphoreFree /\ InHandler = FALSE
    BY <1>6 DEF ClearBits, SemaphoreFree, InHandler
  <2>2. QED
    BY <1>4, <1>6, <2>1 DEF ClearBits
<1>7. CASE HandlerClears
  <2>1. InHandler /\ InHandler = TRUE
    BY <1>7 DEF HandlerClears, InHandler
  <2>2. QED
    BY <1>4, <1>7, <2>1 DEF HandlerClears
<1>8. QED
  BY <1>1, <1>2, <1>3, <1>5, <1>6, <1>7 DEF SemNext, SetBits, Finish, WriteMask,
     HandlerMasks

\* No operation of a channel touches the semaphore.
LEMMA ChannelsLeaveSemaphore == PollingNext => UNCHANGED semaphoreVars
BY DEF PollingNext, ReceiverStep, FindEmpty, SendData, Send, FindReady, RecvData, Recv,
       Notify, CallHandler, SetInterrupt, SetDisableInterrupt, apbpVars

\* Nor does an operation of the semaphore touch a channel.
LEMMA SemaphoreLeavesChannels == SemNext => UNCHANGED channelVars
BY DEF SemNext, SetBits, SetSemaphore, Finish, HandlerReturns, UpdateSignal, ClearBits,
       ClearSemaphore, WriteMask, MaskSemaphore, HandlerClears, HandlerMasks

\* What was found of the channels and what the signal says survive every step.
LEMMA DirectionStep ==
    DirectionInv /\ [DirectionNext]_directionVars => DirectionInv'
<1> SUFFICES ASSUME DirectionInv, [DirectionNext]_directionVars PROVE DirectionInv'
  OBVIOUS
<1> USE DEF DirectionInv
<1>1. CASE PollingNext /\ UNCHANGED <<stale, overtaken>>
  <2>1. Inv'
    BY <1>1, PollingNextInv
  <2>2. SignalInv'
    BY <1>1, ChannelsLeaveSemaphore DEF semaphoreVars, SignalInv, SignalExact, S
  <2>3. QED
    BY <2>1, <2>2
<1>2. CASE SemNext /\ UNCHANGED <<sending, receiving, sent, received>>
  <2>1. SignalInv'
    BY <1>2, SignalStep
  <2>2. UNCHANGED channelVars
    BY <1>2, SemaphoreLeavesChannels
  <2>3. /\ semaphore' \subseteq Bit /\ semaphore_mask' \subseteq Bit
        /\ setting' \in {"idle", "handler", "update"}
    BY <1>2 DEF Inv, PollingTypeOK, ApbpTypeOK, SemNext, SetBits, SetSemaphore, Finish,
                HandlerReturns, UpdateSignal, ClearBits, ClearSemaphore, WriteMask,
                MaskSemaphore, HandlerClears, HandlerMasks
  <2>4. ApbpTypeOK'
    BY <2>1, <2>2, <2>3 DEF Inv, PollingTypeOK, ApbpTypeOK, channelVars, SignalInv
  <2>5. QED
    BY <1>2, <2>1, <2>2, <2>4 DEF Inv, PollingTypeOK, FoundStaysTrue, channelVars
<1>3. CASE UNCHANGED directionVars
  <2>1. Inv'
    BY <1>3, PollingNextInv DEF directionVars
  <2>2. SignalInv'
    BY <1>3 DEF directionVars, pollingVars, apbpVars, semaphoreVars, SignalInv,
                SignalExact, S
  <2>3. QED
    BY <2>1, <2>2
<1>4. CASE PollingReset /\ ForgetHistory
  <2>1. Inv'
    BY <1>4, PollingNextInv
  <2>2. SignalInv'
    BY <1>4 DEF PollingReset, Reset, SenderIdle, ForgetHistory, SignalInv, SignalExact, S,
                Signal
  <2>3. QED
    BY <2>1, <2>2
<1>5. QED
  BY <1>1, <1>2, <1>3, <1>4 DEF DirectionNext

\* It holds at the start.
LEMMA DirectionInitInv == DirectionInit => DirectionInv
BY PollingInitInv, SignalInit DEF DirectionInit, DirectionInv

\* Between calls of the sender the master signal misses no unmasked bit, if the mask was
\* not written since the last clear, and shows one that is not there only after a handler
\* has cleared inside SetSemaphore, whatever the channels do.
THEOREM DirectionSignalExact == DirectionSpec => []SignalExact
<1>1. DirectionInv => SignalExact
  BY DEF DirectionInv, SignalInv
<1>2. QED
  BY DirectionInitInv, DirectionStep, <1>1, PTL DEF DirectionSpec

\* The types of all variables of a direction.
THEOREM DirectionTypeOK == DirectionSpec => []PollingTypeOK
<1>1. DirectionInv => PollingTypeOK
  BY DEF DirectionInv, Inv
<1>2. QED
  BY DirectionInitInv, DirectionStep, <1>1, PTL DEF DirectionSpec

\* What one side found of a channel stays true, with the semaphore in use.
THEOREM DirectionFoundStaysTrue == DirectionSpec => []FoundStaysTrue
<1>1. DirectionInv => FoundStaysTrue
  BY DEF DirectionInv, Inv
<1>2. QED
  BY DirectionInitInv, DirectionStep, <1>1, PTL DEF DirectionSpec

-----------------------------------------------------------------------------
\* A step of the semaphore is invisible in the mailboxes.
LEMMA DirectionMailboxSteps ==
    DirectionInv /\ [DirectionNext]_directionVars => [M!MailboxNext]_(M!mailboxVars)
<1> SUFFICES ASSUME DirectionInv, [DirectionNext]_directionVars
             PROVE  [M!MailboxNext]_(M!mailboxVars)
  OBVIOUS
<1>1. CASE PollingNext /\ UNCHANGED <<stale, overtaken>>
  BY <1>1, MailboxSteps DEF DirectionInv
<1>2. CASE SemNext /\ UNCHANGED <<sending, receiving, sent, received>>
  BY <1>2, SemaphoreLeavesChannels DEF channelVars, M!mailboxVars
<1>3. CASE UNCHANGED directionVars
  BY <1>3 DEF directionVars, pollingVars, apbpVars, channelVars, M!mailboxVars
<1>4. CASE PollingReset /\ ForgetHistory
  BY <1>4, MailboxSteps DEF DirectionInv
<1>5. QED
  BY <1>1, <1>2, <1>3, <1>4 DEF DirectionNext

\* Words are received once each, unchanged and in order, with the semaphore in use.
THEOREM DirectionImplementsMailbox == DirectionSpec => M!MailboxSafety
<1>1. DirectionInit => M!MailboxInit
  BY EmptyChannels DEF DirectionInit
<1>2. QED
  BY DirectionInitInv, DirectionStep, DirectionMailboxSteps, <1>1, PTL
     DEF DirectionSpec, M!MailboxSafety
=============================================================================
