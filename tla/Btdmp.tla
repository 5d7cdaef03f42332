-------------------------------- MODULE Btdmp --------------------------------
(***************************************************************************)
(* The transmitter of a BTDMP audio port (src/src/btdmp.h, btdmp.cpp) as   *)
(* operators on a record of its members.  Capacity stands for 16 and       *)
(* Period for 4096: transmit_period has no MMIO register, so it keeps the  *)
(* value that Reset gives it.                                              *)
(***************************************************************************)
EXTENDS Integers, Sequences

CONSTANTS
    Capacity, Period,
    Sample,         \* the words of an audio stream
    Silence         \* what is sent when there is none: 0

ASSUME BtdmpAssumption ==
    /\ Capacity \in Nat \ {0}
    /\ Period \in Nat \ {0}
    /\ Silence \in Sample

BtdmpState ==
    [transmit_timer : 0 .. Period - 1, transmit_enable : BOOLEAN,
     transmit_empty : BOOLEAN, transmit_full : BOOLEAN,
     transmit_queue : UNION {[1 .. n -> Sample] : n \in 0 .. Capacity}]

BtdmpReset ==
    [transmit_timer |-> 0, transmit_enable |-> FALSE,
     transmit_empty |-> TRUE, transmit_full |-> FALSE, transmit_queue |-> <<>>]

BtdmpSend(b, word) ==
    IF Len(b.transmit_queue) = Capacity THEN b              \* overrun
    ELSE [b EXCEPT !.transmit_queue = Append(@, word),
                   !.transmit_empty = FALSE,
                   !.transmit_full = Len(b.transmit_queue) + 1 = Capacity]

SetTransmitFlushKeepsFull(b) ==
    [b EXCEPT !.transmit_queue = <<>>, !.transmit_empty = TRUE]

SetTransmitFlush(b) ==
    [b EXCEPT !.transmit_queue = <<>>, !.transmit_empty = TRUE, !.transmit_full = FALSE]

SetTransmitEnable(b, value) == [b EXCEPT !.transmit_enable = value]

-----------------------------------------------------------------------------
\* A transmission takes two words, or what there is of them.
Taken(b) == IF Len(b.transmit_queue) < 2 THEN Len(b.transmit_queue) ELSE 2

Frame(b) ==
    [i \in 1 .. 2 |-> IF i <= Taken(b) THEN b.transmit_queue[i] ELSE Silence]

Rest(b) == SubSeq(b.transmit_queue, Taken(b) + 1, Len(b.transmit_queue))

\* Tick: the words leave, and the flags with them.
Transmit(b) ==
    [b EXCEPT !.transmit_timer = 0,
              !.transmit_queue = Rest(b),
              !.transmit_empty = IF Taken(b) = 0 THEN @ ELSE Rest(b) = <<>>,
              !.transmit_full = IF Taken(b) = 0 THEN @ ELSE FALSE]

TransmitDue(b) == b.transmit_enable /\ b.transmit_timer + 1 >= Period

BtdmpTick(b) ==
    IF ~b.transmit_enable THEN b
    ELSE IF TransmitDue(b) THEN Transmit(b)
    ELSE [b EXCEPT !.transmit_timer = @ + 1]

\* Tick calls the interrupt handler when it takes the last word.
BtdmpFires(b) == TransmitDue(b) /\ Taken(b) > 0 /\ Rest(b) = <<>>

\* What Tick gives to the audio callback.
BtdmpAudio(b) == IF TransmitDue(b) THEN <<Frame(b)>> ELSE <<>>

-----------------------------------------------------------------------------
(***************************************************************************)
(* Skipping: up to the transmission that empties the queue.                *)
(***************************************************************************)
BtdmpMaxSkip(b, infinity) ==
    IF ~b.transmit_enable \/ b.transmit_queue = <<>> THEN infinity
    ELSE (IF b.transmit_timer < Period THEN Period - b.transmit_timer - 1 ELSE 0)
            + ((Len(b.transmit_queue) + 1) \div 2 - 1) * Period

Ahead(b, ticks) ==
    (IF b.transmit_timer >= Period THEN 0 ELSE b.transmit_timer) + ticks

\* One transmission of Skip: the flags it leaves alone, and full goes off.
SkipTransmit(b) ==
    [b EXCEPT !.transmit_queue = Rest(b),
              !.transmit_full = IF Taken(b) = 0 THEN @ ELSE FALSE]

\* The transmitter after so many transmissions, with what it sent.
Transmissions(b, count) ==
    LET After[n \in 0 .. count] ==
            IF n = 0 THEN [left |-> b, sent |-> <<>>]
            ELSE LET before == After[n - 1]
                 IN  [left |-> SkipTransmit(before.left),
                      sent |-> Append(before.sent, Frame(before.left))]
    IN  After[count]

BtdmpSkip(b, ticks) ==
    IF ~b.transmit_enable THEN b
    ELSE [Transmissions(b, Ahead(b, ticks) \div Period).left
            EXCEPT !.transmit_timer = Ahead(b, ticks) % Period]

SkipAudio(b, ticks) ==
    IF ~b.transmit_enable THEN <<>>
    ELSE Transmissions(b, Ahead(b, ticks) \div Period).sent

\* The assertion of Skip: no word is the last one.
BtdmpMaySkip(b, ticks) ==
    b.transmit_enable /\ b.transmit_queue # <<>> =>
        2 * (Ahead(b, ticks) \div Period) < Len(b.transmit_queue)
=============================================================================
