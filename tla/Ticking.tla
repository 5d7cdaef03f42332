------------------------------- MODULE Ticking -------------------------------
(***************************************************************************)
(* What CoreTiming promises: the peripherals see every cycle of the        *)
(* processor as one tick, whether or not the processor has something to do.*)
(***************************************************************************)
EXTENDS Peripherals

CONSTANT MaxTurn        \* bound: how many cycles pass in one step

\* The clock after n ticks from the present state.
After(n) ==
    LET after[m \in 0 .. n] == IF m = 0 THEN Clock ELSE TickAll(after[m - 1])
    IN  after[n]

Cycles == \E n \in 1 .. MaxTurn : elapsed' = n /\ Becomes(After(n))

TickingNext == Mmio \/ Cycles

TickingSpec == PeriphInit /\ [][TickingNext]_periphVars
=============================================================================
