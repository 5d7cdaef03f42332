-------------------------------- MODULE Bus --------------------------------
(***************************************************************************)
(* The 16-bit bus between registers, and the instructions that push to and *)
(* pop from the stack (interpreter.h).  A register is <<kind, which>>.     *)
(***************************************************************************)
EXTENDS Algorithms, StatusWords

RegToBus16(g, reg, enable_sat_for_mov) ==
    LET n   == reg[2]
        acc == IF enable_sat_for_mov THEN SatAcc(g, n) ELSE g.acc[n]
    IN  CASE reg[1] = "acc" -> Low(g.acc[n], WordBits)
          [] reg[1] = "low" -> Low(acc, WordBits)
          [] reg[1] = "high" -> Low(Shr(acc, WordBits), WordBits)
          [] reg[1] = "p" -> Low(Shr(ProductToBus40(g, 0), WordBits), WordBits)
          [] reg[1] \in {"r", "x", "y"} -> g[reg[1]][n]
          [] reg[1] = "reg" -> g[n]
          [] reg[1] = "status" -> GetStatus(g, n)

RegFromBus16(g, reg, value) ==
    LET n == reg[2]
    IN  CASE reg[1] = "acc" -> SatAndSetAccAndFlag(g, n, Signed(value, WordBits))
          [] reg[1] = "low" -> SatAndSetAccAndFlag(g, n, value)
          [] reg[1] = "high" -> SatAndSetAccAndFlag(g, n, Signed(value * 2^WordBits, LongBits))
          [] reg[1] = "p" ->
                [g EXCEPT !.p[0] = Low(@, WordBits) + value * 2^WordBits,
                          !.pe[0] = Bit(value, WordBits - 1)]
          [] reg[1] \in {"r", "x", "y"} -> [g EXCEPT ![reg[1]][n] = value]
          [] reg[1] = "reg" -> [g EXCEPT ![n] = value]
          [] reg[1] = "status" -> SetStatus(g, value)

\* load_stepi and the like set one field; load_ps01 sets both shifters.
load_field(g, field, value) ==
    CASE field = "ps0" -> [g EXCEPT !.ps[0] = value]
      [] field = "ps01" -> [g EXCEPT !.ps = [k \in 0 .. 1 |-> (value \div 4^k) % 4]]
      [] OTHER -> [g EXCEPT ![field] = value]

Words(value) == <<Low(value, WordBits), Low(Shr(value, WordBits), WordBits)>>

\* What a push writes, first word first, and what it does to the registers.  "two" is
\* pusha, "guard" the extension of an accumulator, "px" a whole product.
Pushed(g, reg) ==
    CASE reg[1] = "two" -> Words(SatAcc(g, reg[2]))
      [] reg[1] = "guard" -> <<Low(Shr(SatAcc(g, reg[2]), LongBits), WordBits)>>
      [] reg[1] = "px" -> Words(ProductToBus40(g, reg[2]))
      [] OTHER -> <<RegToBus16(g, reg, TRUE)>>

AfterPush(g, reg) ==
    IF reg[1] \in {"two", "guard", "low", "high"} THEN AfterSatAcc(g, reg[2]) ELSE g

\* mov from a register to a register; a product goes to an accumulator as a whole.
Moved(g, from, to) ==
    CASE from[1] = "px" -> SatAndSetAccAndFlag(g, to[2], ProductToBus40(g, from[2]))
      [] OTHER -> RegFromBus16(AfterPush(g, from), to, RegToBus16(g, from, TRUE))

WidthOf(reg) == IF reg[1] \in {"two", "px"} THEN 2 ELSE 1

PoppedUnsigned(g, reg, words) ==
    CASE reg[1] = "two" ->
            SetAccAndFlag(g, reg[2], Signed(words[2] * 2^WordBits + words[1], LongBits))
      [] reg[1] = "guard" ->
            SetAccAndFlag(g, reg[2], Low(g.acc[reg[2]], LongBits) + words[1] * 2^LongBits)
      [] reg[1] = "px" -> ProductFromBus32(g, reg[2], words[2] * 2^WordBits + words[1])
      [] OTHER -> RegFromBus16(g, reg, words[1])

\* The registers after a pop of words that were pushed in this order.
Popped(g, reg, words) ==
    CASE reg[1] = "two" ->
            SetAccAndFlag(g, reg[2], Signed(words[2] * 2^WordBits + words[1], LongBits))
      [] reg[1] = "guard" ->
            SetAccAndFlag(g, reg[2],
                Low(g.acc[reg[2]], LongBits) + Signed(words[1], GuardBits) * 2^LongBits)
      [] reg[1] = "px" -> ProductFromBus32(g, reg[2], words[2] * 2^WordBits + words[1])
      [] OTHER -> RegFromBus16(g, reg, words[1])
=============================================================================
