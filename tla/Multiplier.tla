----------------------------- MODULE Multiplier -----------------------------
(***************************************************************************)
(* The two multipliers of the processor (interpreter.h): 33-bit products   *)
(* of signed and unsigned words, and the way a product reaches the 40-bit  *)
(* bus.                                                                    *)
(***************************************************************************)
EXTENDS Registers

\* Half word mode: a multiplier sees one half of y.
Factor(g, unit) ==
    LET y == g.y[unit] IN
    IF g.hwm = 1 \/ (g.hwm = 3 /\ unit = 0) THEN Shr(y, WordBits \div 2)
    ELSE IF g.hwm = 2 \/ (g.hwm = 3 /\ unit = 1) THEN Low(y, WordBits \div 2)
    ELSE y

DoMultiplicationSignsAll(g, unit, x_sign, y_sign) ==
    LET x == IF x_sign THEN Signed(g.x[unit], WordBits) ELSE g.x[unit]
        y == IF y_sign THEN Signed(Factor(g, unit), WordBits) ELSE Factor(g, unit)
        p == Low(x * y, LongBits)
    IN  [g EXCEPT !.p[unit] = p, !.pe[unit] = Bit(p, LongBits - 1)]

\* pe is the sign, which an unsigned product does not have.
DoMultiplication(g, unit, x_sign, y_sign) ==
    LET x == IF x_sign THEN Signed(g.x[unit], WordBits) ELSE g.x[unit]
        y == IF y_sign THEN Signed(Factor(g, unit), WordBits) ELSE Factor(g, unit)
        p == Low(x * y, LongBits)
    IN  [g EXCEPT !.p[unit] = p,
                  !.pe[unit] = IF x_sign \/ y_sign THEN Bit(p, LongBits - 1) ELSE 0]

\* The product, signed, with the shift that ps selects.
ProductToBus40(g, unit) ==
    LET value == Signed(g.p[unit] + g.pe[unit] * 2^LongBits, LongBits + 1)
    IN  CASE g.ps[unit] = 0 -> value
          [] g.ps[unit] = 1 -> Shr(value, 1)
          [] g.ps[unit] = 2 -> 2 * value
          [] g.ps[unit] = 3 -> 4 * value

ProductFromBus32(g, unit, value) ==
    [g EXCEPT !.p[unit] = value, !.pe[unit] = Bit(value, LongBits - 1)]

\* An aligned product is added one word further down.
Aligned(value, align) == IF align THEN Shr(value, WordBits) ELSE value
=============================================================================
