----------------------------- MODULE Addressing -----------------------------
(***************************************************************************)
(* The address registers r0 to r7 (interpreter.h): an instruction reads    *)
(* through one of them and steps it, possibly in a circular buffer whose   *)
(* last offset is the modulo, or with its bits in reverse order.           *)
(***************************************************************************)
EXTENDS Registers

BitReverse(value) ==
    LET sum[n \in 0 .. WordBits] ==
            IF n = 0 THEN 0 ELSE sum[n - 1] + Bit(value, n - 1) * 2^(WordBits - n)
    IN  sum[WordBits]

\* The low bits that a modulo takes: one less than a power of two.
Mask(n) == (CHOOSE k \in {2^b : b \in 0 .. WordBits} : k > n /\ (k = 1 \/ k \div 2 <= n)) - 1

OfI(unit) == unit < 4
Modulo(g, unit) == IF OfI(unit) THEN g.modi ELSE g.modj
Modular(g, unit, dmod) == g.m[unit] = 1 /\ g.br[unit] = 0 /\ ~dmod

\* The step as a signed number; it is added modulo the word.
PlusStep(g, unit) ==
    LET short == IF OfI(unit) THEN g.stepi ELSE g.stepj
        long  == IF OfI(unit) THEN g.stepi0 ELSE g.stepj0
    IN  IF g.stp16 = 1 /\ g.cmd = 0
        THEN Signed(long, IF g.m[unit] = 1 THEN ModBits ELSE WordBits)
        ELSE IF g.br[unit] = 1 /\ g.m[unit] = 0 THEN Signed(long, WordBits)
        ELSE Signed(short, StepBits)

StepSize(g, unit, step) ==
    CASE step = "zero" -> 0
      [] step = "increase" -> 1
      [] step = "decrease" -> -1
      [] step \in {"increase2mode1", "increase2mode2"} -> 2
      [] step \in {"decrease2mode1", "decrease2mode2"} -> -2
      [] step = "plusstep" -> PlusStep(g, unit)

\* One step in a buffer.  TeakLite, and mode 2 of Teak, compare with the last offset
\* before they step; Teak compares with the one behind it afterwards.
StepTeakLite(address, s, mod, mode2) ==
    LET mask  == Mask(IF s < 0 THEN (IF -s - 1 > mod THEN -s - 1 ELSE mod)
                      ELSE IF s > mod THEN s ELSE mod)
        low   == address % (mask + 1)
        wraps == low = (IF s < 0 THEN 0 ELSE mod) /\ ~(mode2 /\ mod = mask)
        next  == IF ~wraps THEN (low + s) % (mask + 1) ELSE IF s < 0 THEN mod ELSE 0
    IN  address - low + next

StepTeakNoWrap(address, s, mod) ==
    LET mask == Mask(mod)
        low  == address % (mask + 1)
    IN  address - low + ((low + s) % (mask + 1))

StepTeak(address, s, mod) ==
    LET mask == Mask(mod)
        low  == address % (mask + 1)
        up   == (low + s) % (mask + 1)
        down == ((IF low = 0 THEN mod + 1 ELSE low) + s) % (mask + 1)
        next == IF s < 0 THEN down ELSE IF up = (mod + 1) % (mask + 1) THEN 0 ELSE up
    IN  address - low + next

StepAddress(g, unit, address, step, dmod) ==
    LET s      == StepSize(g, unit, step)
        mod    == Modulo(g, unit)
        legacy == g.cmd = 1
        mode1  == ~legacy /\ step \in {"increase2mode1", "decrease2mode1"}
        mode2  == ~legacy /\ step \in {"increase2mode2", "decrease2mode2"}
    IN  IF s = 0 THEN address
        ELSE IF ~Modular(g, unit, dmod) THEN (address + s) % 2^WordBits
        ELSE IF mod = 0 \/ (mod = 1 /\ mode2) THEN address
        ELSE IF legacy \/ mode2 THEN StepTeakLite(address, s, mod, mode2)
        ELSE IF mode1 THEN StepTeak(StepTeak(address, s \div 2, mod), s \div 2, mod)
        ELSE StepTeak(address, s, mod)

\* RnAndModify: the registers after the step, which a unit with epi or epj clears.
RnAndModify(g, unit, step, dmod) ==
    LET clears == (unit = 3 /\ g.epi = 1) \/ (unit = 7 /\ g.epj = 1)
        two    == step \in {"increase2mode1", "decrease2mode1", "increase2mode2", "decrease2mode2"}
    IN  [g EXCEPT !.r[unit] = IF clears /\ ~two THEN 0 ELSE StepAddress(g, unit, @, step, dmod)]

\* The address that is read through a register.
RnAddress(g, unit) ==
    IF g.br[unit] = 1 /\ g.m[unit] = 0 THEN BitReverse(g.r[unit]) ELSE g.r[unit]

\* The second address of an instruction that reads two words; -1 under modulo is
\* not implemented.
Unimplemented == -1
OffsetAddress(g, unit, address, offset, dmod) ==
    LET mod  == Modulo(g, unit)
        mask == IF mod = 0 THEN 1 ELSE Mask(mod)
    IN  CASE offset = 0 -> address
          [] offset = 3 -> (address - 1) % 2^WordBits
          [] offset = 1 -> IF Modular(g, unit, dmod) /\ address % (mask + 1) = mod
                           THEN address - mod ELSE (address + 1) % 2^WordBits
          [] offset = 2 -> IF Modular(g, unit, dmod) THEN Unimplemented
                           ELSE (address - 1) % 2^WordBits

\* modr, and bitrev with the switch of the bit order that some of its forms make.
modr(g, unit, step, dmod) ==
    LET stepped == RnAndModify(g, unit, step, dmod) IN
    [stepped EXCEPT !.fr = Flag(stepped.r[unit] = 0)]

bitrev(g, unit, br) == [g EXCEPT !.r[unit] = BitReverse(@), !.br[unit] = br]
=============================================================================
