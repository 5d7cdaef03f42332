----------------------------- MODULE Arithmetic -----------------------------
(***************************************************************************)
(* What the instructions of the computation unit do to the registers       *)
(* (interpreter.h): sums, products, shifts, logic, division steps,         *)
(* normalisation, minimum and maximum, codebook search.  Operands that the *)
(* code reads from memory are parameters here.                             *)
(***************************************************************************)
EXTENDS Multiplier

AddSubOverflowFromB(g, a, b, sub) ==
    LET exact == IF sub THEN a - b ELSE a + b
        value == Signed(exact, AccBits)
        carry == IF sub THEN Low(a, AccBits) < Low(b, AccBits)
                 ELSE Low(a, AccBits) + Low(b, AccBits) >= 2^AccBits
        over  == ((a < 0) = (b < 0)) /\ ((value < 0) # (a < 0))
    IN  [value |-> value,
         regs  |-> [g EXCEPT !.fc0 = Flag(carry), !.fv = Flag(over),
                             !.fvl = IF over THEN 1 ELSE @]]

\* The sum of two 40-bit values, wrapped, and the registers with carry and overflow.
AddSub(g, a, b, sub) ==
    LET exact == IF sub THEN a - b ELSE a + b
        value == Signed(exact, AccBits)
        carry == IF sub THEN Low(a, AccBits) < Low(b, AccBits)
                 ELSE Low(a, AccBits) + Low(b, AccBits) >= 2^AccBits
        over  == ((a < 0) = (IF sub THEN b >= 0 ELSE b < 0)) /\ ((value < 0) # (a < 0))
    IN  [value |-> value,
         regs  |-> [g EXCEPT !.fc0 = Flag(carry), !.fv = Flag(over),
                             !.fvl = IF over THEN 1 ELSE @]]

\* A sum that goes to an accumulator.
SumTo(g, name, a, b, sub) ==
    LET sum == AddSub(g, a, b, sub) IN SatAndSetAccAndFlag(sum.regs, name, sum.value)

Rounding == 2^(WordBits - 1)        \* 0x8000

SumBase(g, base, name) ==
    CASE base = "zero" -> 0
      [] base = "acc" -> g.acc[name]
      [] base = "sv" -> Signed(g.sv * 2^WordBits, LongBits)
      [] base = "svrnd" -> Signed(g.sv * 2^WordBits, LongBits) + Rounding

ProductSumTakesLast(g, base, name, sub, align) ==
    LET first == AddSub(g, SumBase(g, base, name), Aligned(ProductToBus40(g, 0), align[1]), sub[1])
        sum   == AddSub(first.regs, first.value, Aligned(ProductToBus40(g, 1), align[2]), sub[2])
    IN  SatAndSetAccAndFlag(sum.regs, name, sum.value)

\* Both products at once: two additions, whose flags are joined.
ProductSum(g, base, name, sub, align) ==
    LET first == AddSub(g, SumBase(g, base, name), Aligned(ProductToBus40(g, 0), align[1]), sub[1])
        last  == AddSub(first.regs, first.value, Aligned(ProductToBus40(g, 1), align[2]), sub[2])
        Join(a, b) == IF sub[1] = sub[2] THEN Flag(a = 1 \/ b = 1) ELSE Flag(a # b)
        regs  == [last.regs EXCEPT !.fc0 = Join(first.regs.fc0, @), !.fv = Join(first.regs.fv, @)]
    IN  SatAndSetAccAndFlag(regs, name, last.value)

\* Bit n of Op(a, b), for two's complement a and b.
Bitwise(a, b, Op(_, _)) ==
    LET sum[n \in 0 .. AccBits] ==
            IF n = 0 THEN 0 ELSE sum[n - 1] + 2^(n - 1) * Op(Bit(a, n - 1), Bit(b, n - 1))
    IN  Signed(sum[AccBits], AccBits)
Or(a, b)  == Bitwise(a, b, LAMBDA u, v : IF u = 1 \/ v = 1 THEN 1 ELSE 0)
And(a, b) == Bitwise(a, b, LAMBDA u, v : u * v)
Xor(a, b) == Bitwise(a, b, LAMBDA u, v : (u + v) % 2)

\* and and or of two accumulators.
logic(g, op, a, b, c) ==
    SetAccAndFlag(g, c, IF op = "and" THEN And(g.acc[a], g.acc[b]) ELSE Or(g.acc[a], g.acc[b]))

tstb(g, word, bit) == [g EXCEPT !.fz = Bit(word, bit)]

Subtracts == {"cmp", "cmpu", "sub", "subl", "subh"}
Adds      == {"add", "addl", "addh"}

\* alm and alu: the operand on the bus, and the operation on accumulator name.
ExtendOperandForAlm(op, a) ==
    CASE op \in {"cmp", "sub", "add"} -> Signed(a, WordBits)
      [] op \in {"addh", "subh"} -> Signed(a * 2^WordBits, LongBits)
      [] OTHER -> a

Square(g, a) ==
    DoMultiplication([g EXCEPT !.x[0] = Low(a, WordBits), !.y[0] = Low(a, WordBits)], 0, TRUE, TRUE)

AlmGeneric(g, op, a, name) ==
    LET value == g.acc[name]
        low   == Low(value, WordBits)
    IN  CASE op = "or" -> SetAccAndFlag(g, name, Or(value, a))
          [] op = "and" -> SetAccAndFlag(g, name, And(value, a))
          [] op = "xor" -> SetAccAndFlag(g, name, Xor(value, a))
          [] op = "tst0" -> [g EXCEPT !.fz = Flag(And(low, a) = 0)]
          [] op = "tst1" -> [g EXCEPT !.fz = Flag(And(low, -1 - a) = 0)]
          [] op \in {"cmp", "cmpu"} ->
                LET sum == AddSub(g, value, a, TRUE) IN SetAccFlag(sum.regs, sum.value)
          [] op \in {"sub", "subl", "subh"} \cup Adds -> SumTo(g, name, value, a, op \in Subtracts)
          [] op = "msu" ->
                DoMultiplication([SumTo(g, name, value, ProductToBus40(g, 0), TRUE)
                                    EXCEPT !.x[0] = Low(a, WordBits)], 0, TRUE, TRUE)
          [] op = "sqra" -> Square(SumTo(g, name, value, ProductToBus40(g, 0), FALSE), a)
          [] op = "sqr" -> Square(g, a)

\* Multiplication with accumulation of the product before it.
MulGeneric(g, op, name) ==
    LET product == Aligned(ProductToBus40(g, 0), op \in {"maa", "maasu"})
        added   == IF op \in {"mpy", "mpysu"} THEN g ELSE SumTo(g, name, g.acc[name], product, FALSE)
    IN  DoMultiplication(added, 0, op \in {"mpy", "mac", "maa", "macus"},
                         op \in {"mpy", "mac", "maa", "mpysu", "macsu", "maasu"})

\* alb: word arithmetic on a register; the result, and the registers with flags.
GenericAlb(g, op, a, b) ==
    LET signed(w) == Signed(w, WordBits)
        exact  == IF op = "addv" THEN b + a ELSE b - a
        sum    == IF op = "addv" THEN signed(b) + signed(a) ELSE signed(b) - signed(a)
        Result(value, regs) == [value |-> value, regs |-> [regs EXCEPT !.fz = Flag(value = 0)]]
        Logic(value) ==
            LET w == Low(value, WordBits) IN Result(w, [g EXCEPT !.fm = Bit(w, WordBits - 1)])
    IN  CASE op = "set" -> Logic(Or(a, b))
          [] op = "rst" -> Logic(And(-1 - a, b))
          [] op = "chng" -> Logic(Xor(a, b))
          [] op = "tst0" -> Result(Flag(And(a, b) # 0), g)
          [] op = "tst1" -> Result(Flag(And(a, -1 - b) # 0), g)
          [] op \in {"addv", "subv", "cmpv"} ->
                Result(Low(exact, WordBits),
                       [g EXCEPT !.fc0 = Flag(exact \notin Word), !.fm = Flag(sum < 0)])

-----------------------------------------------------------------------------
\* A shift by the signed number sv, to the left if it is positive: arithmetic, with
\* saturation by the original sign, or logic.
ShiftBus40(g, value, sv, dest) ==
    LET bits  == Low(value, AccBits)
        arith == g.s = 0
        over  == IF sv < 0 THEN FALSE
                 ELSE IF sv >= AccBits THEN value # 0 ELSE value # Signed(value, AccBits - sv)
        carry == IF sv >= AccBits THEN 0
                 ELSE IF sv >= 0 THEN Bit(bits * 2^sv, AccBits)
                 ELSE IF -sv >= AccBits THEN Flag(arith /\ value < 0)
                 ELSE Bit(bits, -sv - 1)
        shifted == IF sv >= AccBits THEN 0
                   ELSE IF sv >= 0 THEN Signed(bits * 2^sv, AccBits)
                   ELSE IF -sv >= AccBits THEN (IF arith /\ value < 0 THEN -1 ELSE 0)
                   ELSE Shr(IF arith THEN value ELSE bits, -sv)
        flagged == SetAccFlag([g EXCEPT !.fc0 = carry,
                                        !.fv  = IF arith THEN Flag(over) ELSE @,
                                        !.fvl = IF arith /\ over THEN 1 ELSE @], shifted)
    IN  IF arith /\ g.sata = 0 /\ (flagged.fv = 1 \/ shifted # Signed(shifted, LongBits))
        THEN SetAcc([flagged EXCEPT !.flm = 1], dest,
                    IF value < 0 THEN -(2^(LongBits - 1)) ELSE 2^(LongBits - 1) - 1)
        ELSE SetAcc(flagged, dest, shifted)

\* The operations on one accumulator.
Moda(g, op, name) ==
    LET value == g.acc[name] IN
    CASE op = "shr" -> ShiftBus40(g, value, -1, name)
      [] op = "shr4" -> ShiftBus40(g, value, -4, name)
      [] op = "shl" -> ShiftBus40(g, value, 1, name)
      [] op = "shl4" -> ShiftBus40(g, value, 4, name)
      [] op = "ror" -> SetAccAndFlag([g EXCEPT !.fc0 = Low(value, 1)], name,
                            Signed(Shr(Low(value, AccBits), 1) + g.fc0 * 2^(AccBits - 1), AccBits))
      [] op = "rol" -> SetAccAndFlag([g EXCEPT !.fc0 = Bit(value, AccBits - 1)], name,
                            Signed(2 * value + g.fc0, AccBits))
      [] op = "clr" -> SatAndSetAccAndFlag(g, name, 0)
      [] op = "not" -> SetAccAndFlag(g, name, -1 - value)
      [] op = "neg" ->
            LET over == value = -(2^(AccBits - 1)) IN
            SatAndSetAccAndFlag([g EXCEPT !.fc0 = Flag(value # 0), !.fv = Flag(over),
                                          !.fvl = IF over THEN 1 ELSE @],
                                name, Signed(-value, AccBits))
      [] op = "rnd" -> SumTo(g, name, value, Rounding, FALSE)
      [] op = "pacr" -> SumTo(g, name, ProductToBus40(g, 0), Rounding, FALSE)
      [] op = "clrr" -> SatAndSetAccAndFlag(g, name, Rounding)
      [] op = "inc" -> SumTo(g, name, value, 1, FALSE)
      [] op = "dec" -> SumTo(g, name, value, 1, TRUE)
      [] op = "copy" -> SatAndSetAccAndFlag(g, name, g.acc[IF name = "a0" THEN "a1" ELSE "a0"])

\* movr: an accumulator or a product is rounded as it is, a word as an unsigned number
\* of its own width, whose overflow only the carry shows.
RoundWord(g, w, name) ==
    SatAndSetAccAndFlag([g EXCEPT !.fc0 = Flag(w + Rounding \notin Word), !.fv = 0],
                        name, Low(w + Rounding, WordBits))

\* cmp of two accumulators: b is compared with a.
cmp(g, a, b) == LET sum == AddSub(g, g.acc[b], g.acc[a], TRUE) IN SetAccFlag(sum.regs, sum.value)

\* The products of before are added, then the next ones are those of a long number's
\* square: high by high, and low by high.
sqr_mpysu_add3a(g, a, b) ==
    LET high   == Low(Shr(g.acc[a], WordBits), WordBits)
        summed == ProductSum(g, "acc", b, <<FALSE, FALSE>>, <<FALSE, TRUE>>)
        loaded == [summed EXCEPT !.x = [k \in 0 .. 1 |-> IF k = 0 THEN high ELSE Low(g.acc[a], WordBits)],
                                 !.y = [k \in 0 .. 1 |-> high]]
    IN  DoMultiplication(DoMultiplication(loaded, 0, TRUE, TRUE), 1, FALSE, TRUE)

\* pacr1 and mov_p1_to: the second product to an accumulator, rounded or not.
pacr1(g, name) == SumTo(g, name, ProductToBus40(g, 1), Rounding, FALSE)
mov_p1_to(g, name) == SatAndSetAccAndFlag(g, name, ProductToBus40(g, 1))

\* The factor of the second multiplier moves on to the first, whose product is added.
mac_x1to0(g, name) ==
    DoMultiplication([SumTo(g, name, g.acc[name], ProductToBus40(g, 0), FALSE)
                        EXCEPT !.x[0] = g.x[1]], 0, TRUE, TRUE)

\* clr and clrr of two accumulators, where not every pair can be asked for.
FilterDoubleClr(a, b) ==
    CASE a = "b0" -> "b1"
      [] a = "b1" -> "b0"
      [] a = "a0" -> IF b = "a0" THEN "a1" ELSE b
      [] a = "a1" -> IF b = "b1" THEN "b1" ELSE "b0"
clr2(g, a, b, value) ==
    SatAndSetAccAndFlag(SatAndSetAccAndFlag(g, a, value), FilterDoubleClr(a, b), value)

\* swap: the moves of accumulators that each kind makes, from their values before.  The
\* flags are those of the last one.
Both(a, b) == <<<<a, b>>, <<b, a>>>>
BothPairs(a, b, c, d) == <<<<a, b>>, <<b, a>>, <<c, d>>, <<d, c>>>>
Chain(a, b, c) == <<<<a, b>>, <<b, c>>>>
SwapType == [
    a0b0 |-> Both("a0", "b0"), a0b1 |-> Both("a0", "b1"),
    a1b0 |-> Both("a1", "b0"), a1b1 |-> Both("a1", "b1"),
    a0b0a1b1 |-> BothPairs("a1", "b1", "a0", "b0"),
    a0b1a1b0 |-> BothPairs("a1", "b0", "a0", "b1"),
    a0b0a1 |-> Chain("a0", "b0", "a1"), a0b1a1 |-> Chain("a0", "b1", "a1"),
    a1b0a0 |-> Chain("a1", "b0", "a0"), a1b1a0 |-> Chain("a1", "b1", "a0"),
    b0a0b1 |-> <<<<"a0", "b1">>, <<"b0", "a0">>>>, b0a1b1 |-> <<<<"a1", "b1">>, <<"b0", "a1">>>>,
    b1a0b0 |-> <<<<"a0", "b0">>, <<"b1", "a0">>>>, b1a1b0 |-> <<<<"a1", "b0">>, <<"b1", "a1">>>>]

swap(g, type) ==
    LET moves == SwapType[type]
        after[n \in 0 .. Len(moves)] ==
            IF n = 0 THEN g
            ELSE SatAndSetAccAndFlag(after[n - 1], moves[n][2], g.acc[moves[n][1]])
    IN  after[Len(moves)]
=============================================================================
