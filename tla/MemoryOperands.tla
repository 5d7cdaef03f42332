--------------------------- MODULE MemoryOperands ---------------------------
(***************************************************************************)
(* Instructions whose operands are words of data memory (interpreter.h),   *)
(* two at once in many of them: a pointer is an address register, its step *)
(* and the offset of a second word beside the first, chosen through the ar *)
(* and arp registers.  m holds the registers and the data memory; an       *)
(* instruction returns both.                                               *)
(***************************************************************************)
EXTENDS Bus

StepValue == <<"zero", "increase", "decrease", "plusstep", "increase2mode1", "decrease2mode1",
               "increase2mode2", "decrease2mode2">>

Pointer(unit, e) == [unit |-> unit, step |-> StepValue[e.step + 1], offset |-> e.offset]
ArPointer(g, rn, step) == Pointer(g.ar[rn].rn, g.ar[step])
ArpPointers(g, rn, stepi, stepj) ==
    <<Pointer(g.arp[rn][1].rn, g.arp[stepi][1]), Pointer(g.arp[rn][2].rn + 4, g.arp[stepj][2])>>

\* The address of the first word and of the second; the registers after the step.
Here(g, p) == RnAddress(g, p.unit)
Beside(g, p, dmod) == OffsetAddress(g, p.unit, Here(g, p), p.offset, dmod)
Past(g, p, dmod) == RnAndModify(g, p.unit, p.step, dmod)
PastBoth(g, ps) == Past(Past(g, ps[1], FALSE), ps[2], FALSE)

Short(w) == Signed(w, WordBits)
High(v) == Low(Shr(v, WordBits), WordBits)
Long(h, l) == Signed(h * 2^WordBits + l, LongBits)

-----------------------------------------------------------------------------
(***************************************************************************)
(* Moves of one word.                                                      *)
(***************************************************************************)
\* MemImm8, MemImm16, MemR7Imm16 and MemR7Imm7s, and a word at an address register.
PlaceOf(g, place) ==
    CASE place.at = "page" -> place.imm + g.page * 2^(WordBits \div 2)
      [] place.at = "absolute" -> place.imm
      [] place.at = "frame" -> Low(place.imm + g.r[7], WordBits)
      [] place.at = "pointer" -> Here(g, place.pointer)
AfterPlace(g, place) == IF place.at = "pointer" THEN Past(g, place.pointer, FALSE) ELSE g

StoreWordOf(m, reg, place) ==
    [regs |-> AfterPlace(AfterPush(m.regs, reg), place),
     data |-> [m.data EXCEPT ![PlaceOf(m.regs, place)] = RegToBus16(m.regs, reg, TRUE)]]
LoadWordTo(m, place, reg) ==
    [m EXCEPT !.regs = RegFromBus16(AfterPlace(@, place), reg, m.data[PlaceOf(@, place)])]

\* Program and data memory are one: a program address that is DataOffset or above is
\* a data word.  m.data is indexed by data addresses, the program memory lies below 0.
DataOffset == 2 * 2^WordBits            \* 0x20000
ProgramIndex(g, address) == address + g.pcmhi * 2^WordBits - DataOffset

\* A word from program to data memory, and back; t is stepped after s.
movp(m, s, t) ==
    LET g == Past(m.regs, s, FALSE) IN
    [regs |-> Past(g, t, FALSE),
     data |-> [m.data EXCEPT ![Here(g, t)] = m.data[ProgramIndex(g, Here(m.regs, s))]]]
movd(m, s, t) ==
    LET g == Past(m.regs, s, FALSE) IN
    [regs |-> Past(g, t, FALSE),
     data |-> [m.data EXCEPT ![ProgramIndex(g, Here(g, t))] = m.data[Here(m.regs, s)]]]

\* A word from the program address in an accumulator, or from its low word and pcmhi.
movp_to(m, name, low, reg) ==
    LET v == m.regs.acc[name]
        index == IF low THEN ProgramIndex(m.regs, Low(v, WordBits))
                 ELSE Low(v, WordBits + 2) - DataOffset
    IN  [m EXCEPT !.regs = RegFromBus16(@, reg, m.data[index])]

-----------------------------------------------------------------------------
(***************************************************************************)
(* Moves of two words.                                                     *)
(***************************************************************************)
StoreBothLowLast(m, p, high, low) ==
    [regs |-> Past(m.regs, p, FALSE),
     data |-> [m.data EXCEPT ![Here(m.regs, p)] = high, ![Beside(m.regs, p, FALSE)] = low]]

\* The order counts if the offset is zero: the high word is what stays.
StoreBoth(m, p, high, low) ==
    [regs |-> Past(m.regs, p, FALSE),
     data |-> [m.data EXCEPT ![Beside(m.regs, p, FALSE)] = low, ![Here(m.regs, p)] = high]]

\* mova, mov2 and mov2s: an accumulator, a product as it is or shifted.
mova(m, from, p) ==
    LET g == m.regs
        v == CASE from[1] = "acc" -> SatAcc(g, from[2])
               [] from[1] = "product" -> g.p[from[2]]
               [] from[1] = "shifted" -> ProductToBus40(g, from[2])
    IN  StoreBoth([m EXCEPT !.regs = IF from[1] = "acc" THEN AfterSatAcc(@, from[2]) ELSE @],
                  p, High(v), Low(v, WordBits))
mova_load(m, p, to) ==
    LET w == Long(m.data[Here(m.regs, p)], m.data[Beside(m.regs, p, FALSE)])
        g == Past(m.regs, p, FALSE)
    IN  [m EXCEPT !.regs = IF to[1] = "acc" THEN SatAndSetAccAndFlag(g, to[2], w)
                           ELSE ProductFromBus32(g, to[2], Low(w, LongBits))]

\* mov2_axh_m_y0_m and mov2_abh_m: the high word of u beside y0 or the high word of v.
mov2_high(m, u, v, p) ==
    StoreBoth(m, p, High(SatAcc(m.regs, u)),
              IF v = "y0" THEN m.regs.y[0] ELSE High(SatAcc(m.regs, v)))

\* Two words at two pointers; the first holds the high one.
mov2_ax(m, name, first, second) ==
    LET g == m.regs
        v == SatAcc(g, name)
    IN  [regs |-> PastBoth(g, <<first, second>>),
         data |-> [m.data EXCEPT ![Here(g, first)] = High(v), ![Here(g, second)] = Low(v, WordBits)]]
mov2_load(m, first, second, name) ==
    LET g == m.regs IN
    [m EXCEPT !.regs = SetAcc(PastBoth(g, <<first, second>>), name,
                              Long(m.data[Here(g, first)], m.data[Here(g, second)]))]

\* The high word goes to one pointer, then a new one comes from the other.
exchange(m, name, from, to, rounded) ==
    LET g    == m.regs
        data == [m.data EXCEPT ![Here(g, to)] = High(SatAcc(g, name))]
    IN  [regs |-> SetAcc(PastBoth(g, <<from, to>>), name,
                         Long(data[Here(g, from)], IF rounded THEN Rounding ELSE 0)),
         data |-> data]

-----------------------------------------------------------------------------
(***************************************************************************)
(* Two sums at once, one in each half of an accumulator.                   *)
(***************************************************************************)
Halves(high, low) == high * 2^WordBits + Low(low, WordBits)
Plus(a, b, sub) == IF sub THEN a - b ELSE a + b

\* add_add, add_sub, sub_add and sub_sub.
add_add(m, ps, name, sub) ==
    LET g == m.regs
        At(k) == m.data[Here(g, ps[k])]
        Next(k) == m.data[Beside(g, ps[k], FALSE)]
    IN  [m EXCEPT !.regs = SetAcc(PastBoth(g, ps), name,
            Halves(Plus(Short(At(2)), Short(At(1)), sub[1]), Plus(Next(2), Next(1), sub[2])))]

\* add_sub_sv, and sub_add_sv for sub.
WithSv(m, p, sub) ==
    Halves(Plus(Short(m.data[Here(m.regs, p)]), Short(m.regs.sv), sub),
           Plus(m.data[Beside(m.regs, p, FALSE)], m.regs.sv, ~sub))
add_sub_sv(m, p, name, sub) ==
    [m EXCEPT !.regs = SetAcc(Past(@, p, FALSE), name, WithSv(m, p, sub))]

\* The same while a word is moved: the low word of the accumulator to q, or the next
\* sv from it.
add_sub_mov(m, p, q, name) ==
    [regs |-> SetAcc(PastBoth(m.regs, <<p, q>>), name, WithSv(m, p, FALSE)),
     data |-> [m.data EXCEPT ![Here(m.regs, q)] = Low(SatAcc(m.regs, name), WordBits)]]
sub_add_mov_sv(m, p, q, name) ==
    [m EXCEPT !.regs = [SetAcc(PastBoth(@, <<p, q>>), name, WithSv(m, p, TRUE))
                            EXCEPT !.sv = m.data[Here(m.regs, q)]]]

-----------------------------------------------------------------------------
(***************************************************************************)
(* Both multipliers: the products of before are summed, then the factors   *)
(* are loaded or exchanged, then they are multiplied.                      *)
(***************************************************************************)
MultiplyBoth(g, signs) ==
    DoMultiplication(DoMultiplication(g, 0, signs[1], signs[2]), 1, signs[3], signs[4])

Exchanged(x) == [k \in 0 .. 1 |-> x[1 - k]]

\* What is loaded from where p, or ps, point to.
LoadFactors(m, load, g) ==
    LET ps == load.ps
        TwoWords(k, dmod) == [w \in 0 .. 1 |-> IF w = 0 THEN m.data[Here(g, ps[k])]
                                              ELSE m.data[Beside(g, ps[k], dmod)]]
        OneWord == m.data[Here(g, ps[1])]
    IN  CASE load.what = "xy" ->
                [Past(Past(g, ps[1], load.dmod[1]), ps[2], load.dmod[2])
                    EXCEPT !.x = TwoWords(1, load.dmod[1]), !.y = TwoWords(2, load.dmod[2])]
          [] load.what = "none" -> [g EXCEPT !.x = Exchanged(@)]
          [] load.what \in {"y0", "y1"} ->
                [Past(g, ps[1], FALSE) EXCEPT !.x = Exchanged(@),
                                              !.y[IF load.what = "y0" THEN 0 ELSE 1] = OneWord]
          [] load.what = "x" -> [Past(g, ps[1], FALSE) EXCEPT !.x = TwoWords(1, FALSE)]

mma(m, load, name, signs, base, subs, aligns) ==
    [m EXCEPT !.regs =
        MultiplyBoth(LoadFactors(m, load, ProductSum(@, base, name, subs, aligns)), signs)]

\* mma_mov: the upper words of two accumulators are stored before they change.
mma_mov(m, u, v, p, name, signs, base, subs, aligns) ==
    mma(StoreBoth(m, p, High(SatAcc(m.regs, u)), High(SatAcc(m.regs, v))),
        [what |-> "none", ps |-> <<>>], name, signs, base, subs, aligns)

sqr_sqr_add3(m, p, name) ==
    LET summed == ProductSum(m.regs, "acc", name, <<FALSE, FALSE>>, <<FALSE, FALSE>>)
        loaded == LoadFactors(m, [what |-> "x", ps |-> <<p>>], summed)
    IN  [m EXCEPT !.regs = MultiplyBoth([loaded EXCEPT !.y = loaded.x], <<TRUE, TRUE, TRUE, TRUE>>)]

addhp(m, p, unit, name) ==
    [m EXCEPT !.regs = SumTo(Past(@, p, FALSE), name, Long(m.data[Here(@, p)], Rounding),
                             ProductToBus40(@, unit), FALSE)]

mac1(m, ps, name) ==
    LET g == m.regs
        summed == SumTo(PastBoth(g, ps), name, g.acc[name], ProductToBus40(g, 1), FALSE)
    IN  [m EXCEPT !.regs =
            DoMultiplication([summed EXCEPT !.x[1] = m.data[Here(g, ps[1])],
                                            !.y[1] = m.data[Here(g, ps[2])]], 1, TRUE, TRUE)]

\* modr_eemod, modr_edmod, modr_demod and modr_ddmod: two steps, with the modulo or not.
modr2(m, ps, dmod) == [m EXCEPT !.regs = Past(Past(@, ps[1], dmod[1]), ps[2], dmod[2])]

\* movr of a word in memory, as the high word of a long number.
movr(m, p, name) ==
    [m EXCEPT !.regs = SumTo(Past(@, p, FALSE), name, Long(m.data[Here(@, p)], 0), Rounding, FALSE)]

\* A bit of a word, chosen by a0, which is shifted to c meanwhile; the shift's own carry
\* goes to fc1 and its other flags are dropped.
tst4b(m, p, c) ==
    LET g == m.regs
        shifted == ShiftBus40(g, g.acc.a0, Short(g.sv), c)
        bit == Bit(m.data[Here(g, p)], g.acc.a0 % WordBits)
    IN  [m EXCEPT !.regs = [Past(shifted, p, FALSE) EXCEPT
            !.fc1 = shifted.fc0, !.fv = g.fv, !.fvl = g.fvl, !.fm = g.fm, !.fn = g.fn, !.fe = g.fe,
            !.fz = bit, !.fc0 = bit]]

mov_sv_app(m, p, name, base, subs, aligns) ==
    [m EXCEPT !.regs = ProductSum([Past(@, p, FALSE) EXCEPT !.sv = m.data[Here(m.regs, p)]],
                                  base, name, subs, aligns)]

\* max2_vtr_movh and the like: a half of the counterpart is stored.
vtr_mov(m, a, b, min, p, high) ==
    LET g == MinMaxVtr(m.regs, a, b, min)
        v == SatAcc(g, CounterAcc[a])
    IN  [regs |-> Past(g, p, FALSE),
         data |-> [m.data EXCEPT ![Here(g, p)] = IF high THEN High(v) ELSE Low(v, WordBits)]]

\* max2_vtr_movij and the like: the high word goes to the first pointer, with ji to the
\* second, which is written last.
vtr_movij(m, a, b, min, ps, ji) ==
    LET g == MinMaxVtr(m.regs, a, b, min)
        v == SatAcc(g, CounterAcc[a])
        At(k) == IF (k = 1) # ji THEN High(v) ELSE Low(v, WordBits)
    IN  [regs |-> PastBoth(g, ps),
         data |-> [m.data EXCEPT ![Here(g, ps[1])] = At(1), ![Here(g, ps[2])] = At(2)]]

cbs(m, ps, cond) ==
    LET g == m.regs IN
    [m EXCEPT !.regs = CodebookSearch(PastBoth(g, ps), m.data[Here(g, ps[1])], m.data[Here(g, ps[2])],
                                      g.r[ps[1].unit], cond)]
=============================================================================
