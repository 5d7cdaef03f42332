------------------------------ MODULE Programs ------------------------------
(***************************************************************************)
(* What firmware computes with the instructions: programs with the values  *)
(* they start from, and what they are to have computed when they end.      *)
(***************************************************************************)
EXTENDS Routines, FiniteSets

CONSTANTS
    Junk,           \* what the ar and arp shadows hold before the first Reset
    AccValues,      \* values of accumulators
    EdgeValues,     \* the few of them that programs with many parameters start from
    LongValues,     \* of two words, signed
    WordValues,     \* of a word
    Factors,        \* pairs of words that are multiplied
    Vectors         \* four words each

ASSUME ValuesAssumption ==
    /\ AccValues \subseteq SignedRange(AccBits) /\ EdgeValues \subseteq SignedRange(AccBits)
    /\ LongValues \subseteq SignedRange(LongBits) /\ WordValues \subseteq Word

-----------------------------------------------------------------------------
(***************************************************************************)
(* The routines.                                                           *)
(***************************************************************************)
Fresh == RegisterState(Junk)

Zeroes == [a \in Word |-> 0]

BeginWith(r, g, d, program) ==
    /\ routine = r
    /\ regs = g /\ start = g
    /\ data = d
    /\ todo = program
    /\ stack = <<>>

Begin(r, g, program) == BeginWith(r, g, Zeroes, program)

\* Words in memory from an address on.
Placed(d, address, words) ==
    [a \in DOMAIN d |-> IF a - address + 1 \in DOMAIN words THEN words[a - address + 1] ELSE d[a]]

\* Where the words of the programs are.
Left == 2^(WordBits - 1)
Right == 2^(WordBits - 2)

Times(n, i) == [k \in 1 .. n |-> i]

\* A quotient, one bit at a time.
Divide ==
    \E d \in AccValues, da \in Word :
        /\ d >= 0
        /\ Begin([kind |-> "divide", d |-> d, da |-> da],
                 SetAccAndFlag(Fresh, "a0", d),
                 Times(WordBits, [op |-> "divs", da |-> da, acc |-> "a0"]))

\* Normalisation in one shift, and one bit at a time.
Normalise ==
    \E v \in AccValues :
        \/ Begin([kind |-> "shift"], SetAccAndFlag(Fresh, "a0", v),
                 <<[op |-> "exp", acc |-> "a0"], [op |-> "shfc", from |-> "a0", to |-> "b0"]>>)
        \/ Begin([kind |-> "norm"], SetAccAndFlag(Fresh, "a0", Clip(v)),
                 Times(LongBits, [op |-> "norm", acc |-> "a0"]))

\* A sum of two products, each of them added or subtracted.
SumOfProducts ==
    \E v \in EdgeValues, f1, f2 \in Factors, second \in {"mac", "msu"}, sub \in BOOLEAN,
       sata \in {0, 1}, shift \in 0 .. 3 :
        Begin([kind |-> "products", f |-> <<f1, f2>>, minus |-> <<second = "msu", sub>>,
               shift |-> shift],
              [SetAcc(Fresh, "b0", v) EXCEPT !.sata = sata],
              <<IF sub THEN [op |-> "load_field", field |-> "ps0", value |-> shift]
                ELSE [op |-> "load_field", field |-> "ps01", value |-> shift + 4 * (3 - shift)],
                [op |-> "mul", mul |-> "mpy", x |-> f1.x, y |-> f1.y, acc |-> "b0"],
                [op |-> "mul", mul |-> second, x |-> f2.x, y |-> f2.y, acc |-> "b0"],
                [op |-> "addp", acc |-> "b0", sub |-> sub]>>)

\* The upper half of the product of two long numbers, from the words of both.
LongMultiply ==
    \E u, v \in LongValues :
        LET Step(mul, x, y) == [op |-> "mul", mul |-> mul, x |-> x, y |-> y, acc |-> "a0"]
            ul == Low(u, WordBits)  uh == Low(Shr(u, WordBits), WordBits)
            vl == Low(v, WordBits)  vh == Low(Shr(v, WordBits), WordBits)
        IN  Begin([kind |-> "long", u |-> u, v |-> v], Fresh,
                  <<Step("macuu", ul, vl), Step("maasu", ul, vh), Step("macus", uh, vl),
                    Step("mac", uh, vh), [op |-> "shfi", acc |-> "a0", sv |-> -WordBits],
                    [op |-> "addp", acc |-> "a0", sub |-> FALSE]>>)

\* Two products added at once to one of the bases.
ProductsAtOnce ==
    \E v \in EdgeValues, f1, f2 \in Factors, base \in {"zero", "acc", "sv", "svrnd"},
       subs, aligns \in BOOLEAN \X BOOLEAN, shift \in {0, 3}, loads \in BOOLEAN :
        LET sv == Low(v, WordBits)
            g == [SetAcc(Fresh, "a0", v) EXCEPT
                    !.x = [k \in 0 .. 1 |-> IF k = 0 THEN f1.x ELSE f2.x],
                    !.y = [k \in 0 .. 1 |-> IF k = 0 THEN f1.y ELSE f2.y],
                    !.sv = IF loads THEN 0 ELSE sv, !.r[0] = Left, !.ps = Pair(shift)]
        IN  /\ loads => base \in {"sv", "svrnd"} /\ shift = 0
            /\ BeginWith([kind |-> "app", base |-> base, subs |-> subs, aligns |-> aligns, sv |-> sv],
                  DoMultiplication(DoMultiplication(g, 0, TRUE, TRUE), 1, TRUE, TRUE),
                  Placed(Zeroes, Left, <<sv>>),
                  <<[op |-> IF loads THEN "mov_sv_app" ELSE "app", ar |-> <<0, 0>>, base |-> base,
                     acc |-> "a0", subs |-> subs, aligns |-> aligns]>>)

\* A delay line of three: the middle factor moves on as a new one comes in.
DelayLine ==
    \E v \in EdgeValues, f1, f2 \in Factors, w \in WordValues :
        LET g == [SetAcc(Fresh, "a0", v) EXCEPT
                    !.x = [k \in 0 .. 1 |-> IF k = 0 THEN f1.x ELSE f2.x],
                    !.y = [k \in 0 .. 1 |-> IF k = 0 THEN f1.y ELSE f2.y],
                    !.r[0] = Left, !.r[4] = Right]
            Move == [op |-> "mac_x1to0", acc |-> "a0"]
        IN  BeginWith([kind |-> "delay", w |-> w],
                  DoMultiplication(DoMultiplication(g, 0, TRUE, TRUE), 1, TRUE, TRUE),
                  Placed(Placed(Zeroes, Left, <<w>>), Right, <<f1.x>>),
                  <<Move, [op |-> "mac1", arp |-> <<0, 0, 0>>, acc |-> "a0"], Move,
                    [op |-> "addp", acc |-> "a0", sub |-> FALSE], [op |-> "pacr1", acc |-> "a1"],
                    [op |-> "mov_p1", acc |-> "b1"],
                    [op |-> "movreg", from |-> <<"px", 0>>, to |-> <<"acc", "b0">>]>>)

\* Two accumulators cleared.
ClearTwo ==
    \E a, b \in AccName, v \in EdgeValues, rounds \in BOOLEAN :
        Begin([kind |-> "clear", a |-> a, b |-> b, to |-> IF rounds THEN Rounding ELSE 0],
              [Fresh EXCEPT !.acc = [a0 |-> v, a1 |-> -1 - v, b0 |-> -1 - v, b1 |-> v]],
              <<[op |-> "clr2", a |-> a, b |-> b, rounds |-> rounds]>>)

\* One operation on an accumulator, with registers g.
AlmOnce(g) ==
    \E w \in Word, alm \in Adds \cup {"sub", "subl", "subh"} :
        Begin([kind |-> "alm", alm |-> alm, w |-> w], g,
              <<[op |-> "alm", alm |-> alm, operand |-> w, acc |-> "a0"]>>)
ModaOnce(g) ==
    \E moda \in {"shr", "shr4", "shl", "shl4", "neg", "rnd", "inc", "dec"} :
        Begin([kind |-> "moda", moda |-> moda], g, <<[op |-> "moda", moda |-> moda, acc |-> "a0"]>>)
AddhpOnce(g) ==
    \E w \in WordValues, f \in Factors :
        BeginWith([kind |-> "addhp", w |-> w],
                  DoMultiplication([g EXCEPT !.x[1] = f.x, !.y[1] = f.y, !.r[0] = Left], 1, TRUE, TRUE),
                  Placed(Zeroes, Left, <<w>>),
                  <<[op |-> "addhp", ar |-> <<0, 0>>, unit |-> 1, acc |-> "a0"]>>)
MovOnce(g) == Begin([kind |-> "movacc"], g, <<[op |-> "movacc", from |-> "a0", to |-> "a0"]>>)
LimOnce(g) == Begin([kind |-> "lim"], g, <<[op |-> "lim", acc |-> "a0", to |-> "a0"]>>)

OneOperation ==
    \E v \in AccValues, sata \in {0, 1} :
        LET g == [SetAcc(Fresh, "a0", v) EXCEPT !.sata = sata]
        IN  AlmOnce(g) \/ ModaOnce(g) \/ AddhpOnce(g) \/ MovOnce(g) \/ LimOnce(g)

\* One move of a word or an accumulator with a shift or with rounding.
ShiftOnce(g, w) ==
    \E sv \in SignedRange(WordBits), imm \in BOOLEAN :
        Begin([kind |-> "movs", w |-> w, sv |-> sv],
              [g EXCEPT !.sv = IF imm THEN 0 ELSE Low(sv, WordBits)],
              <<[op |-> "movs", word |-> w, imm |-> imm, sv |-> sv, acc |-> "a0"]>>)
RoundOnce(kind, op, g, w) ==
    BeginWith([kind |-> kind, w |-> w], g, Placed(Zeroes, Left, <<w>>),
              <<[op |-> op, word |-> w, from |-> "a0", ar |-> <<0, 0>>, acc |-> "a0"]>>)

ShiftOrRound ==
    \E w \in WordValues, v \in EdgeValues, sata \in {0, 1} :
        LET g == [SetAcc(Fresh, "a0", v) EXCEPT !.sata = sata, !.r[0] = Left]
        IN  ShiftOnce(g, w) \/ RoundOnce("movr_word", "movr_word", g, w)
            \/ RoundOnce("rounded", "movr_acc", g, w) \/ RoundOnce("movr", "movr", g, w)

\* A sum of squares of long numbers.
LongSquares ==
    \E u \in EdgeValues, v \in LongValues :
        LET Step(a) == [op |-> "sqr_mpysu", a |-> a, b |-> "b0"] IN
        Begin([kind |-> "squares", v |-> v], SetAcc(SetAcc(Fresh, "b0", u), "a0", v),
              <<Step("a0"), Step("a1")>>)

\* A comparison, which a conditional instruction is to follow, of an accumulator with a
\* word or of two words; and a test of a bit of the word at r0.
CompareWith(v, alm, w) ==
    Begin([kind |-> "cmp", alm |-> alm, w |-> w], SetAcc(Fresh, "a0", v),
          <<[op |-> "alm", alm |-> alm, operand |-> w, acc |-> "a0"]>>)
CompareWords(a, b) ==
    Begin([kind |-> "cmpv", a |-> a, b |-> b], Fresh,
          <<[op |-> "alb", alb |-> "cmpv", a |-> a, b |-> b]>>)
TestAtPointer(v, sv, w) ==
    BeginWith([kind |-> "tst4b", w |-> w],
              [SetAccAndFlag(Fresh, "a0", v) EXCEPT !.sv = sv, !.r[0] = Left],
              Placed(Zeroes, Left, <<w>>), <<[op |-> "tst4b", ar |-> <<0, 0>>, acc |-> "a1"]>>)

Compare ==
    \E w \in Word :
        \/ \E v \in AccValues, alm \in {"cmp", "cmpu"} : CompareWith(v, alm, w)
        \/ \E b \in Word : CompareWords(w, b)
        \/ \E v \in EdgeValues, sv \in WordValues : TestAtPointer(v, sv, w)

CompareAccs ==
    \E v, w \in AccValues :
        Begin([kind |-> "cmpa"], SetAcc(SetAcc(Fresh, "a0", v), "b0", w),
              <<[op |-> "cmp", a |-> "a0", b |-> "b0"]>>)

\* A bit of a register.
TestBit ==
    \E w \in Word, bit \in 0 .. WordBits - 1, v \in EdgeValues :
        Begin([kind |-> "tstb", w |-> w, bit |-> bit],
              [SetAccAndFlag(Fresh, "a0", v) EXCEPT !.x[0] = w],
              <<[op |-> "tstb", reg |-> <<"x", 0>>, bit |-> bit]>>)

\* The bits that two accumulators share, and those that one of them has.
AndOr ==
    \E v \in AccValues, w \in EdgeValues :
        LET Step(what, to) == [op |-> "logic", logic |-> what, a |-> "b0", b |-> "b1", to |-> to] IN
        Begin([kind |-> "logic"], SetAcc(SetAcc(Fresh, "b0", v), "b1", w),
              <<Step("and", "a0"), Step("or", "a1")>>)

\* A rotation through carry, once around.
Rotate ==
    \E v \in AccValues, carry \in {0, 1}, moda \in {"rol", "ror"} :
        Begin([kind |-> "rotate"], [SetAcc(Fresh, "a0", v) EXCEPT !.fc0 = carry],
              Times(AccBits + 1, [op |-> "moda", moda |-> moda, acc |-> "a0"]))

\* The greatest or least of the words behind r0.
Search ==
    \E w \in [1 .. 3 -> WordValues], select \in {"max_ge", "max_gt", "min_le", "min_lt"} :
        Begin([kind |-> "search", w |-> w, select |-> select],
              [SetAcc(Fresh, "a0", IF select \in {"max_ge", "max_gt"} THEN -(2^(LongBits - 1))
                                   ELSE 2^(LongBits - 1) - 1) EXCEPT !.r[0] = 2],
              [k \in 1 .. 3 |-> [op |-> "select", select |-> select, word |-> w[k], acc |-> "a0"]])

\* Survivors of a Viterbi decoder: two metrics in each accumulator; those in a1 are
\* stored meanwhile.
Survivors ==
    \E v \in [1 .. 3 -> LongValues], min, both, ji \in BOOLEAN :
        Begin([kind |-> "vtr", v |-> v, min |-> min, both |-> both, ji |-> ji],
              [SetAcc(SetAcc(Fresh, "a0", v[1]), "a1", v[2]) EXCEPT
                    !.r[0] = Left, !.ar[0] = ArEntry(0, 1, 0),
                    !.r[4] = Left - 1, !.arp[0] = <<ArEntry(0, 0, 0), ArEntry(0, 1, 0)>>],
              [k \in 1 .. 2 |-> [op |-> IF both THEN "vtr_both" ELSE "vtr", value |-> v[k + 1],
                                 min |-> min, ar |-> <<0, 0>>, high |-> (k = 1) # ji,
                                 arp |-> <<0, 0, 0>>, ji |-> ji]]
              \o <<[op |-> "vtrmov", acc |-> "a1"]>>)

\* A codebook of squares over energies; one more step decides about the last entry.
Energies == {v \in WordValues : 0 < v /\ v < 2^(WordBits - 1)}
Codebook ==
    \E u \in [1 .. 3 -> WordValues], v \in [1 .. 3 -> Energies], cond \in {"ge", "gt"} :
        BeginWith([kind |-> "cbs", u |-> u, v |-> v, cond |-> cond],
              [Fresh EXCEPT !.y[1] = 1, !.x[0] = 1, !.pe[0] = 0, !.r[4] = Left,
                            !.arp[0] = <<ArEntry(0, 1, 0), ArEntry(0, 1, 0)>>],
              Placed(Placed(Zeroes, 0, Append(u, u[3])), Left, Append(v, v[3])),
              Times(4, [op |-> "cbs", arp |-> <<0, 0, 0>>, cond |-> cond]))

\* A walk through a circular buffer: period is the number of addresses that its
\* modulo makes a step s visit or pass over, 0 where firmware cannot use it.
Magnitude(s) == IF s < 0 THEN -s ELSE s
Divides(s, n) == n % Magnitude(s) = 0

Period(g, unit, step) ==
    LET s    == StepSize(g, unit, step)
        mod  == Modulo(g, unit)
        mode2 == step \in {"increase2mode2", "decrease2mode2"}
        mode1 == step \in {"increase2mode1", "decrease2mode1"}
    IN  IF s = 0 \/ mod = 0 THEN 0
        ELSE IF g.cmd = 1 THEN IF Divides(s, mod) THEN mod + Magnitude(s) ELSE 0
        ELSE IF mode1 THEN mod + 1
        ELSE IF mode2 /\ mod % 2 = 0 THEN mod + 2
        ELSE IF mode2 THEN IF mod > 1 /\ mod = Mask(mod) THEN mod + 1 ELSE 0
        ELSE IF Divides(s, mod + 1) THEN mod + 1 ELSE 0

Walk ==
    \E cmd, stp16 \in {0, 1}, mod \in 1 .. 2^ModBits - 1, short \in 0 .. 2^StepBits - 1,
       unit \in {0, 5}, first \in 0 .. 2^ModBits - 1, base \in {0, 2^ModBits},
       step \in {"increase", "decrease", "plusstep", "increase2mode1", "decrease2mode1",
                 "increase2mode2", "decrease2mode2"} :
        LET g == [Fresh EXCEPT
                    !.cmd = cmd, !.stp16 = stp16, !.modi = mod, !.modj = mod,
                    !.stepi = short, !.stepj = short,
                    !.stepi0 = Low(Signed(short, StepBits), WordBits),
                    !.stepj0 = Low(Signed(short, StepBits), WordBits),
                    !.m = PerUnit(1), !.r[unit] = base + first]
            period == Period(g, unit, step)
        IN  /\ short # 1 => step = "plusstep"          \* read by no other step
            /\ stp16 = 1 => step = "plusstep"
            /\ period > 0 /\ first < period
            /\ first % Magnitude(StepSize(g, unit, step)) = 0
            /\ Begin([kind |-> "walk", unit |-> unit, step |-> step, base |-> base,
                      first |-> first, period |-> period, length |-> 3], g,
                     Times(3, [op |-> "modr", unit |-> unit, step |-> step]))

\* Two pointers stepped at once, each in its buffer or straight on.
WalkBoth ==
    \E cmd \in {0, 1}, mods \in (1 .. 3) \X {2, 3}, first \in {0, 1}, dmod \in BOOLEAN \X BOOLEAN,
       steps \in {1, 2} \X {1, 2} :
        Begin([kind |-> "walk_both", first |-> first, mods |-> mods, dmod |-> dmod, length |-> 4,
               by |-> [k \in 1 .. 2 |-> IF steps[k] = 1 THEN 1 ELSE -1]],
              [Fresh EXCEPT !.cmd = cmd, !.m = PerUnit(1),
                            !.r[0] = Left + first, !.r[4] = Right + first,
                            !.arp[0] = <<ArEntry(0, steps[1], 0), ArEntry(0, steps[2], 0)>>],
              <<[op |-> "load_field", field |-> "modi", value |-> mods[1]],
                [op |-> "load_field", field |-> "modj", value |-> mods[2]]>> \o
              Times(4, [op |-> "modr2", arp |-> <<0, 0, 0>>, dmod |-> dmod]))

\* A block of 2^k words in the bit-reversed order of a Fourier transform.
ReverseWalk ==
    \E k \in 1 .. WordBits - 1, cmd \in {0, 1} : \E base \in {b \in Word : b % 2^k = 0} :
        LET step == 2^(WordBits - k)
            g == [Fresh EXCEPT !.cmd = cmd, !.stepi0 = step, !.r[0] = base]
        IN  Begin([kind |-> "reverse", k |-> k, base |-> base, length |-> 2^k - 1], g,
                  <<[op |-> "bitrev", unit |-> 0]>> \o
                  Times(2^k - 1, [op |-> "modr", unit |-> 0, step |-> "plusstep"]))

\* A handler between the two switches of its interrupt, and another one within it.
Parts == {"flags", "bank", "acc", "repc"}
SwitchOnce(outer, inner, nested, crep, ccnta) ==
    LET store   == [op |-> "cntx", store |-> TRUE]
        restore == [op |-> "cntx", store |-> FALSE]
        Handler(what) == [op |-> "scribble", what |-> what]
    IN  Begin([kind |-> "switch", outer |-> outer, inner |-> inner, nested |-> nested],
              [SetAcc(SetAcc(Fresh, "a1", 7), "b1", -2) EXCEPT
                 !.crep = crep, !.ccnta = ccnta, !.repc = 2, !.fc1 = 1, !.fz = 1, !.flm = 1,
                 !.m[2] = 1, !.ps[1] = 2, !.page = 1],
              IF nested THEN <<store, Handler(outer), store, Handler(inner), restore, restore>>
              ELSE <<store, Handler(outer), restore>>)

Switch ==
    \E outer, inner \in SUBSET Parts, nested \in BOOLEAN, crep, ccnta \in {0, 1} :
        /\ nested \/ inner = {}
        /\ SwitchOnce(outer, inner, nested, crep, ccnta)

\* Banks exchanged, used and exchanged again.
Exchange ==
    \E units \in SUBSET {0, 1, 4, 7}, cfgi, cfgj \in BOOLEAN, stp16 \in {0, 1} :
        LET exchanged == [op |-> "banke", units |-> units, cfgi |-> cfgi, cfgj |-> cfgj] IN
        Begin([kind |-> "exchange", units |-> units],
              [Fresh EXCEPT !.r = [u \in Unit |-> 5 + u], !.stepi = 2, !.modj = 3, !.stp16 = stp16,
                            !.stepi0 = 4, !.bank.r[4] = 1],
              <<exchanged, [op |-> "scribble", what |-> {"r"}], exchanged>>)

\* All of ar and arp exchanged by a context switch, and back one by one.
ExchangeAr ==
    LET Ar(k) == [op |-> "bankr", arp |-> FALSE, index |-> k]
        Arp(k) == [op |-> "bankr", arp |-> TRUE, index |-> k]
    IN  Begin([kind |-> "bankr"], Fresh,
              <<[op |-> "cntx", store |-> TRUE], Ar(1), Ar(0), Arp(0), Arp(2), Arp(1), Arp(3)>>)

\* A subroutine that saves the registers it uses.
Save ==
    \E v \in EdgeValues, f \in Factors, sat \in {0, 1}, signs \in BOOLEAN \X BOOLEAN :
        LET order == <<<<"px", 0>>, <<"guard", "a0">>, <<"two", "a0">>, <<"reg", "repc">>,
                       <<"x", 0>>, <<"y", 1>>, <<"r", 6>>, <<"reg", "sv">>>>
            n == Len(order)
            g == [SetAcc(Fresh, "a0", v) EXCEPT !.sat = sat, !.x[0] = f.x, !.y[0] = f.y,
                        !.y[1] = f.y, !.r[6] = f.x, !.repc = f.y, !.sv = f.x]
        IN  Begin([kind |-> "save", signs |-> signs], DoMultiplication(g, 0, signs[1], signs[2]),
                  [k \in 1 .. n |-> [op |-> "push", reg |-> order[k]]]
                    \o <<[op |-> "scribble", what |-> {"acc", "repc", "factors", "r"}]>>
                    \o [k \in 1 .. n |-> [op |-> "pop", reg |-> order[n + 1 - k]]])

\* A handler that saves the words it changes, on the stack or in a frame at r7, within a
\* block repeat or not.
SavedWords ==
    {<<"stt0", "stt1", "stt2">>, <<"mod0", "mod1", "mod2", "mod3">>, <<"st0", "st1", "st2">>,
     <<"cfgi", "ar0", "arp0", "cfgj", "ar1", "arp1", "arp2", "arp3">>}

\* What the handler writes to a slot.
Changed(slot, value) ==
    CASE slot[1] = "ar" -> Junk
      [] slot[1] = "arp" -> <<Junk, Junk>>
      [] slot[1] = "lp" -> 0
      [] OTHER -> 1 - (value % 2)

SaveStatus ==
    \E v \in EdgeValues, saved \in SavedWords, loops \in {0, 1, 4},
       up \in SUBSET {"flm", "fvl", "fc0"}, mode \in {0, 1}, frame \in BOOLEAN :
        LET n == Len(saved)
            flagged == SetAccAndFlag(SetAcc(Fresh, "a1", -1 - v), "a0", v)
            g == [flagged EXCEPT
                    !.flm = Flag("flm" \in up), !.fvl = Flag("fvl" \in up), !.fc0 = Flag("fc0" \in up),
                    !.lp = Flag(loops > 0), !.bcn = loops, !.ie = mode, !.sat = mode, !.hwm = 3 * mode,
                    !.ps = Pair(2 * mode), !.m[5] = mode, !.im[3] = mode, !.ip[2] = mode, !.modi = 5,
                    !.r[7] = Left]
            Reg(k) == <<"status", saved[k]>>
            Save1(k) == IF ~frame THEN [op |-> "push", reg |-> Reg(k)]
                        ELSE [op |-> "store", reg |-> Reg(k), place |-> [at |-> "frame", imm |-> -k]]
            Restore1(k) == IF ~frame THEN [op |-> "pop", reg |-> Reg(k)]
                           ELSE [op |-> "load", reg |-> Reg(k), place |-> [at |-> "frame", imm |-> -k]]
        IN  Begin([kind |-> "status", saved |-> {saved[k] : k \in 1 .. n}], g,
                  [k \in 1 .. n |-> Save1(k)]
                    \o [k \in 1 .. n |-> [op |-> "mov", reg |-> Reg(k),
                            value |-> [slot \in Slots(saved[k]) |-> Changed(slot, ReadSlot(g, slot))]]]
                    \o [k \in 1 .. n |-> Restore1(n + 1 - k)])

-----------------------------------------------------------------------------
(***************************************************************************)
(* Programs with vectors and pairs of words in memory.                     *)
(***************************************************************************)
MmaStep(load, acc, base, minus) ==
    [op |-> "mma", load |-> load, arp |-> <<0, 0, 0>>, ar |-> <<1, 1>>, dmod |-> <<TRUE, FALSE>>,
     acc |-> acc, base |-> base, subs |-> <<FALSE, minus>>,
     aligns |-> <<FALSE, FALSE>>, signs |-> <<TRUE, TRUE, TRUE, TRUE>>]

\* A filter: four coefficients, and four samples in a circular buffer, from first on.
Filter ==
    \E x, y \in Vectors, first \in 0 .. 3, sata \in {0, 1} :
        BeginWith([kind |-> "filter", x |-> x, y |-> y, first |-> first],
            [Fresh EXCEPT !.cmd = 0, !.m = PerUnit(1), !.modi = 1, !.modj = 3, !.sata = sata,
                          !.r[0] = Left, !.r[4] = Right + first,
                          !.arp[0] = <<ArEntry(0, 4, 1), ArEntry(0, 4, 1)>>],
            Placed(Placed(Zeroes, Left, x), Right, y),
            <<MmaStep("xy", "a0", "zero", FALSE), MmaStep("xy", "a0", "zero", FALSE),
              MmaStep("none", "a0", "acc", FALSE)>>)

\* A complex product, real part to a0, imaginary part to a1, its factors loaded at once or
\* one by one; the real part is stored meanwhile.
Complex ==
    \E f1, f2 \in Factors, pieces \in BOOLEAN :
        LET x == <<f1.x, f1.y>>
            y == <<f2.x, f2.y>>
        IN  BeginWith([kind |-> "complex", x |-> x, y |-> y],
            [Fresh EXCEPT !.r[0] = Left, !.r[4] = Right, !.r[2] = 1,
                          !.arp[0] = <<ArEntry(0, 1, 1), ArEntry(0, 1, 1)>>,
                          !.ar = [k \in 0 .. 3 |-> IF k = 0 THEN ArEntry(0, 0, 1)
                                                   ELSE IF k = 1 THEN ArEntry(4, 1, 0)
                                                   ELSE ArEntry(2, 0, 1)]],
            Placed(Placed(Zeroes, Left, x), Right, IF pieces THEN <<y[2], y[1]>> ELSE y),
            (IF pieces THEN <<[MmaStep("x", "b1", "zero", FALSE) EXCEPT !.ar = <<0, 0>>],
                              MmaStep("y1", "b1", "zero", FALSE), MmaStep("y0", "b1", "zero", FALSE)>>
             ELSE <<MmaStep("xy", "b1", "zero", FALSE)>>)
            \o <<MmaStep("none", "a0", "zero", TRUE),
                 [op |-> "mma_mov", u |-> "a0", v |-> "b0", ar |-> <<2, 2>>, acc |-> "a1",
                  base |-> "zero", subs |-> <<FALSE, FALSE>>, aligns |-> <<FALSE, FALSE>>,
                  signs |-> <<TRUE, TRUE, TRUE, TRUE>>]>>)

\* The energy of a vector.
Energy ==
    \E v \in EdgeValues, x \in Vectors :
        BeginWith([kind |-> "energy", x |-> x],
            [SetAcc(Fresh, "a0", v) EXCEPT !.r[0] = Left, !.ar[0] = ArEntry(0, 4, 1)],
            Placed(Zeroes, Left, x), Times(3, [op |-> "sqr_sqr", ar |-> <<0, 0>>, acc |-> "a0"]))

\* Sums and differences of pairs, and from them the second pair again, twice.
AtBoth(g, offset) ==
    [g EXCEPT !.sat = 1, !.r[0] = Left, !.r[4] = Right,
              !.ar = [k \in 0 .. 3 |-> ArEntry(IF k = 0 THEN 0 ELSE 4, 0, offset)],
              !.arp = [k \in 0 .. 3 |-> <<ArEntry(0, 0, offset), ArEntry(0, 0, offset)>>]]

Pairs == WordValues \X WordValues
Butterfly ==
    \E u, w \in Pairs, subs \in BOOLEAN \X BOOLEAN :
        LET Sums(acc, minus) == [op |-> "add_add", arp |-> <<0, 0, 0>>, acc |-> acc, subs |-> minus]
            Keep(acc, k) == [op |-> "mova", from |-> <<"acc", acc>>, ar |-> <<k, k>>]
        IN  BeginWith([kind |-> "butterfly", u |-> u, w |-> w, subs |-> subs], AtBoth(Fresh, 1),
                Placed(Placed(Zeroes, Left, u), Right, w),
                <<Sums("a0", subs), Sums("b0", <<~subs[1], ~subs[2]>>), Keep("a0", 0), Keep("b0", 1),
                  Sums("b1", <<FALSE, FALSE>>)>>)

\* sv added to and subtracted from a pair, and back; a word of a0 is moved to sv meanwhile.
Offsets ==
    \E u \in Pairs, sv \in Word, v \in EdgeValues, moves, ji \in BOOLEAN :
        LET Both1(op, acc, sub) ==
                [op |-> op, ar |-> IF ji THEN <<1, 1>> ELSE <<0, 0>>, arp |-> <<0, 0, 0>>,
                 ji |-> ji, acc |-> acc, sub |-> sub]
        IN  BeginWith([kind |-> "offsets", u |-> u, moves |-> moves],
                [AtBoth(SetAcc(Fresh, "a0", v), 1) EXCEPT !.sv = sv],
                Placed(Zeroes, IF ji THEN Right ELSE Left, u),
                <<Both1(IF moves THEN "add_sub_mov" ELSE "add_sub_sv", "a0", FALSE),
                  [op |-> "mova", from |-> <<"acc", "a0">>, ar |-> IF ji THEN <<1, 1>> ELSE <<0, 0>>],
                  Both1(IF moves THEN "sub_add_mov_sv" ELSE "add_sub_sv", "b0", TRUE)>>)

-----------------------------------------------------------------------------
\* Stores and the loads that undo them.
StoreLong ==
    \E v \in EdgeValues, f \in Factors, offset \in {0, 1, 3}, sat \in {0, 1},
       from \in {<<"acc", "a0">>, <<"product", 1>>, <<"shifted", 1>>, <<"highs", "b1">>, <<"highs", "y0">>} :
        Begin([kind |-> "long_store", from |-> from, offset |-> offset],
              DoMultiplication([AtBoth(SetAcc(SetAcc(Fresh, "a0", v), "b1", -1 - v), offset) EXCEPT
                    !.sat = sat, !.y[0] = f.x, !.x[1] = f.x, !.y[1] = f.y, !.ps[1] = 2], 1, TRUE, TRUE),
              <<[op |-> IF from[1] = "highs" THEN "mov2_high" ELSE "mova", from |-> from,
                 u |-> "a0", v |-> from[2], ar |-> <<0, 0>>],
                [op |-> "mova_load", ar |-> <<0, 0>>,
                 to |-> IF from[1] \in {"product", "shifted"} THEN <<"product", 0>> ELSE <<"acc", "b0">>]>>)

StoreApart ==
    \E v \in AccValues, sat \in {0, 1}, ji \in BOOLEAN \X BOOLEAN, same \in BOOLEAN :
        LET Op(op, acc, k) == [op |-> op, acc |-> acc, arp |-> <<0, 0, 0>>, ji |-> ji[k]] IN
        Begin([kind |-> "apart_store", ji |-> ji, same |-> same],
              [AtBoth(SetAcc(Fresh, "a0", v), 0) EXCEPT
                    !.sat = sat, !.r[4] = IF same THEN Left ELSE Right],
              <<Op("mov2", "a0", 1), Op("mov2_load", "b0", 2)>>)

ExchangeTwice ==
    \E v \in AccValues, w \in WordValues, rounded \in BOOLEAN :
        LET Op(ji) == [op |-> "exchange", acc |-> "a0", arp |-> <<0, 0, 0>>, ji |-> ji,
                       rounded |-> rounded] IN
        BeginWith([kind |-> "exchange_twice", w |-> w, rounded |-> rounded],
                  [AtBoth(SetAcc(Fresh, "a0", v), 0) EXCEPT !.sat = 0],
                  Placed(Zeroes, Left, <<w>>), <<Op(FALSE), Op(TRUE)>>)

\* One word under the names an instruction can give it.
Places ==
    LET page == 2^(WordBits \div 2)
        word == Left + 1
    IN  {[at |-> "absolute", imm |-> word], [at |-> "page", imm |-> word % page],
         [at |-> "frame", imm |-> word - Right], [at |-> "frame", imm |-> word - Right + 2^WordBits],
         [at |-> "pointer", pointer |-> Pointer(2, ArEntry(2, 1, 0))]}
Names ==
    \E to, from \in Places, w \in WordValues :
        Begin([kind |-> "names", w |-> w],
              [Fresh EXCEPT !.x[0] = w, !.page = (Left + 1) \div 2^(WordBits \div 2), !.r[7] = Right,
                            !.r[2] = Left + 1],
              <<[op |-> "store", reg |-> <<"x", 0>>, place |-> to],
                [op |-> "load", reg |-> <<"reg", "sv">>,
                 place |-> IF to.at = "pointer" /\ from.at = "pointer"
                           THEN [at |-> "absolute", imm |-> Left + 1] ELSE from]>>)

\* A long number moved in two words, each through a register.
Carriers == {<<"reg", n>> : n \in {"sv", "mixp", "repc", "stepi0", "stepj0"}}
                \cup {<<"x", 0>>, <<"x", 1>>, <<"y", 1>>, <<"r", 6>>}
Relay ==
    \E v \in AccValues, sat, sata \in {0, 1}, c, d \in Carriers :
        LET Step(from, to) == [op |-> "movreg", from |-> from, to |-> to] IN
        /\ c # d
        /\ Begin([kind |-> "relay"], [SetAcc(Fresh, "a0", v) EXCEPT !.sat = sat, !.sata = sata],
                 <<Step(<<"high", "a0">>, c), Step(<<"low", "a0">>, d),
                   Step(c, <<"high", "a1">>), Step(d, <<"low", "b1">>)>>)

\* A table copied from program memory to data memory, from there to another place of the
\* page, and read there by an address in an accumulator.  Page 2 is data memory itself.
Tables ==
    \E u \in Pairs, page \in 0 .. 2, above \in {-1, 0, 1} :
        LET At(unit) == Pointer(unit, ArEntry(unit, 1, 0))
            copy == page * 2^WordBits + Left + 2
            Read == [op |-> "movp", from |-> At(0), to |-> At(2)]
            Write == [op |-> "movd", from |-> At(1), to |-> At(4)]
            Lookup(low, reg) == [op |-> "movp_to", acc |-> "a0", low |-> low, reg |-> reg]
        IN  BeginWith([kind |-> "tables", u |-> u, copy |-> copy - DataOffset],
                [SetAcc(Fresh, "a0", above * 2^(WordBits + 2) + copy) EXCEPT
                    !.r = [k \in Unit |-> CASE k = 0 -> 1 [] k = 4 -> Left + 2 [] OTHER -> Right]],
                Placed([a \in -DataOffset .. 2^WordBits - 1 |-> 0],
                       page * 2^WordBits + 1 - DataOffset, u),
                <<[op |-> "load_field", field |-> "pcmhi", value |-> page],
                  Read, Read, Write, Write,
                  Lookup(FALSE, <<"reg", "sv">>), Lookup(TRUE, <<"reg", "mixp">>)>>)

Swaps ==
    \E type \in DOMAIN SwapType, v, w \in EdgeValues, sata \in {0, 1} :
        Begin([kind |-> "swap", type |-> type],
              [Fresh EXCEPT !.acc = [a0 |-> v, a1 |-> -1 - w, b0 |-> w, b1 |-> -1 - v], !.sata = sata],
              Times(2, [op |-> "swap", type |-> type]))

ProgramsInit ==
    \/ Divide \/ Normalise \/ SumOfProducts \/ LongMultiply \/ ProductsAtOnce \/ OneOperation
    \/ ShiftOrRound \/ LongSquares \/ DelayLine \/ ClearTwo \/ WalkBoth
    \/ Compare \/ CompareAccs \/ Rotate \/ Search \/ Survivors \/ Codebook \/ Walk \/ ReverseWalk
    \/ Switch \/ Exchange \/ ExchangeAr \/ Save \/ SaveStatus
    \/ Filter \/ Complex \/ Energy \/ Butterfly \/ Offsets
    \/ TestBit \/ AndOr \/ Relay \/ Tables
    \/ StoreLong \/ StoreApart \/ ExchangeTwice \/ Names \/ Swaps

ProgramsSpec == ProgramsInit /\ [][RoutineNext]_routineVars

-----------------------------------------------------------------------------
(***************************************************************************)
(* What they compute.                                                      *)
(***************************************************************************)
Ends(kind) == Done /\ Is(kind)
InRange(v) == v \in SignedRange(AccBits)

\* divs, repeated for each bit, leaves quotient and remainder in the two words, if the
\* quotient fits in one.
DividesExactly ==
    Ends("divide") /\ routine.d < routine.da * 2^WordBits =>
        /\ Low(regs.acc.a0, WordBits) = routine.d \div routine.da
        /\ Shr(regs.acc.a0, WordBits) = routine.d % routine.da

\* exp and one shift, or norm for each bit, leave the same value: normalised, shifted
\* by what exp counts.  norm counts its shifts in r0.
Normalises ==
    LET v == start.acc.a0 IN
    /\ Ends("shift") =>
        /\ regs.fn = 1 /\ regs.fe = 0 /\ regs.fv = 0
        /\ regs.acc.b0 = IF Exp(v) >= 0 THEN v * 2^Exp(v) ELSE Shr(v, -Exp(v))
    /\ Ends("norm") /\ v # 0 =>
        /\ regs.fn = 1 /\ regs.fvl = 0
        /\ regs.acc.a0 = v * 2^regs.r[0]
        /\ regs.r[0] = Exp(v)

WordProduct(a, b) == Short(a) * Short(b)

Product(f, shift) ==
    LET exact == Signed(f.x, WordBits) * Signed(f.y, WordBits) IN
    CASE shift = 0 -> exact [] shift = 1 -> Shr(exact, 1) [] OTHER -> exact * 2^(shift - 1)

\* Multiplication and accumulation are exact: a pipelined sum of products, clipped
\* after each addition if saturation is on, or flagged if 40 bits do not hold it; filters
\* and delay lines, complex products and energies, whose factors move while the products
\* of before are summed; and the upper half of a double-precision product.
Multiplies ==
    /\ Ends("products") =>
        LET v      == start.acc.b0
            P(k)   == IF routine.minus[k] THEN -Product(routine.f[k], routine.shift)
                      ELSE Product(routine.f[k], routine.shift)
            first  == v + P(1)
            second == first + P(2)
        IN  IF start.sata = 1
            THEN IF regs.fvl = 0 THEN regs.acc.b0 = second ELSE ~(InRange(first) /\ InRange(second))
            ELSE regs.fvl = 0 => regs.acc.b0 = Clip(Clip(first) + P(2))
    /\ Ends("long") =>
        regs.acc.a0 = Shr(routine.u * routine.v, LongBits)
    /\ Ends("filter") =>
        LET P(k)    == WordProduct(routine.x[k], routine.y[((routine.first + k - 1) % 4) + 1])
            first   == P(1) + P(2)
            second  == P(3) + P(4)
        IN  regs.acc.a0 = IF start.sata = 0 THEN Clip(Clip(first) + second) ELSE first + second
    /\ Ends("complex") =>
        LET P(j, k) == WordProduct(routine.x[j], routine.y[k])
            Kept(v) == IF start.sata = 0 THEN Clip(v) ELSE v
        IN  /\ regs.acc.a0 = Kept(P(1, 1) - P(2, 2))
            /\ regs.acc.a1 = Kept(P(1, 2) + P(2, 1))
            /\ data[1] = High(Clip(P(1, 1) - P(2, 2)))
    /\ Ends("squares") /\ regs.fvl = 0 =>
        LET h == Shr(routine.v, WordBits) IN
        regs.acc.b0 = start.acc.b0 + h * h + Shr(h * Low(routine.v, WordBits), WordBits)
    /\ Ends("delay") /\ regs.fvl = 0 =>
        LET x == start.x  y == start.y IN
        /\ regs.acc.a0 = start.acc.a0 + WordProduct(x[0], y[0]) + WordProduct(x[1], y[1])
                            + WordProduct(x[1], y[0]) + WordProduct(routine.w, y[0])
        /\ regs.acc.b1 = WordProduct(routine.w, x[0])
        /\ regs.acc.a1 = regs.acc.b1 + Rounding
        /\ regs.acc.b0 = WordProduct(routine.w, y[0])
    /\ Ends("energy") /\ regs.fvl = 0 =>
        LET squares == WordProduct(routine.x[1], routine.x[1]) + WordProduct(routine.x[2], routine.x[2])
            more    == WordProduct(routine.x[3], routine.x[3]) + WordProduct(routine.x[4], routine.x[4])
        IN  regs.acc.a0 = IF start.sata = 1 THEN start.acc.a0 + squares + more
                          ELSE Clip(Clip(Clip(start.acc.a0) + squares) + more)

ExactOf(v) ==
    CASE Is("alm") ->
            LET operand == ExtendOperandForAlm(routine.alm, routine.w) IN
            IF routine.alm \in Adds THEN v + operand ELSE v - operand
      [] Is("moda") ->
           (CASE routine.moda = "shr" -> Shr(v, 1)
              [] routine.moda = "shr4" -> Shr(v, 4)
              [] routine.moda = "shl" -> 2 * v
              [] routine.moda = "shl4" -> 16 * v
              [] routine.moda = "neg" -> -v
              [] routine.moda = "rnd" -> v + Rounding
              [] routine.moda = "inc" -> v + 1
              [] routine.moda = "dec" -> v - 1)
      [] Is("lim") -> Clip(v)
      [] Is("app") ->
            LET P(k) == LET p == Aligned(ProductToBus40(start, k - 1), routine.aligns[k]) IN
                        IF routine.subs[k] THEN -p ELSE p
            IN  SumBase([start EXCEPT !.sv = routine.sv], routine.base, "a0") + P(1) + P(2)
      [] Is("addhp") -> Long(routine.w, Rounding) + ProductToBus40(start, 1)
      [] Is("movacc") -> v
      [] Is("movs") -> IF routine.sv >= 0 THEN Short(routine.w) * 2^routine.sv
                       ELSE Shr(Short(routine.w), -routine.sv)
      [] Is("movr_word") -> Low(routine.w + Rounding, WordBits)
      [] Is("rounded") -> v + Rounding
      [] Is("movr") -> Long(routine.w, 0) + Rounding

\* A result is the exact one, clipped if saturation is on, or the overflow flag is
\* set, which latches; and the flag is set for nothing else.  Only a double sum with
\* equal signs may be flagged although the second addition undid the overflow.  A
\* rotation through carry comes around without losing a bit, sums of two halves do not
\* carry into each other, clearing two accumulators clears the first one that is named
\* and one other, and what and and or leave adds up to what they were given.
ExactOrFlagged ==
    /\ Done /\ routine.kind \in {"alm", "moda", "lim", "app", "addhp", "movacc",
                                 "movs", "movr_word", "rounded", "movr"} =>
        LET exact == ExactOf(start.acc.a0) IN
        /\ regs.fv = 0 =>
            regs.acc.a0 = IF start.sata = 0 THEN Clip(exact) ELSE exact
        /\ regs.fv = 1 => regs.fvl = 1
        /\ InRange(exact) /\ ~(Is("app") /\ routine.subs[1] = routine.subs[2]) => regs.fv = 0
    /\ Ends("clear") =>
        \E other \in AccName \ {routine.a} :
            /\ routine.a = "a0" /\ routine.b # "a0" => other = routine.b
            /\ \A n \in AccName :
                regs.acc[n] = IF n \in {routine.a, other} THEN routine.to ELSE start.acc[n]
    /\ Ends("logic") => regs.acc.a0 + regs.acc.a1 = start.acc.b0 + start.acc.b1
    /\ Ends("rotate") => regs.acc.a0 = start.acc.a0 /\ regs.fc0 = start.fc0
    /\ Ends("butterfly") =>
        LET u == routine.u  w == routine.w IN
        /\ Shr(regs.acc.a0, WordBits) = Plus(Short(w[1]), Short(u[1]), routine.subs[1])
        /\ Low(regs.acc.a0, WordBits) = Low(Plus(w[2], u[2], routine.subs[2]), WordBits)
        /\ High(regs.acc.b1) = Low(2 * w[1], WordBits)
        /\ Low(regs.acc.b1, WordBits) = Low(2 * w[2], WordBits)
    /\ Ends("offsets") =>
        /\ <<High(regs.acc.b0), Low(regs.acc.b0, WordBits)>> = routine.u
        /\ routine.moves => regs.sv = Low(start.acc.a0, WordBits)

\* After a comparison the conditions decide as the numbers do: accumulators signed,
\* unless their difference overflows, and words signed, carry unsigned, always.  A bit
\* that is tested decides eq, with tst4b carry too, and the sign and overflow stay those
\* of before.
Decides ==
    LET Agree(x, y) ==
            /\ ConditionPass(regs, "eq") = (x = y) /\ ConditionPass(regs, "neq") = (x # y)
            /\ ConditionPass(regs, "gt") = (x > y) /\ ConditionPass(regs, "ge") = (x >= y)
            /\ ConditionPass(regs, "lt") = (x < y) /\ ConditionPass(regs, "le") = (x <= y)
    IN  /\ Ends("cmp") =>
            LET operand == ExtendOperandForAlm(routine.alm, routine.w) IN
            IF InRange(start.acc.a0 - operand) THEN Agree(start.acc.a0, operand)
            ELSE ConditionPass(regs, "v")
        /\ Ends("cmpv") =>
            /\ Agree(Signed(routine.b, WordBits), Signed(routine.a, WordBits))
            /\ ConditionPass(regs, "c") = (routine.b < routine.a)
        /\ Ends("cmpa") =>
            IF InRange(start.acc.b0 - start.acc.a0) THEN Agree(start.acc.b0, start.acc.a0)
            ELSE ConditionPass(regs, "v")
        /\ Ends("tstb") =>
            /\ ConditionPass(regs, "eq") = (Bit(routine.w, routine.bit) = 1)
            /\ ConditionPass(regs, "lt") = (start.acc.a0 < 0)
        /\ Ends("tst4b") =>
            LET bit == Bit(routine.w, start.acc.a0 % WordBits) = 1 IN
            /\ ConditionPass(regs, "eq") = bit /\ ConditionPass(regs, "c") = bit
            /\ ConditionPass(regs, "lt") = (start.acc.a0 < 0)
            /\ ConditionPass(regs, "v") = (start.fv = 1)

SelectedBy(op, w, k) ==
    LET S(j) == Signed(w[j], WordBits) IN
    \A j \in DOMAIN w :
        CASE op = "max_ge" -> S(j) < S(k) \/ (S(j) = S(k) /\ j <= k)
          [] op = "max_gt" -> S(j) < S(k) \/ (S(j) = S(k) /\ k <= j)
          [] op = "min_le" -> S(j) > S(k) \/ (S(j) = S(k) /\ j <= k)
          [] op = "min_lt" -> S(j) > S(k) \/ (S(j) = S(k) /\ k <= j)

\* A search ends with the best word and its address, the first or the last among
\* equals; the survivors are the best of each half and vtr tells which they were; the
\* codebook search, which compares crosswise one entry late, names the best ratio.
FindsBest ==
    /\ Ends("search") =>
        \E k \in 1 .. 3 :
            /\ SelectedBy(routine.select, routine.w, k)
            /\ regs.acc.a0 = Signed(routine.w[k], WordBits)
            /\ regs.mixp = 1 + k
    /\ Ends("vtr") =>
        LET best(S(_)) == CHOOSE k \in 1 .. 3 :
                \A j \in 1 .. 3 : LET a == S(routine.v[j])  b == S(routine.v[k]) IN
                    IF a = b THEN j <= k ELSE (a > b) = routine.min
            high(v) == Shr(v, WordBits)
            low(v)  == Signed(v, WordBits)
            \* the latest decision that was taken, from the two upper bits
            last(vtr) == IF Bit(vtr, WordBits - 1) = 1 THEN 3
                         ELSE IF Bit(vtr, WordBits - 2) = 1 THEN 2 ELSE 1
        IN  /\ high(regs.acc.a0) = high(routine.v[best(high)])
            /\ low(regs.acc.a0) = low(routine.v[best(low)])
            /\ last(regs.vtr0) = best(high)
            /\ last(regs.vtr1) = best(low)
            /\ last(regs.acc.a1) = best(low)
            /\ last(Low(regs.acc.a1 * 2^(WordBits \div 2), WordBits)) = best(high)
            /\ LET h == High(start.acc.a1)
                   l == Low(start.acc.a1, WordBits)
                   first == IF routine.ji THEN l ELSE h
                   second == IF routine.ji THEN h ELSE l
               IN  IF routine.both THEN data[Left - 1] = second /\ data[Left] = second
                   ELSE data[Left] = first /\ data[Left + 1] = second
    /\ Ends("cbs") =>
        LET square(k) == Shr(Signed(routine.u[k], WordBits) * Signed(routine.u[k], WordBits), WordBits)
            beats(j, k) == square(j) * routine.v[k] > square(k) * routine.v[j]
            ties(j, k) == square(j) * routine.v[k] = square(k) * routine.v[j]
        IN  IF routine.cond = "gt" /\ \A k \in 1 .. 3 : square(k) = 0 THEN regs.mixp = 0
            ELSE /\ regs.mixp \in 1 .. 3
                 /\ \A j \in 1 .. 3 :
                    /\ ~beats(j, regs.mixp)
                    /\ ties(j, regs.mixp) =>
                        IF routine.cond = "ge" THEN j <= regs.mixp ELSE regs.mixp <= j

\* At every step of a walk the register is where a circular buffer of that period has
\* it, and the word beside it is the next one of the buffer; in bit-reversed order
\* address n of a block is its offset n read from the other end.
VisitsInOrder ==
    /\ Is("walk") =>
        LET unit == routine.unit
            k == routine.length - Len(todo)
            s == StepSize(regs, unit, routine.step)
            r == regs.r[unit]
        IN  /\ r = routine.base + ((routine.first + k * s) % routine.period)
            /\ OffsetAddress(regs, unit, r, 1, FALSE) = StepAddress(regs, unit, r, "increase", FALSE)
    /\ Is("walk_both") /\ Len(todo) <= routine.length =>
        LET n == routine.length - Len(todo)
            At1(k, base) ==
                LET offset == routine.first + n * routine.by[k] IN
                (base + (IF routine.dmod[k] THEN offset ELSE offset % (routine.mods[k] + 1))) % 2^WordBits
        IN  regs.r[0] = At1(1, Left) /\ regs.r[4] = At1(2, Right)
    /\ Is("reverse") /\ Len(todo) <= routine.length =>
        LET n == routine.length - Len(todo)
            offset == RnAddress(regs, 0) - routine.base
        IN  \A b \in 0 .. routine.k - 1 : Bit(offset, b) = Bit(n, routine.k - 1 - b)

\* What is switched away comes back.  One handler may use everything that the switch
\* saves; in a nested one the bank is the interrupted program's again, and repc and
\* the accumulators have one shadow, so the outer handler must not have used them.
ContextKept ==
    /\ Ends("switch") =>
        LET used == routine.outer \cup routine.inner
            free(part, saves) == part \notin routine.outer /\ (saves = 0 \/ part \notin routine.inner)
        IN  /\ ~routine.nested => \A f \in FlagName : regs[f] = start[f]
            /\ "bank" \notin routine.inner => \A n \in SwapName : regs[n] = start[n]
            /\ free("repc", start.crep) \/ (~routine.nested /\ start.crep = 0)
                => regs.repc = start.repc
            /\ free("acc", start.ccnta) \/ (~routine.nested /\ start.ccnta = 0)
                => regs.acc.a1 = start.acc.a1 /\ regs.acc.b1 = start.acc.b1
            /\ ~routine.nested /\ "bank" \notin used => regs.swapped = start.swapped
    /\ Ends("exchange") =>
        /\ \A u \in routine.units : regs.r[u] = start.r[u] /\ regs.bank.r[u] = 3
        /\ \A n \in {"stepi", "stepj", "modi", "modj", "stepi0", "stepj0"} :
            regs[n] = start[n] /\ regs.bank[n] = start.bank[n]
    /\ Ends("bankr") =>
        /\ regs.ar = start.ar /\ regs.arp = start.arp
        /\ regs.swapped.ar = start.swapped.ar /\ regs.swapped.arp = start.swapped.arp
    /\ Is("swap") =>
        LET Kept(v) == IF start.sata = 0 THEN Clip(v) ELSE v
            moves == {SwapType[routine.type][k] : k \in DOMAIN SwapType[routine.type]}
            two_way == \A m \in moves : <<m[2], m[1]>> \in moves
        IN  /\ Len(todo) = 1 => \A m \in moves : regs.acc[m[2]] = Kept(start.acc[m[1]])
            /\ Done /\ two_way => \A m \in moves : regs.acc[m[1]] = Kept(start.acc[m[1]])
            /\ \A a \in AccName : (\A m \in moves : a # m[2]) => regs.acc[a] = start.acc[a]

\* A register that is pushed and popped comes back: an accumulator with its guard,
\* clipped unless sat forbids it; a product if it has its sign in bit 31.  Of the
\* status words st0 gives flm and fvl one value, st0 and st1 cut a guard to its lower
\* half, and a handler that saves stt2 within a block repeat ends it.  A long number moved
\* in two words is whole again, clipped; a table copied between program and data memory
\* is found by every kind of address.
StackKeeps ==
    /\ Ends("save") =>
        /\ stack = <<>>
        /\ regs.acc.a0 = IF start.sat = 0 THEN Clip(start.acc.a0) ELSE start.acc.a0
        /\ regs.x[0] = start.x[0] /\ regs.y[1] = start.y[1] /\ regs.r[6] = start.r[6]
        /\ regs.repc = start.repc /\ regs.sv = start.sv
        /\ start.pe[0] = Bit(start.p[0], LongBits - 1) =>
            regs.p[0] = start.p[0] /\ regs.pe[0] = start.pe[0]
    /\ Ends("status") =>
        /\ stack = <<>>
        /\ \A n \in DOMAIN regs \ {"acc", "flm", "fvl", "lp", "bcn"} : regs[n] = start[n]
        /\ \A n \in {"flm", "fvl"} :
            regs[n] = IF "st0" \in routine.saved THEN Flag(start.flm = 1 \/ start.fvl = 1) ELSE start[n]
        /\ \A a \in AccName :
            /\ Low(regs.acc[a], LongBits) = Low(start.acc[a], LongBits)
            /\ start.acc[a] \in SignedRange(LongBits + ExtensionBits) => regs.acc[a] = start.acc[a]
        /\ IF "stt2" \in routine.saved THEN regs.lp = 0 /\ regs.bcn = 0
           ELSE regs.lp = start.lp /\ regs.bcn = start.bcn
    /\ Ends("long_store") =>
        LET v == CASE routine.from[1] = "acc" -> SatAcc(start, "a0")
                   [] routine.from[1] = "product" -> start.p[1]
                   [] routine.from[1] = "shifted" -> ProductToBus40(start, 1)
                   [] routine.from = <<"highs", "b1">> ->
                        Long(High(SatAcc(start, "a0")), High(SatAcc(start, "b1")))
                   [] routine.from = <<"highs", "y0">> -> Long(High(SatAcc(start, "a0")), start.y[0])
            w == Long(High(v), IF routine.offset = 0 THEN High(v) ELSE Low(v, WordBits))
        IN  IF routine.from[1] \in {"acc", "highs"} THEN regs.acc.b0 = w
            ELSE regs.p[0] = Low(w, LongBits) /\ regs.pe[0] = Flag(w < 0)
    /\ Ends("apart_store") =>
        LET v == SatAcc(start, "a0")
            h == High(v)  l == Low(v, WordBits)
        IN  regs.acc.b0 = IF routine.same THEN Long(l, l)
                          ELSE IF routine.ji[1] = routine.ji[2] THEN Long(h, l) ELSE Long(l, h)
    /\ Ends("exchange_twice") =>
        /\ regs.acc.a0 = Long(High(SatAcc(start, "a0")), IF routine.rounded THEN Rounding ELSE 0)
        /\ data[Left] = routine.w
    /\ Ends("names") => regs.sv = routine.w
    /\ Ends("relay") =>
        /\ regs.acc.a1 + regs.acc.b1 = Signed(SatAcc(start, "a0"), LongBits)
        /\ regs.flm = Flag(start.sat = 0 /\ start.acc.a0 \notin SignedRange(LongBits))
    /\ Ends("tables") =>
        /\ \A k \in 1 .. 2 : data[Right + k - 1] = routine.u[k] /\ data[routine.copy + k - 1] = routine.u[k]
        /\ regs.sv = routine.u[1] /\ regs.mixp = routine.u[1]
=============================================================================
