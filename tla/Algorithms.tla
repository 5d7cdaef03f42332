----------------------------- MODULE Algorithms -----------------------------
(***************************************************************************)
(* Instructions that are steps of an algorithm (interpreter.h): firmware   *)
(* repeats divs to divide, norm or exp and a shift to normalise, max and   *)
(* min to search, the Viterbi and the codebook instructions to decide.     *)
(***************************************************************************)
EXTENDS Arithmetic, Addressing

\* One bit of a quotient.
divsKeepsRemainder(g, da, name) ==
    LET value == g.acc[name] - da * 2^(WordBits - 1) IN
    SetAccAndFlag(g, name,
        Signed(IF value < 0 THEN 2 * g.acc[name] ELSE 2 * g.acc[name] + 1, AccBits))

divs(g, da, name) ==
    LET value == g.acc[name] - da * 2^(WordBits - 1) IN
    SetAccAndFlag(g, name,
        Signed(IF value < 0 THEN 2 * g.acc[name] ELSE 2 * value + 1, AccBits))

\* How far an accumulator can be shifted to the left: the bits below the sign that
\* repeat it, less the guard.
ExpOneOff(value) ==
    (CHOOSE n \in 0 .. AccBits - 1 :
        /\ value = Signed(value, AccBits - n)
        /\ n = AccBits - 1 \/ value # Signed(value, AccBits - n - 1)) - GuardBits + 1

Exp(value) ==
    (CHOOSE n \in 0 .. AccBits - 1 :
        /\ value = Signed(value, AccBits - n)
        /\ n = AccBits - 1 \/ value # Signed(value, AccBits - n - 1)) - GuardBits

exp(g, value) == [g EXCEPT !.sv = Low(Exp(value), WordBits)]

\* One bit of normalisation, counted in an address register.
norm(g, name, unit, step) ==
    LET value   == g.acc[name]
        over    == value # Signed(value, AccBits - 1)
        shifted == SetAccAndFlag([g EXCEPT !.fv = Flag(over), !.fvl = IF over THEN 1 ELSE @,
                                           !.fc0 = Bit(value, AccBits - 1)],
                                 name, Signed(2 * value, AccBits))
        stepped == RnAndModify(shifted, unit, step, FALSE)
    IN  IF g.fn = 0 THEN [stepped EXCEPT !.fr = Flag(stepped.r[unit] = 0)] ELSE g

lim(g, a, b) ==
    SetAccAndFlag(SaturateAcc(g, g.acc[a]), b, Clip(g.acc[a]))

-----------------------------------------------------------------------------
(***************************************************************************)
(* Minimum and maximum: an accumulator keeps the best, the candidate is    *)
(* its counterpart or a word at r0, and mixp keeps the best one's r0.      *)
(***************************************************************************)
BeatsOrEquals(op, v, u) == IF op \in {"max_ge", "max_gt"} THEN v >= u ELSE v <= u

Beats(op, v, u) ==
    CASE op = "max_ge" -> v >= u
      [] op = "max_gt" -> v > u
      [] op = "min_le" -> v <= u
      [] op = "min_lt" -> v < u

MinMax(g, op, name, candidate, step) ==
    LET better  == Beats(op, candidate, g.acc[name])
        stepped == RnAndModify([g EXCEPT !.fm = Flag(better)], 0, step, FALSE)
    IN  IF better
        THEN SetAcc([stepped EXCEPT !.mixp = g.r[0]], name, candidate)
        ELSE stepped

vtrshr(g) ==
    LET push(vtr, f) == Shr(vtr, 1) + f * 2^(WordBits - 1) IN
    [g EXCEPT !.vtr0 = push(@, g.fc0), !.vtr1 = push(@, g.fc1)]

\* The latest decisions of both halves in one word.
vtrmov(g, name) ==
    LET half == 2^(WordBits \div 2) IN
    SatAndSetAccAndFlag(g, name, g.vtr1 - (g.vtr1 % half) + g.vtr0 \div half)

\* Both halves of two accumulators compared at once, the decisions kept in vtr.
MinMaxVtr(g, a, b, min) ==
    LET high(value) == Shr(value, WordBits)
        low(value)  == Signed(value, WordBits)
        u == g.acc[a]
        v == g.acc[b]
        takes(vh, uh) == IF min THEN uh >= vh ELSE vh >= uh
        wh == IF takes(high(v), high(u)) THEN high(v) ELSE high(u)
        wl == IF takes(low(v), low(u)) THEN low(v) ELSE low(u)
    IN  vtrshr(SetAcc([g EXCEPT !.fc0 = Flag(takes(high(v), high(u))),
                                !.fc1 = Flag(takes(low(v), low(u)))],
                      a, wh * 2^WordBits + Low(wl, WordBits)))

\* The search for the entry with the greatest square by energy: the products of the
\* comparison are those of the entry before, u and v are read for the next one.
CodebookSearch(g, u, v, r, cond) ==
    LET diff   == ProductToBus40(g, 0) - ProductToBus40(g, 1)
        better == IF cond = "ge" THEN diff >= 0 ELSE diff > 0
        taken  == IF better THEN [g EXCEPT !.x = [k \in 0 .. 1 |-> IF k = 1 THEN g.p0h_cbs ELSE g.y[1]],
                                           !.mixp = r]
                  ELSE g
        square == DoMultiplication([taken EXCEPT !.x[0] = u, !.y[0] = u], 0, TRUE, TRUE)
        high   == Low(Shr(ProductToBus40(square, 0), WordBits), WordBits)
        loaded == [square EXCEPT !.p0h_cbs = high, !.y = [k \in 0 .. 1 |-> IF k = 0 THEN high ELSE v],
                                 !.x[0] = taken.x[0]]
    IN  DoMultiplication(DoMultiplication(loaded, 0, TRUE, TRUE), 1, TRUE, TRUE)
=============================================================================
