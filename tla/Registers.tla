----------------------------- MODULE Registers -----------------------------
(***************************************************************************)
(* The registers of the processor (include/teakra/impl/register.h), their  *)
(* banks and shadows, and the access of accumulators (interpreter.h).  An  *)
(* operator takes the registers as a record g and returns them changed.    *)
(* Accumulators and steps are signed integers, where the code holds their  *)
(* two's complement; words, products and modulos are not negative.         *)
(***************************************************************************)
EXTENDS Integers, Sequences

CONSTANTS
    WordBits,       \* 16
    GuardBits,      \* 8: an accumulator has two words and a guard
    ModBits,        \* 9: of a modulo, and of a 16-bit step under modulo
    StepBits        \* 7: of a step

ASSUME RegistersAssumption ==
    /\ WordBits \in Nat \ {0} /\ WordBits % 2 = 0
    /\ GuardBits \in Nat /\ GuardBits > 3       \* a product, shifted, fits
    /\ ModBits \in 1 .. WordBits
    /\ StepBits \in 1 .. ModBits

LongBits == 2 * WordBits
AccBits  == LongBits + GuardBits

Word == 0 .. 2^WordBits - 1
SignedRange(n) == -(2^(n - 1)) .. 2^(n - 1) - 1

\* Two's complement: the low n bits, the rest, one bit, and SignExtend<n>.
Low(v, n) == v % 2^n
Shr(v, n) == v \div 2^n
Bit(v, n) == Shr(v, n) % 2
Signed(v, n) == Low(v + 2^(n - 1), n) - 2^(n - 1)

Flag(condition) == IF condition THEN 1 ELSE 0

AccName == {"a0", "a1", "b0", "b1"}
FlagName == {"flm", "fvl", "fe", "fc0", "fc1", "fv", "fn", "fm", "fz", "fr"}
Unit == 0 .. 7

CounterAcc == [a0 |-> "a1", a1 |-> "a0", b0 |-> "b1", b1 |-> "b0"]

\* ar and arp registers: unit, step and offset of each entry.
ArEntry(rn, step, offset) == [rn |-> rn, step |-> step, offset |-> offset]
InitialAr  == [k \in 0 .. 3 |-> ArEntry(<<0, 4, 2, 6>>[k + 1], <<1, 4, 5, 3>>[k + 1], <<0, 1, 2, 0>>[k + 1])]
InitialArp == [k \in 0 .. 3 |-> LET e == ArEntry(k, <<1, 4, 5, 3>>[k + 1], <<0, 1, 2, 0>>[k + 1]) IN <<e, e>>]

\* The registers a context switch swaps with their shadows.
SwapName == {"pcmhi", "sat", "sata", "hwm", "s", "ps", "page", "stp16", "cmd", "m", "br",
             "im", "imv", "epi", "epj", "ar", "arp"}

Pair(v) == [u \in 0 .. 1 |-> v]
PerUnit(v) == [u \in Unit |-> v]

\* The shadows of ar and arp have no initial value in the code: junk stands for
\* what they hold until Reset clears them.  bank is for banke, kept holds the flags.
RegisterState(junk) == [
    acc |-> [n \in AccName |-> 0], a1s |-> 0, b1s |-> 0, ccnta |-> 1,
    repc |-> 0, repcs |-> 0, crep |-> 1,
    sat |-> 0, sata |-> 1, s |-> 0, sv |-> 0, vtr0 |-> 0, vtr1 |-> 0,
    flm |-> 0, fvl |-> 0, fe |-> 0, fc0 |-> 0, fc1 |-> 0, fv |-> 0, fn |-> 0, fm |-> 0,
    fz |-> 0, fr |-> 0,
    x |-> Pair(0), y |-> Pair(0), hwm |-> 0, p |-> Pair(0), pe |-> Pair(0), ps |-> Pair(0),
    p0h_cbs |-> 0, r |-> PerUnit(0), mixp |-> 0, page |-> 0, pcmhi |-> 0,
    stepi |-> 0, stepj |-> 0, modi |-> 0, modj |-> 0, stepi0 |-> 0, stepj0 |-> 0,
    m |-> PerUnit(0), br |-> PerUnit(0), stp16 |-> 0, cmd |-> 1, epi |-> 0, epj |-> 0,
    ar |-> InitialAr, arp |-> InitialArp, im |-> <<0, 0, 0>>, imv |-> 0,
    ip |-> <<0, 0, 0>>, ipv |-> 0, ic |-> <<0, 0, 0>>, nimc |-> 0, ie |-> 0,
    lp |-> 0, bcn |-> 0, cpc |-> 1, iu |-> Pair(0), ou |-> [k \in 0 .. 4 |-> 0],
    bank |-> [r |-> PerUnit(0), stepi |-> 0, stepj |-> 0, modi |-> 0, modj |-> 0,
              stepi0 |-> 0, stepj0 |-> 0],
    kept |-> [f \in FlagName |-> 0],
    swapped |-> [n \in SwapName |->
        CASE n \in {"m", "br"} -> PerUnit(0)
          [] n = "ps" -> Pair(0)
          [] n = "im" -> <<0, 0, 0>>
          [] n = "ar" -> [k \in 0 .. 3 |-> junk]
          [] n = "arp" -> [k \in 0 .. 3 |-> <<junk, junk>>]
          [] OTHER -> 0]]

-----------------------------------------------------------------------------
(***************************************************************************)
(* Accumulators: flags, and saturation on the way in and on the way out.   *)
(***************************************************************************)
SetAccFlag(g, value) ==
    LET fe == value # Signed(value, LongBits) IN
    [g EXCEPT !.fz = Flag(value = 0),
              !.fm = Flag(value < 0),
              !.fe = Flag(fe),
              !.fn = Flag(value = 0 \/ (~fe /\ Bit(value, LongBits - 1) # Bit(value, LongBits - 2)))]

Clip(value) ==
    IF value = Signed(value, LongBits) THEN value
    ELSE IF value < 0 THEN -(2^(LongBits - 1)) ELSE 2^(LongBits - 1) - 1

\* flm says that something was clipped.
SaturateAcc(g, value) == IF Clip(value) = value THEN g ELSE [g EXCEPT !.flm = 1]

SetAcc(g, name, value) == [g EXCEPT !.acc[name] = value]
SetAccAndFlag(g, name, value) == SetAcc(SetAccFlag(g, value), name, value)

SatAndSetAccAndFlag(g, name, value) ==
    LET flagged == SetAccFlag(g, value) IN
    IF g.sata = 0
    THEN SetAcc(SaturateAcc(flagged, value), name, Clip(value))
    ELSE SetAcc(flagged, name, value)

\* GetAndSatAcc: the value read, and the registers after it was read.
SatAcc(g, name) == IF g.sat = 0 THEN Clip(g.acc[name]) ELSE g.acc[name]
AfterSatAcc(g, name) == IF g.sat = 0 THEN SaturateAcc(g, g.acc[name]) ELSE g

ConditionPass(g, cond) ==
    CASE cond = "true" -> TRUE
      [] cond = "eq" -> g.fz = 1
      [] cond = "neq" -> g.fz = 0
      [] cond = "gt" -> g.fz = 0 /\ g.fm = 0
      [] cond = "ge" -> g.fm = 0
      [] cond = "lt" -> g.fm = 1
      [] cond = "le" -> g.fm = 1 \/ g.fz = 1
      [] cond = "nn" -> g.fn = 0
      [] cond = "c" -> g.fc0 = 1
      [] cond = "v" -> g.fv = 1
      [] cond = "e" -> g.fe = 1
      [] cond = "l" -> g.flm = 1 \/ g.fvl = 1
      [] cond = "nr" -> g.fr = 0

-----------------------------------------------------------------------------
(***************************************************************************)
(* Banks and shadows.                                                      *)
(***************************************************************************)
ShadowStore(g) == [g EXCEPT !.kept = [f \in FlagName |-> g[f]]]

ShadowRestore(g) == [n \in DOMAIN g |-> IF n \in FlagName THEN g.kept[n] ELSE g[n]]

ShadowSwap(g) ==
    [n \in DOMAIN g |->
        IF n \in SwapName THEN g.swapped[n]
        ELSE IF n = "swapped" THEN [k \in SwapName |-> g[k]]
        ELSE g[n]]

\* bankr: ar register i holds entries 2i and 2i+1, arp register i is entry i.
SwapAr(g, i) ==
    LET swap(to, from) == [k \in 0 .. 3 |-> IF k \div 2 = i THEN from[k] ELSE to[k]]
    IN  [g EXCEPT !.ar = swap(g.ar, g.swapped.ar), !.swapped.ar = swap(g.swapped.ar, g.ar)]
SwapArp(g, i) ==
    [g EXCEPT !.arp[i] = g.swapped.arp[i], !.swapped.arp[i] = g.arp[i]]

ContextStoreLate(g) ==
    LET swapped == ShadowSwap(g)
        rep     == IF g.crep = 0 THEN [swapped EXCEPT !.repcs = g.repc] ELSE swapped
    IN  IF g.ccnta = 0
        THEN [ShadowStore(rep) EXCEPT !.a1s = g.acc.a1, !.b1s = g.acc.b1]
        ELSE ShadowStore(SetAccAndFlag(SetAcc(rep, "b1", g.acc.a1), "a1", g.acc.b1))

ContextStore(g) ==
    LET stored == ShadowSwap(ShadowStore(g))
        rep    == IF g.crep = 0 THEN [stored EXCEPT !.repcs = g.repc] ELSE stored
    IN  IF g.ccnta = 0
        THEN [rep EXCEPT !.a1s = g.acc.a1, !.b1s = g.acc.b1]
        ELSE SetAccAndFlag(SetAcc(rep, "b1", g.acc.a1), "a1", g.acc.b1)

ContextRestore(g) ==
    LET restored == ShadowSwap(ShadowRestore(g))
        rep      == IF g.crep = 0 THEN [restored EXCEPT !.repc = g.repcs] ELSE restored
    IN  IF g.ccnta = 0
        THEN [rep EXCEPT !.acc.a1 = g.a1s, !.acc.b1 = g.b1s]
        ELSE [rep EXCEPT !.acc.a1 = g.acc.b1, !.acc.b1 = g.acc.a1]

\* banke: which of r0, r1, r4 and r7, and whether the step registers of i and of j.
banke(g, units, cfgi, cfgj) ==
    LET config == {n \in {"stepi", "modi", "stepi0"} : cfgi /\ (n = "stepi0" => g.stp16 = 1)}
             \cup {n \in {"stepj", "modj", "stepj0"} : cfgj /\ (n = "stepj0" => g.stp16 = 1)}
        from(h, bank, n) == IF n \in config THEN bank[n] ELSE h[n]
        fromR(r, other) == [u \in Unit |-> IF u \in units THEN other[u] ELSE r[u]]
    IN  [n \in DOMAIN g |->
            IF n = "r" THEN fromR(g.r, g.bank.r)
            ELSE IF n = "bank"
            THEN [k \in DOMAIN g.bank |->
                    IF k = "r" THEN fromR(g.bank.r, g.r) ELSE from(g.bank, g, k)]
            ELSE from(g, g.bank, n)]
=============================================================================
