----------------------------- MODULE StatusWords -----------------------------
(***************************************************************************)
(* The words in which firmware reads and writes the flags and the modes    *)
(* (the pseudo registers of include/teakra/impl/register.h): each is put   *)
(* together from slots, which no two of one word overlap.  So a word is    *)
(* kept as what its slots hold.  A slot is <<register>> or, of an array,   *)
(* <<register, index>>.                                                    *)
(***************************************************************************)
EXTENDS Registers

LOCAL INSTANCE FiniteSetsExt

Single(names) == {<<n>> : n \in names}
Every(name, indices) == {<<name, k>> : k \in indices}

Slots(word) ==
    CASE word = "cfgi" -> Single({"stepi", "modi"})
      [] word = "cfgj" -> Single({"stepj", "modj"})
      [] word = "stt0" -> Single({"flm", "fvl", "fe", "fc0", "fv", "fn", "fm", "fz", "fc1"})
      [] word = "stt1" -> Single({"fr"}) \cup Every("iu", 0 .. 1) \cup Every("pe", 0 .. 1)
      [] word = "stt2" -> Single({"ipv", "pcmhi", "bcn", "lp"}) \cup Every("ip", 1 .. 3)
      [] word = "mod0" -> Single({"sat", "sata", "hwm", "s"}) \cup Every("ou", 0 .. 1)
                            \cup Every("ps", 0 .. 1)
      [] word = "mod1" -> Single({"page", "stp16", "cmd", "epi", "epj"})
      [] word = "mod2" -> Every("m", Unit) \cup Every("br", Unit)
      [] word = "mod3" -> Single({"nimc", "ie", "imv", "ccnta", "cpc", "crep"})
                            \cup Every("ic", 1 .. 3) \cup Every("ou", 2 .. 4) \cup Every("im", 1 .. 3)
      [] word = "st0" -> Single({"sat", "ie", "fr", "flm_fvl", "fe", "fc0", "fv", "fn", "fm", "fz"})
                            \cup Every("im", 1 .. 2) \cup Every("extension", {"a0"})
      [] word = "st1" -> Single({"page"}) \cup Every("ps", {0}) \cup Every("extension", {"a1"})
      [] word = "st2" -> Single({"s"}) \cup Every("m", 0 .. 5) \cup Every("im", {3})
                            \cup Every("ou", 0 .. 1) \cup Every("iu", 0 .. 1) \cup Every("ip", 1 .. 3)
      [] word = "ar0" -> Every("ar", 0 .. 1)
      [] word = "ar1" -> Every("ar", 2 .. 3)
      [] word = "arp0" -> Every("arp", {0})
      [] word = "arp1" -> Every("arp", {1})
      [] word = "arp2" -> Every("arp", {2})
      [] word = "arp3" -> Every("arp", {3})

\* A write to one of these does nothing (RORedirector).
ReadOnly == {"iu", "ip", "ipv", "bcn"}

\* st0 and st1 hold the lower half of a guard.
ExtensionBits == GuardBits \div 2

Extended(value, extension) ==
    Low(value, LongBits) + Signed(extension, ExtensionBits) * 2^LongBits

ReadSlot(g, slot) ==
    LET n == slot[1] IN
    CASE n = "flm_fvl" -> Flag(g.flm = 1 \/ g.fvl = 1)
      [] n = "extension" -> Low(Shr(g.acc[slot[2]], LongBits), ExtensionBits)
      [] OTHER -> IF Len(slot) = 1 THEN g[n] ELSE g[n][slot[2]]

\* Writing a one to lp ends all loops.
WriteSlot(g, slot, value) ==
    LET n == slot[1] IN
    CASE n \in ReadOnly -> g
      [] n = "flm_fvl" -> [g EXCEPT !.flm = value, !.fvl = value]
      [] n = "extension" -> [g EXCEPT !.acc[slot[2]] = Extended(@, value)]
      [] n = "lp" -> IF value = 0 THEN g ELSE [g EXCEPT !.lp = 0, !.bcn = 0]
      [] OTHER -> IF Len(slot) = 1 THEN [g EXCEPT ![n] = value]
                                   ELSE [g EXCEPT ![n][slot[2]] = value]

GetStatus(g, word) == [slot \in Slots(word) |-> ReadSlot(g, slot)]
SetStatus(g, held) ==
    FoldSet(LAMBDA slot, h : WriteSlot(h, slot, held[slot]), g, DOMAIN held)
=============================================================================
