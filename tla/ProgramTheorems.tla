--------------------------- MODULE ProgramTheorems ---------------------------
(***************************************************************************)
(* What firmware computes with the instructions, for words and guards of   *)
(* any width and all the values that fit: the quotients of its divisions,  *)
(* what the conditions decide after comparisons and bit tests, and the     *)
(* registers that come back after a context switch, an exchange of banks   *)
(* and a swap of accumulators.                                             *)
(***************************************************************************)
EXTENDS Programs, NaturalLemmas

-----------------------------------------------------------------------------
(***************************************************************************)
(* Numbers of a width                                                      *)
(***************************************************************************)
\* Every number is a multiple of a and less than a more, and only of one multiple.
LEMMA SignedDivision ==
    ASSUME NEW a \in Nat, a > 0, NEW v \in Int
    PROVE  /\ v \div a \in Int /\ v % a \in 0 .. a - 1
           /\ v = (v \div a) * a + (v % a)
<1>1. v \div a \in Int /\ v % a \in 0 .. a - 1
  OBVIOUS
<1>2. v % a = v - a * (v \div a)
  BY SMTT(30)
<1>3. a * (v \div a) = (v \div a) * a /\ a * (v \div a) \in Int
  BY <1>1
<1> DEFINE y == a * (v \div a)
<1>4. y \in Int /\ v % a = v - y /\ y = (v \div a) * a
  BY <1>2, <1>3
<1> HIDE DEF y
<1>5. v = y + (v % a)
  BY <1>4
<1>6. QED
  BY <1>1, <1>4, <1>5

LEMMA SignedQuotient ==
    ASSUME NEW a \in Nat, a > 0, NEW q \in Int, NEW e \in 0 .. a - 1
    PROVE  (q * a + e) \div a = q /\ (q * a + e) % a = e
<1> DEFINE v == q * a + e
           m == v \div a
           f == v % a
<1>0. v \in Int
  OBVIOUS
<1>1. m \in Int /\ f \in 0 .. a - 1 /\ v = m * a + f
  BY <1>0, SignedDivision
<1>2. v = q * a + e
  OBVIOUS
<1> HIDE DEF v, m, f
<1>3. m * a - q * a = e - f /\ e - f < a /\ f - e < a
  BY <1>0, <1>1, <1>2
<1>4. (m - q) * a = m * a - q * a
  BY <1>1
<1>5. ASSUME m - q >= 1 PROVE FALSE
  <2>1. (m - q) * a >= a
    BY <1>1, <1>5
  <2>2. QED
    BY <1>1, <1>3, <1>4, <2>1
<1>6. ASSUME q - m >= 1 PROVE FALSE
  <2>1. (q - m) * a >= a /\ (q - m) * a = q * a - m * a
    BY <1>1, <1>6
  <2>2. QED
    BY <1>1, <1>3, <2>1
<1>7. m = q
  BY <1>1, <1>5, <1>6
<1>8. f = e
  BY <1>0, <1>1, <1>2, <1>7
<1>9. QED
  BY <1>7, <1>8 DEF v, m, f

\* The powers of two that the widths of the registers stand for.
LEMMA Widths ==
    /\ WordBits \in Nat /\ WordBits >= 2
    /\ LongBits \in Nat /\ LongBits = WordBits + WordBits
    /\ AccBits \in Nat /\ AccBits = LongBits + GuardBits /\ AccBits > LongBits + 3
  BY RegistersAssumption DEF LongBits, AccBits

\* Half of a range.
LEMMA PowerHalves ==
    ASSUME NEW n \in Nat, n > 0
    PROVE  /\ n - 1 \in Nat
           /\ 2^(n - 1) \in Nat 
           /\ 2^(n - 1) > 0 
           /\ 2^n \in Nat
           /\ 2^n = 2 * 2^(n - 1)
<1>1. n - 1 \in Nat /\ (n - 1) + 1 = n
  OBVIOUS
<1>2. 2^(n - 1) \in Nat /\ 2^(n - 1) > 0
  BY <1>1, PowerPositive
<1>3. 2^((n - 1) + 1) = 2 * 2^(n - 1)
  BY <1>1, PowerDoubles
<1>4. 2^n \in Nat
  BY PowerPositive
<1>5. 2^n = 2 * 2^(n - 1)
  BY <1>1, <1>3
<1>6. QED
  BY <1>1, <1>2, <1>4, <1>5

\* Sign extension: the number of the range that differs by a multiple of its size.
LEMMA SignedIs ==
    ASSUME NEW n \in Nat, n > 0, NEW v \in Int
    PROVE  /\ Signed(v, n) \in SignedRange(n)
           /\ Signed(v, n) \in Int
           /\ \E k \in Int : v = k * 2^n + Signed(v, n)
           /\ v \in SignedRange(n) => Signed(v, n) = v
<1> DEFINE h == 2^(n - 1)
           a == 2^n
<1>1. h \in Nat /\ h > 0 /\ a = 2 * h /\ a \in Nat
  BY PowerHalves
<1>2. Signed(v, n) = ((v + h) % a) - h
  BY DEF Signed, Low
<1>3. SignedRange(n) = -h .. h - 1
  BY DEF SignedRange
<1> HIDE DEF h, a
<1>4. /\ (v + h) \div a \in Int /\ (v + h) % a \in 0 .. a - 1
      /\ v + h = ((v + h) \div a) * a + ((v + h) % a)
  BY <1>1, SignedDivision
<1>5. v \in -h .. h - 1 => (v + h) % a = v + h
  BY <1>1
<1>6. /\ Signed(v, n) \in -h .. h - 1 /\ Signed(v, n) \in Int
      /\ v \in -h .. h - 1 => Signed(v, n) = v
  BY <1>1, <1>2, <1>4, <1>5
<1>7. v = ((v + h) \div a) * a + Signed(v, n)
  BY <1>1, <1>2, <1>4
<1>8. \E k \in Int : v = k * a + Signed(v, n)
  BY <1>4, <1>7
<1>9. QED
  BY <1>3, <1>6, <1>8 DEF a

\* Only one number of the range differs from v by a multiple of its size.
LEMMA SignedUnique ==
    ASSUME NEW n \in Nat, n > 0, NEW k \in Int, NEW w \in SignedRange(n)
    PROVE  Signed(k * 2^n + w, n) = w
<1> DEFINE h == 2^(n - 1)
           a == 2^n
<1>1. h \in Nat /\ h > 0 /\ a = 2 * h /\ a \in Nat
  BY PowerHalves
<1>2. Signed(k * a + w, n) = ((k * a + w + h) % a) - h
  BY DEF Signed, Low
<1>3. w \in -h .. h - 1
  BY DEF SignedRange
<1> HIDE DEF h, a
<1> DEFINE e == w + h
<1>4. e \in 0 .. a - 1 /\ w = e - h /\ k * a \in Int
  BY <1>1, <1>3
<1>5. k * a + w + h = k * a + e
  BY <1>1, <1>3, <1>4
<1> HIDE DEF e
<1>6. (k * a + e) % a = e
  BY <1>1, <1>4, SignedQuotient
<1>7. Signed(k * a + w, n) = w
  BY <1>2, <1>4, <1>5, <1>6
<1>8. QED
  BY <1>7 DEF a

\* Ranges nest.
LEMMA RangesNest ==
    ASSUME NEW m \in Nat, m > 0, NEW n \in Nat, m <= n
    PROVE  SignedRange(m) \subseteq SignedRange(n) /\ SignedRange(n) \subseteq Int
<1>1. 2^(m - 1) <= 2^(n - 1) /\ 2^(m - 1) \in Nat /\ 2^(n - 1) \in Nat
  BY PowerGrows, PowerHalves
<1>2. QED
  BY <1>1 DEF SignedRange

\* A repeated instruction: one of them is carried out, the others are left.
LEMMA TimesLeft ==
    ASSUME NEW n \in Nat, NEW i
    PROVE  /\ Times(n, i) = <<>> <=> n = 0
           /\ n > 0 => Times(n, i)[1] = i /\ Tail(Times(n, i)) = Times(n - 1, i)
<1>1. Len(Times(n, i)) = n /\ Times(n, i) \in Seq({i})
  BY DEF Times
<1>2. n > 0 => Times(n, i)[1] = i
  BY DEF Times
<1>3. n = 0 => Times(n, i) = <<>>
  BY <1>1
<1>4. n > 0 => Times(n, i) # <<>>
  BY <1>1
<1>5. n > 0 => Tail(Times(n, i)) = Times(n - 1, i)
  BY DEF Times
<1>6. QED
  BY <1>2, <1>3, <1>4, <1>5

\* What of the registers the instructions on accumulators need.
HasAcc(g) == /\ {"acc", "fz", "fm", "fe", "fn", "fc0", "fv", "fvl", "flm"} \subseteq DOMAIN g
             /\ DOMAIN g.acc = AccName

LEMMA SetAccAndFlagIs ==
    ASSUME NEW g, HasAcc(g), NEW name \in AccName, NEW v
    PROVE  /\ HasAcc(SetAccAndFlag(g, name, v))
           /\ SetAccAndFlag(g, name, v).acc = [g.acc EXCEPT ![name] = v]
           /\ SetAccAndFlag(g, name, v).fz = Flag(v = 0)
           /\ SetAccAndFlag(g, name, v).fm = Flag(v < 0)
           /\ \A f \in DOMAIN g \ {"acc", "fz", "fm", "fe", "fn"} : SetAccAndFlag(g, name, v)[f] = g[f]
  BY DEF SetAccAndFlag, SetAcc, SetAccFlag, HasAcc, AccName

LEMMA FreshHasAcc ==
    /\ HasAcc(Fresh)
    /\ Fresh.fz = 0 /\ Fresh.fm = 0
  BY DEF Fresh, RegisterState, HasAcc

\* The step.
LEMMA OnlyDivs ==
    ASSUME RoutineNext, ~Done, todo[1].op = "divs"
    PROVE  /\ Divs(todo[1]) /\ todo' = Tail(todo)
           /\ UNCHANGED <<data, stack, start, routine>>
  BY DEF RoutineNext, Execute, Access, Push, Pop

LEMMA OneBit ==
    ASSUME NEW P \in Nat, NEW S \in Nat, NEW da \in Nat, NEW q \in Nat, NEW rem \in Nat,
           NEW A \in Int, NEW h \in Nat, P > 0,
           h = P * S, q < P, rem < da * (2 * S), A = P * rem + q
    PROVE  \/ /\ A - da * h < 0
              /\ rem < da * S /\ 2 * q < 2 * P /\ 2 * A = (2 * P) * rem + 2 * q
              /\ da * (2 * S) * q + rem = da * S * (2 * q) + rem
              /\ 0 <= 2 * A /\ 2 * A < 2 * (da * h)
           \/ /\ A - da * h >= 0
              /\ rem - da * S \in Nat /\ rem - da * S < da * S
              /\ 2 * q + 1 < 2 * P
              /\ 2 * (A - da * h) + 1 = (2 * P) * (rem - da * S) + (2 * q + 1)
              /\ da * (2 * S) * q + rem = da * S * (2 * q + 1) + (rem - da * S)
              /\ 2 * (A - da * h) + 1 < 2 * (da * h)
<1> DEFINE T == da * S
           X == da * h
<1>1. T \in Nat /\ X \in Nat /\ X = P * T /\ da * (2 * S) = 2 * T
  BY SMTT(30)
<1>2. da * (2 * S) * q = 2 * (T * q) /\ da * S * (2 * q) = 2 * (T * q) /\ T * q \in Int
  BY SMTT(30)
<1>3. da * S * (2 * q + 1) = 2 * (T * q) + T
  BY SMTT(30)
<1> HIDE DEF T, X
<1>4. CASE rem < T
  <2> DEFINE x == T - rem
             Y == P * x
  <2>1. x \in Nat /\ x >= 1 /\ rem = T - x
    BY <1>1, <1>4
  <2> HIDE DEF x
  <2>2. Y \in Nat /\ Y >= P /\ P * rem = X - Y
    BY <1>1, <2>1
  <2>3. P * rem \in Nat
    OBVIOUS
  <2> HIDE DEF Y
  <2>4. A - X < 0 /\ A < X /\ 0 <= A
    BY <1>1, <2>2, <2>3
  <2>5. 2 * A = (2 * P) * rem + 2 * q /\ 2 * q < 2 * P
    OBVIOUS
  <2>6. 2 * A < 2 * X /\ 0 <= 2 * A
    BY <1>1, <2>4
  <2>7. QED
    BY <1>1, <1>2, <1>4, <2>4, <2>5, <2>6 DEF T, X
<1>5. CASE rem >= T
  <2> DEFINE x == rem - T
             Y == P * x
  <2>1. x \in Nat /\ rem = T + x /\ x < T /\ T - x >= 1
    BY <1>1, <1>5
  <2> HIDE DEF x
  <2>2. Y \in Nat /\ P * rem = X + Y
    BY <1>1, <2>1
  <2>3. P * (T - x) >= P /\ P * (T - x) = X - Y
    BY <1>1, <2>1
  <2>4. 2 * Y = (2 * P) * x
    BY <2>1
  <2> HIDE DEF Y
  <2>5. A - X = Y + q
    BY <1>1, <2>2
  <2>6. A - X >= 0 /\ A - X < X
    BY <1>1, <2>2, <2>3, <2>5
  <2>7. 2 * (A - X) + 1 = 2 * Y + (2 * q + 1)
    BY <1>1, <2>2, <2>5
  <2>8. 2 * (A - X) + 1 < 2 * X /\ 2 * q + 1 < 2 * P
    BY <1>1, <2>6
  <2>9. da * (2 * S) * q + rem = da * S * (2 * q + 1) + x
    BY <1>1, <1>2, <1>3, <2>1
  <2>10. x = rem - da * S
    BY <2>1 DEF T, x
  <2>11. QED
    BY <2>1, <2>4, <2>6, <2>7, <2>8, <2>9, <2>10 DEF T, X
<1>6. QED
  BY <1>1, <1>4, <1>5

-----------------------------------------------------------------------------
\* The instruction that Divide repeats.
DivStep == [op |-> "divs", da |-> routine.da, acc |-> "a0"]

\* After k steps: the k bits of the quotient q and what is left of the dividend.
Partial(k, q, rem) ==
    /\ q < 2^k
    /\ rem < routine.da * 2^(WordBits - k)
    /\ regs.acc.a0 = 2^k * rem + q
    /\ routine.d = routine.da * 2^(WordBits - k) * q + rem

DivideInv ==
    Is("divide") /\ routine.d < routine.da * 2^WordBits =>
        /\ routine.d \in Nat /\ routine.da \in Word
        /\ HasAcc(regs)
        /\ \E k \in 0 .. WordBits :
            /\ todo = Times(WordBits - k, DivStep)
            /\ \E q, rem \in Nat : Partial(k, q, rem)

LEMMA PowerMid ==
    ASSUME NEW k \in 0 .. WordBits - 1
    PROVE  /\ 2^k \in Nat /\ 2^k > 0 /\ 2^(k + 1) = 2 * 2^k
           /\ 2^(WordBits - k - 1) \in Nat
           /\ 2^(WordBits - k) = 2 * 2^(WordBits - k - 1)
           /\ 2^(WordBits - 1) = 2^k * 2^(WordBits - k - 1)
<1>1. k \in Nat /\ WordBits - k - 1 \in Nat /\ k + (WordBits - k - 1) = WordBits - 1
      /\ (WordBits - k - 1) + 1 = WordBits - k
  BY Widths
<1>2. 2^k \in Nat /\ 2^k > 0 /\ 2^(k + 1) = 2 * 2^k
  BY <1>1, PowerDoubles, PowerPositive
<1>3. 2^((WordBits - k - 1) + 1) = 2 * 2^(WordBits - k - 1) /\ 2^(WordBits - k - 1) \in Nat
  BY <1>1, PowerDoubles, PowerPositive
<1>4. 2^(k + (WordBits - k - 1)) = 2^k * 2^(WordBits - k - 1)
  BY <1>1, PowerSum
<1>5. QED
  BY <1>1, <1>2, <1>3, <1>4

\* Twice a word times half a word fits an accumulator.
LEMMA DivFits ==
    ASSUME NEW da \in Word, NEW v \in Int, 0 <= v, v < 2 * (da * 2^(WordBits - 1))
    PROVE  v \in SignedRange(AccBits)
<1> DEFINE h == 2^(WordBits - 1)
           w == 2^WordBits
           l == 2^LongBits
           a == 2^(AccBits - 1)
<1>1. h \in Nat /\ w = 2 * h /\ w \in Nat
  BY Widths, PowerHalves
<1>2. l = w * w
  BY Widths, PowerSum
<1>3. l <= a /\ a \in Nat
  <2>1. LongBits \in Nat /\ AccBits - 1 \in Nat /\ LongBits <= AccBits - 1
    BY Widths
  <2>2. QED
    BY <2>1, PowerGrows, PowerPositive
<1>4. da \in Nat /\ da < w
  BY <1>1 DEF Word
<1>5. 0 <= v /\ v < 2 * (da * h)
  OBVIOUS
<1> HIDE DEF h, w, l, a
<1>6. 2 * (da * h) = da * w
  BY <1>1, <1>4
<1>7. da * w <= w * w
  BY <1>1, <1>4
<1>8. v < a
  BY <1>1, <1>2, <1>3, <1>4, <1>5, <1>6, <1>7
<1>9. QED
  BY <1>3, <1>5, <1>8 DEF SignedRange, a

LEMMA DivideStep ==
    ASSUME Is("divide"), routine.d < routine.da * 2^WordBits, DivideInv, RoutineNext
    PROVE  DivideInv'
<1> DEFINE da == routine.da  d == routine.d  A == regs.acc.a0
<1>1. /\ d \in Nat /\ da \in Word /\ HasAcc(regs)
      /\ \E k \in 0 .. WordBits :
            /\ todo = Times(WordBits - k, DivStep)
            /\ \E q, rem \in Nat : Partial(k, q, rem)
  BY DEF DivideInv
<1>2. PICK k \in 0 .. WordBits :
            /\ todo = Times(WordBits - k, DivStep)
            /\ \E q, rem \in Nat : Partial(k, q, rem)
  BY <1>1
<1>3. PICK q \in Nat, rem \in Nat : Partial(k, q, rem)
  BY <1>2
<1>4. ~Done
  BY DEF RoutineNext, Execute, Access, Push, Pop
<1>5. WordBits - k \in Nat /\ k \in Nat /\ WordBits \in Nat
  BY Widths
<1>6. k \in 0 .. WordBits - 1
  BY <1>2, <1>4, <1>5, TimesLeft DEF Done
<1>7. todo[1] = DivStep /\ Tail(todo) = Times(WordBits - (k + 1), DivStep)
  <2>1. WordBits - k > 0 /\ (WordBits - k) - 1 = WordBits - (k + 1)
    BY <1>5, <1>6
  <2>2. QED
    BY <1>2, <1>5, <2>1, TimesLeft
<1>8. Divs(DivStep) /\ todo' = Tail(todo) /\ UNCHANGED routine
  <2>1. todo[1].op = "divs"
    BY <1>7 DEF DivStep
  <2>2. QED
    BY <1>4, <1>7, <2>1, OnlyDivs
<1> DEFINE value == A - da * 2^(WordBits - 1)
           next == Signed(IF value < 0 THEN 2 * A ELSE 2 * value + 1, AccBits)
<1>9. regs' = SetAccAndFlag(regs, "a0", next)
  BY <1>8 DEF Divs, divs, DivStep
<1>10. next = Signed(IF value < 0 THEN 2 * A ELSE 2 * value + 1, AccBits)
  OBVIOUS
<1> HIDE DEF next
<1>11. HasAcc(regs') /\ regs'.acc.a0 = next
  <2>1. "a0" \in AccName /\ DOMAIN regs.acc = AccName
    BY <1>1 DEF HasAcc, AccName
  <2>2. regs'.acc = [regs.acc EXCEPT !["a0"] = next] /\ HasAcc(regs')
    BY <1>1, <1>9, <2>1, SetAccAndFlagIs
  <2>3. QED
    BY <2>1, <2>2
<1>12. \E q2, rem2 \in Nat :
            /\ q2 < 2^(k + 1)
            /\ rem2 < da * 2^(WordBits - (k + 1))
            /\ next = 2^(k + 1) * rem2 + q2
            /\ d = da * 2^(WordBits - (k + 1)) * q2 + rem2
  <2> DEFINE P == 2^k
             S == 2^(WordBits - k - 1)
             h == 2^(WordBits - 1)
             next2 == IF A - da * h < 0 THEN 2 * A ELSE 2 * (A - da * h) + 1
  <2>1. /\ P \in Nat /\ P > 0 /\ S \in Nat /\ h = P * S /\ h \in Nat
        /\ 2^(k + 1) = 2 * P /\ 2^(WordBits - k) = 2 * S /\ 2^(WordBits - (k + 1)) = S
    <3>1. WordBits - (k + 1) = WordBits - k - 1
      BY <1>5
    <3>2. QED
      BY <1>6, <3>1, PowerMid
  <2>2. da \in Nat
    BY <1>1, <1>5, PowerPositive DEF Word
  <2>3. /\ q < P /\ rem < da * (2 * S) /\ A = P * rem + q
        /\ d = da * (2 * S) * q + rem
    BY <1>3, <2>1 DEF Partial
  <2>4. next = Signed(next2, AccBits)
    BY <1>10
  <2> HIDE DEF P, S, h, A, d, da
  <2>5. A \in Int
    BY <2>1, <2>3
  <2>6. \/ /\ A - da * h < 0
           /\ rem < da * S /\ 2 * q < 2 * P /\ 2 * A = (2 * P) * rem + 2 * q
           /\ da * (2 * S) * q + rem = da * S * (2 * q) + rem
           /\ 0 <= 2 * A /\ 2 * A < 2 * (da * h)
        \/ /\ A - da * h >= 0
           /\ rem - da * S \in Nat /\ rem - da * S < da * S
           /\ 2 * q + 1 < 2 * P
           /\ 2 * (A - da * h) + 1 = (2 * P) * (rem - da * S) + (2 * q + 1)
           /\ da * (2 * S) * q + rem = da * S * (2 * q + 1) + (rem - da * S)
           /\ 2 * (A - da * h) + 1 < 2 * (da * h)
    BY <2>1, <2>2, <2>3, <2>5, OneBit
  <2>7. next2 \in Int /\ 0 <= next2 /\ next2 < 2 * (da * h)
    BY <2>1, <2>2, <2>5, <2>6
  <2>8. next = next2
    <3>1. da \in Word
      BY <1>1 DEF da
    <3>2. next2 < 2 * (da * 2^(WordBits - 1))
      BY <2>7 DEF h
    <3> HIDE DEF next2
    <3>3. next2 \in SignedRange(AccBits)
      BY <2>7, <3>1, <3>2, DivFits
    <3>4. QED
      BY <2>4, <2>7, <3>3, Widths, SignedIs
  <2>9. CASE A - da * h < 0
    <3>1. next2 = 2 * A /\ ~(A - da * h >= 0)
      BY <2>1, <2>2, <2>5, <2>9
    <3>2. 2 * q < 2 * P /\ rem < da * S /\ 2 * q \in Nat
      BY <2>6, <3>1
    <3>3. next2 = (2 * P) * rem + 2 * q
      BY <2>6, <3>1
    <3>4. d = da * S * (2 * q) + rem
      BY <2>3, <2>6, <3>1
    <3>5. next = 2^(k + 1) * rem + 2 * q
      BY <2>1, <2>8, <3>3
    <3>6. QED
      BY <2>1, <3>2, <3>4, <3>5
  <2>10. CASE A - da * h >= 0
    <3>1. next2 = 2 * (A - da * h) + 1 /\ ~(A - da * h < 0)
      BY <2>1, <2>2, <2>5, <2>10
    <3>2. 2 * q + 1 < 2 * P /\ rem - da * S < da * S /\ rem - da * S \in Nat /\ 2 * q + 1 \in Nat
      BY <2>6, <3>1
    <3>3. next2 = (2 * P) * (rem - da * S) + (2 * q + 1)
      BY <2>6, <3>1
    <3>4. d = da * S * (2 * q + 1) + (rem - da * S)
      BY <2>3, <2>6, <3>1
    <3>5. next = 2^(k + 1) * (rem - da * S) + (2 * q + 1)
      BY <2>1, <2>8, <3>3
    <3>6. QED
      BY <2>1, <3>2, <3>4, <3>5
  <2>11. QED
    BY <2>1, <2>2, <2>5, <2>9, <2>10
<1>13. DivStep' = DivStep
  BY <1>8 DEF DivStep
<1>14. \E q2, rem2 \in Nat : Partial(k + 1, q2, rem2)'
  BY <1>8, <1>11, <1>12 DEF Partial
<1>15. todo' = Times(WordBits - (k + 1), DivStep') /\ k + 1 \in 0 .. WordBits
  BY <1>6, <1>7, <1>8, <1>13, Widths
<1>16. QED
  BY <1>1, <1>8, <1>11, <1>14, <1>15 DEF DivideInv, Is

-----------------------------------------------------------------------------
(***************************************************************************)
(* The programs that the proofs are about, by their kinds.                 *)
(***************************************************************************)
LEMMA CompareIs ==
    ASSUME Compare
    PROVE  \/ Is("cmp") /\ \E v \in AccValues, alm \in {"cmp", "cmpu"}, w \in Word : CompareWith(v, alm, w)
           \/ Is("cmpv") /\ \E a, b \in Word : CompareWords(a, b)
           \/ Is("tst4b") /\ \E v \in EdgeValues, sv \in WordValues, w \in Word : TestAtPointer(v, sv, w)
<1>1. ASSUME NEW v, NEW alm, NEW w, CompareWith(v, alm, w) PROVE Is("cmp")
  BY <1>1 DEF CompareWith, Begin, BeginWith, Is
<1>2. ASSUME NEW a, NEW b, CompareWords(a, b) PROVE Is("cmpv")
  BY <1>2 DEF CompareWords, Begin, BeginWith, Is
<1>3. ASSUME NEW v, NEW sv, NEW w, TestAtPointer(v, sv, w) PROVE Is("tst4b")
  BY <1>3 DEF TestAtPointer, BeginWith, Is
<1>4. QED
  BY <1>1, <1>2, <1>3 DEF Compare

LEMMA OneOperationIs ==
    ASSUME OneOperation
    PROVE  routine.kind \in {"alm", "moda", "addhp", "movacc", "lim"}
<1>1. ASSUME NEW g, AlmOnce(g) PROVE Is("alm")
  BY <1>1 DEF AlmOnce, Begin, BeginWith, Is
<1>2. ASSUME NEW g, ModaOnce(g) PROVE Is("moda")
  BY <1>2 DEF ModaOnce, Begin, BeginWith, Is
<1>3. ASSUME NEW g, AddhpOnce(g) PROVE Is("addhp")
  BY <1>3 DEF AddhpOnce, BeginWith, Is
<1>4. ASSUME NEW g, MovOnce(g) PROVE Is("movacc")
  BY <1>4 DEF MovOnce, Begin, BeginWith, Is
<1>5. ASSUME NEW g, LimOnce(g) PROVE Is("lim")
  BY <1>5 DEF LimOnce, Begin, BeginWith, Is
<1>6. QED
  BY <1>1, <1>2, <1>3, <1>4, <1>5 DEF OneOperation, Is

LEMMA ShiftOrRoundIs ==
    ASSUME ShiftOrRound
    PROVE  routine.kind \in {"movs", "movr_word", "rounded", "movr"}
<1>1. ASSUME NEW g, NEW w, ShiftOnce(g, w) PROVE Is("movs")
  BY <1>1 DEF ShiftOnce, Begin, BeginWith, Is
<1>2. ASSUME NEW g, NEW w, NEW kind, NEW op, RoundOnce(kind, op, g, w) PROVE Is(kind)
  BY <1>2 DEF RoundOnce, BeginWith, Is
<1>3. QED
  BY <1>1, <1>2 DEF ShiftOrRound, Is

LEMMA Kinds ==
    ASSUME ProgramsInit
    PROVE  /\ Is("divide") => Divide
           /\ routine.kind \in {"shift", "norm"} => Normalise
           /\ routine.kind \in {"cmp", "cmpv", "tst4b"} => Compare
           /\ Is("cmpa") => CompareAccs
           /\ Is("tstb") => TestBit
           /\ Is("switch") => Switch
           /\ Is("exchange") => Exchange
           /\ Is("bankr") => ExchangeAr
           /\ Is("swap") => Swaps
           /\ Is("search") => Search
           /\ Is("clear") => ClearTwo
<1>1. SumOfProducts => routine.kind = "products"
  BY DEF SumOfProducts, Begin, BeginWith
<1>2. LongMultiply => routine.kind = "long"
  BY DEF LongMultiply, Begin, BeginWith
<1>3. ProductsAtOnce => routine.kind = "app"
  BY DEF ProductsAtOnce, Begin, BeginWith
<1>4. LongSquares => routine.kind = "squares"
  BY DEF LongSquares, Begin, BeginWith
<1>5. DelayLine => routine.kind = "delay"
  BY DEF DelayLine, Begin, BeginWith
<1>6. WalkBoth => routine.kind = "walk_both"
  BY DEF WalkBoth, Begin, BeginWith
<1>7. Survivors => routine.kind = "vtr"
  BY DEF Survivors, Begin, BeginWith
<1>8. Codebook => routine.kind = "cbs"
  BY DEF Codebook, Begin, BeginWith
<1>9. Walk => routine.kind = "walk"
  BY DEF Walk, Begin, BeginWith
<1>10. ReverseWalk => routine.kind = "reverse"
  BY DEF ReverseWalk, Begin, BeginWith
<1>11. Switch => routine.kind = "switch"
  BY DEF Switch, SwitchOnce, Begin, BeginWith
<1>12. Exchange => routine.kind = "exchange"
  BY DEF Exchange, Begin, BeginWith
<1>13. ExchangeAr => routine.kind = "bankr"
  BY DEF ExchangeAr, Begin, BeginWith
<1>14. Save => routine.kind = "save"
  BY DEF Save, Begin, BeginWith
<1>15. SaveStatus => routine.kind = "status"
  BY DEF SaveStatus, Begin, BeginWith
<1>16. Filter => routine.kind = "filter"
  BY DEF Filter, Begin, BeginWith
<1>17. Complex => routine.kind = "complex"
  BY DEF Complex, Begin, BeginWith
<1>18. Energy => routine.kind = "energy"
  BY DEF Energy, Begin, BeginWith
<1>19. Butterfly => routine.kind = "butterfly"
  BY DEF Butterfly, Begin, BeginWith
<1>20. Offsets => routine.kind = "offsets"
  BY DEF Offsets, Begin, BeginWith
<1>21. Relay => routine.kind = "relay"
  BY DEF Relay, Begin, BeginWith
<1>22. Tables => routine.kind = "tables"
  BY DEF Tables, Begin, BeginWith
<1>23. StoreLong => routine.kind = "long_store"
  BY DEF StoreLong, Begin, BeginWith
<1>24. StoreApart => routine.kind = "apart_store"
  BY DEF StoreApart, Begin, BeginWith
<1>25. ExchangeTwice => routine.kind = "exchange_twice"
  BY DEF ExchangeTwice, Begin, BeginWith
<1>26. Names => routine.kind = "names"
  BY DEF Names, Begin, BeginWith
<1>27. Swaps => routine.kind = "swap"
  BY DEF Swaps, Begin, BeginWith
<1>28. Divide => routine.kind = "divide"
  BY DEF Divide, Begin, BeginWith
<1>29. CompareAccs => routine.kind = "cmpa"
  BY DEF CompareAccs, Begin, BeginWith
<1>30. TestBit => routine.kind = "tstb"
  BY DEF TestBit, Begin, BeginWith
<1>31. AndOr => routine.kind = "logic"
  BY DEF AndOr, Begin, BeginWith
<1>32. ClearTwo => routine.kind = "clear"
  BY DEF ClearTwo, Begin, BeginWith
<1>33. Rotate => routine.kind = "rotate"
  BY DEF Rotate, Begin, BeginWith
<1>34. Search => routine.kind = "search"
  BY DEF Search, Begin, BeginWith
<1>35. Normalise => routine.kind \in {"shift", "norm"}
  BY DEF Normalise, Begin, BeginWith
<1>36. Compare => routine.kind \in {"cmp", "cmpv", "tst4b"}
  BY CompareIs DEF Is
<1>37. QED
  BY <1>1, <1>2, <1>3, <1>4, <1>5, <1>6, <1>7, <1>8, <1>9, <1>10, <1>11, <1>12, <1>13,
     <1>14, <1>15, <1>16, <1>17, <1>18, <1>19, <1>20, <1>21, <1>22, <1>23, <1>24, <1>25,
     <1>26, <1>27, <1>28, <1>29, <1>30, <1>31, <1>32, <1>33, <1>34, <1>35, <1>36,
     OneOperationIs, ShiftOrRoundIs DEF ProgramsInit, Is

LEMMA AccValuesAreIntegers == AccValues \subseteq Int /\ EdgeValues \subseteq Int
<1>1. AccBits \in Nat /\ AccBits > 0
  BY Widths
<1>2. SignedRange(AccBits) \subseteq Int
  BY <1>1, RangesNest
<1>3. QED
  BY <1>2, ValuesAssumption

LEMMA DivideInit == ProgramsInit => DivideInv
<1> SUFFICES ASSUME ProgramsInit, Is("divide"), routine.d < routine.da * 2^WordBits
             PROVE  /\ routine.d \in Nat /\ routine.da \in Word
                    /\ HasAcc(regs)
                    /\ \E k \in 0 .. WordBits :
                        /\ todo = Times(WordBits - k, DivStep)
                        /\ \E q, rem \in Nat : Partial(k, q, rem)
  BY DEF DivideInv
<1>1. PICK d \in AccValues, da \in Word :
        /\ d >= 0
        /\ Begin([kind |-> "divide", d |-> d, da |-> da],
                 SetAccAndFlag(Fresh, "a0", d),
                 Times(WordBits, [op |-> "divs", da |-> da, acc |-> "a0"]))
  BY Kinds DEF Divide
<1>2. routine.d = d /\ routine.da = da /\ regs = SetAccAndFlag(Fresh, "a0", d)
      /\ todo = Times(WordBits, DivStep)
  BY <1>1 DEF Begin, BeginWith, DivStep
<1>3. d \in Nat
  BY <1>1, AccValuesAreIntegers
<1>4. HasAcc(regs) /\ regs.acc.a0 = d
  <2>1. "a0" \in AccName /\ DOMAIN Fresh.acc = AccName
    BY FreshHasAcc DEF HasAcc, AccName
  <2>2. HasAcc(regs) /\ regs.acc = [Fresh.acc EXCEPT !["a0"] = d]
    BY <1>2, <2>1, FreshHasAcc, SetAccAndFlagIs
  <2>3. QED
    BY <2>1, <2>2
<1>5. 0 \in 0 .. WordBits /\ WordBits - 0 = WordBits
  BY Widths
<1>6. Partial(0, 0, d)
  <2>1. 2^0 = 1
    OBVIOUS
  <2>2. da \in Nat /\ 2^WordBits \in Nat
    BY Widths, PowerPositive DEF Word
  <2>3. d < da * 2^WordBits /\ da * 2^WordBits * 0 = 0
    BY <1>2, <2>2
  <2>4. QED
    BY <1>2, <1>3, <1>4, <1>5, <2>1, <2>3 DEF Partial
<1>7. QED
  BY <1>1, <1>2, <1>3, <1>4, <1>5, <1>6

LEMMA DivideNext == DivideInv /\ [RoutineNext]_routineVars => DivideInv'
<1> SUFFICES ASSUME DivideInv, [RoutineNext]_routineVars
             PROVE  DivideInv'
  OBVIOUS
<1>1. CASE UNCHANGED routineVars
  BY <1>1 DEF routineVars, DivideInv, Is, DivStep, Partial
<1>2. CASE RoutineNext
  <2>1. routine' = routine
    BY <1>2 DEF RoutineNext, Execute, Access, Push, Pop
  <2>2. CASE Is("divide") /\ routine.d < routine.da * 2^WordBits
    BY <1>2, <2>2, DivideStep
  <2>3. CASE ~(Is("divide") /\ routine.d < routine.da * 2^WordBits)
    BY <2>1, <2>3 DEF DivideInv, Is
  <2>4. QED
    BY <2>2, <2>3
<1>3. QED
  BY <1>1, <1>2

LEMMA DivideEnds == DivideInv => DividesExactly
<1> SUFFICES ASSUME DivideInv, Ends("divide"), routine.d < routine.da * 2^WordBits
             PROVE  /\ Low(regs.acc.a0, WordBits) = routine.d \div routine.da
                    /\ Shr(regs.acc.a0, WordBits) = routine.d % routine.da
  BY DEF DividesExactly
<1> DEFINE w == 2^WordBits
<1>1. PICK k \in 0 .. WordBits :
        /\ todo = Times(WordBits - k, DivStep)
        /\ \E q, rem \in Nat : Partial(k, q, rem)
  BY DEF DivideInv, Ends
<1>2. PICK q \in Nat, rem \in Nat : Partial(k, q, rem)
  BY <1>1
<1>3. WordBits - k = 0 /\ k = WordBits
  <2>1. WordBits - k \in Nat
    BY Widths
  <2>2. WordBits - k = 0
    BY <1>1, <2>1, TimesLeft DEF Ends, Done
  <2>3. QED
    BY <2>2, Widths
<1>4. /\ w \in Nat /\ w > 0 /\ 2^0 = 1
      /\ routine.d \in Nat /\ routine.da \in Nat
  <2>1. routine.d \in Nat /\ routine.da \in Word
    BY DEF DivideInv, Ends
  <2>2. QED
    BY <2>1, Widths, PowerPositive DEF Word
<1>5. /\ q < w /\ rem < routine.da * 1 /\ regs.acc.a0 = w * rem + q
      /\ routine.d = routine.da * 1 * q + rem
  BY <1>2, <1>3, <1>4 DEF Partial
<1>6. /\ q \in 0 .. w - 1 /\ rem \in 0 .. routine.da - 1 /\ routine.da > 0
      /\ regs.acc.a0 = rem * w + q /\ routine.d = q * routine.da + rem
  BY <1>4, <1>5
<1> HIDE DEF w
<1>7. regs.acc.a0 \div w = rem /\ regs.acc.a0 % w = q
  BY <1>4, <1>6, SignedQuotient
<1>8. routine.d \div routine.da = q /\ routine.d % routine.da = rem
  <2> DEFINE da == routine.da  d == routine.d
  <2>1. da \in Nat /\ da > 0 /\ rem \in 0 .. da - 1 /\ q \in Int /\ d = q * da + rem
    BY <1>4, <1>6
  <2> HIDE DEF d, da
  <2>2. (q * da + rem) \div da = q /\ (q * da + rem) % da = rem
    BY <2>1, SignedQuotient
  <2>3. d \div da = q /\ d % da = rem
    BY <2>1, <2>2
  <2>4. QED
    BY <2>3 DEF d, da
<1>9. QED
  BY <1>7, <1>8 DEF Low, Shr, w

\* The quotient and the remainder that the repeated step leaves are those of the numbers.
THEOREM DivisionIsExact == ProgramsSpec => []DividesExactly
<1>1. ProgramsSpec => []DivideInv
  BY DivideInit, DivideNext, PTL DEF ProgramsSpec
<1>2. QED
  BY <1>1, DivideEnds, PTL

-----------------------------------------------------------------------------
(***************************************************************************)
(* Comparisons.                                                            *)
(***************************************************************************)
\* A program of one instruction: it is still to be carried out, or it was.
Ran(i, after) ==
    \/ todo = <<i>> /\ regs = start
    \/ todo = <<>> /\ regs = after

LEMMA OneLeft ==
    ASSUME NEW i, todo = <<i>>, RoutineNext
    PROVE  ~Done /\ todo[1] = i /\ todo' = <<>> /\ UNCHANGED <<start, routine>>
<1>1. todo # <<>> /\ todo[1] = i /\ Tail(todo) = <<>>
  OBVIOUS
<1>2. todo' = Tail(todo) /\ UNCHANGED <<start, routine>>
  BY DEF RoutineNext, Execute, Access, Push, Pop
<1>3. QED
  BY <1>1, <1>2 DEF Done

LEMMA NoneLeft == ASSUME todo = <<>> PROVE ~RoutineNext
  BY DEF RoutineNext, Execute, Access, Push, Pop, Done

LEMMA OnlyThese ==
    ASSUME RoutineNext, ~Done
    PROVE  /\ todo[1].op = "alm" => Alm(todo[1]) /\ data' = data
           /\ todo[1].op = "alb" => Alb(todo[1]) /\ data' = data
           /\ todo[1].op = "cmp" => CompareAcc(todo[1]) /\ data' = data
           /\ todo[1].op = "tstb" => Tstb(todo[1]) /\ data' = data
           /\ todo[1].op = "tst4b" => Tst4b(todo[1])
<1>1. todo[1].op = "alm" => Alm(todo[1]) /\ data' = data
  BY DEF RoutineNext, Execute, Access, Push, Pop
<1>2. todo[1].op = "alb" => Alb(todo[1]) /\ data' = data
  BY DEF RoutineNext, Execute, Access, Push, Pop
<1>3. todo[1].op = "cmp" => CompareAcc(todo[1]) /\ data' = data
  BY DEF RoutineNext, Execute, Access, Push, Pop
<1>4. todo[1].op = "tstb" => Tstb(todo[1]) /\ data' = data
  BY DEF RoutineNext, Execute, Access, Push, Pop
<1>5. todo[1].op = "tst4b" => Tst4b(todo[1])
  BY DEF RoutineNext, Execute, Access, Push, Pop
<1>6. QED
  BY <1>1, <1>2, <1>3, <1>4, <1>5

\* The conditions decide about x and y as the numbers do.
Agree(g, x, y) ==
    /\ ConditionPass(g, "eq") = (x = y) /\ ConditionPass(g, "neq") = (x # y)
    /\ ConditionPass(g, "gt") = (x > y) /\ ConditionPass(g, "ge") = (x >= y)
    /\ ConditionPass(g, "lt") = (x < y) /\ ConditionPass(g, "le") = (x <= y)

LEMMA FlagsAgree ==
    ASSUME NEW g, NEW x \in Int, NEW y \in Int,
           g.fz = Flag(x = y), g.fm = Flag(x < y)
    PROVE  Agree(g, x, y)
<1>1. ConditionPass(g, "eq") = (x = y) /\ ConditionPass(g, "neq") = (x # y)
  BY DEF ConditionPass, Flag
<1>2. ConditionPass(g, "gt") = (x > y) /\ ConditionPass(g, "ge") = (x >= y)
  BY DEF ConditionPass, Flag
<1>3. ConditionPass(g, "lt") = (x < y) /\ ConditionPass(g, "le") = (x <= y)
  BY DEF ConditionPass, Flag
<1>4. QED
  BY <1>1, <1>2, <1>3 DEF Agree

\* A difference of accumulators that does not fit, wraps to the other sign.
LEMMA Wraps ==
    ASSUME NEW a \in SignedRange(AccBits), NEW b \in SignedRange(AccBits)
    PROVE  /\ a \in Int /\ b \in Int
           /\ a - b \in SignedRange(AccBits) => Signed(a - b, AccBits) = a - b
           /\ a - b \notin SignedRange(AccBits) =>
                /\ (a < 0) = (b >= 0)
                /\ (Signed(a - b, AccBits) < 0) # (a < 0)
<1> DEFINE h == 2^(AccBits - 1)
           w == 2^AccBits
           v == a - b
<1>1. h \in Nat /\ h > 0 /\ w = 2 * h /\ AccBits \in Nat /\ AccBits > 0
  BY Widths, PowerHalves
<1>2. SignedRange(AccBits) = -h .. h - 1
  BY DEF SignedRange
<1> HIDE DEF h, w
<1>3. a \in Int /\ b \in Int /\ v \in Int
  BY <1>1, <1>2
<1>4. v \in SignedRange(AccBits) => Signed(v, AccBits) = v
  BY <1>1, <1>3, SignedIs
<1>5. CASE v > h - 1
  <2>1. a >= 0 /\ b < 0 /\ v - w \in SignedRange(AccBits) /\ v - w < 0
    BY <1>1, <1>2, <1>3, <1>5
  <2>2. Signed(1 * w + (v - w), AccBits) = v - w
    <3> DEFINE u == v - w  k == 1
    <3>1. u \in SignedRange(AccBits) /\ k \in Int
      BY <2>1
    <3> HIDE DEF u, k
    <3>2. Signed(k * w + u, AccBits) = u
      BY <1>1, <3>1, SignedUnique DEF w
    <3>3. QED
      BY <3>2 DEF u, k
  <2>3. 1 * w + (v - w) = v
    BY <1>1, <1>3
  <2>4. Signed(v, AccBits) = v - w
    BY <2>2, <2>3
  <2>5. v \notin SignedRange(AccBits)
    BY <1>1, <1>2, <1>3, <1>5
  <2>6. QED
    BY <1>3, <2>1, <2>4, <2>5
<1>6. CASE v < -h
  <2>1. a < 0 /\ b >= 0 /\ v + w \in SignedRange(AccBits) /\ v + w >= 0
    BY <1>1, <1>2, <1>3, <1>6
  <2>2. Signed((-1) * w + (v + w), AccBits) = v + w
    BY <1>1, <2>1, SignedUnique DEF w
  <2>3. (-1) * w + (v + w) = v
    BY <1>1, <1>3
  <2>4. Signed(v, AccBits) = v + w
    BY <2>2, <2>3
  <2>5. v \notin SignedRange(AccBits)
    BY <1>1, <1>2, <1>3, <1>6
  <2>6. QED
    BY <1>1, <1>3, <2>1, <2>4, <2>5
<1>7. CASE v \in -h .. h - 1
  BY <1>2, <1>3, <1>4, <1>7
<1>8. QED
  BY <1>1, <1>3, <1>5, <1>6, <1>7

\* The flags of a difference.
LEMMA DifferenceDecides ==
    ASSUME NEW g, HasAcc(g), NEW a \in SignedRange(AccBits), NEW b \in SignedRange(AccBits)
    PROVE  LET sum == AddSub(g, a, b, TRUE)
               after == SetAccFlag(sum.regs, sum.value)
           IN  IF a - b \in SignedRange(AccBits) THEN Agree(after, a, b)
               ELSE ConditionPass(after, "v")
<1> DEFINE sum == AddSub(g, a, b, TRUE)
           after == SetAccFlag(sum.regs, sum.value)
           value == Signed(a - b, AccBits)
<1>1. sum.value = value
  BY DEF AddSub
<1>2. sum.regs.fv = Flag(((a < 0) = (b >= 0)) /\ ((value < 0) # (a < 0)))
  BY DEF AddSub, HasAcc
<1>3. HasAcc(sum.regs)
  BY DEF AddSub, HasAcc
<1> HIDE DEF sum
<1>4. after.fz = Flag(value = 0) /\ after.fm = Flag(value < 0) /\ after.fv = sum.regs.fv
  BY <1>1, <1>3 DEF SetAccFlag, HasAcc
<1> HIDE DEF after, value
<1>5. CASE a - b \in SignedRange(AccBits)
  <2>1. value = a - b /\ a \in Int /\ b \in Int
    BY <1>5, Wraps DEF value
  <2>2. Flag(value = 0) = Flag(a = b) /\ Flag(value < 0) = Flag(a < b)
    BY <2>1
  <2>3. Agree(after, a, b)
    BY <1>4, <2>1, <2>2, FlagsAgree
  <2>4. QED
    BY <1>5, <2>3 DEF after, sum
<1>6. CASE a - b \notin SignedRange(AccBits)
  <2>1. after.fv = 1
    BY <1>2, <1>4, <1>6, Wraps DEF Flag, value
  <2>2. ConditionPass(after, "v")
    BY <2>1 DEF ConditionPass
  <2>3. QED
    BY <1>6, <2>2 DEF after, sum
<1>7. QED
  BY <1>5, <1>6

\* A word as a signed number.
LEMMA SignedWord ==
    ASSUME NEW u \in Word
    PROVE  /\ u \in Nat /\ Signed(u, WordBits) \in Int
           /\ Signed(u, WordBits) = IF u < 2^(WordBits - 1) THEN u ELSE u - 2^WordBits
           /\ 2^WordBits = 2 * 2^(WordBits - 1)
           /\ 2^(WordBits - 1) \in Nat /\ 2^(WordBits - 1) > 0 /\ u < 2^WordBits
<1> DEFINE h == 2^(WordBits - 1)
           w == 2^WordBits
<1>1. h \in Nat /\ h > 0 /\ w = 2 * h /\ WordBits \in Nat /\ WordBits > 0
  BY Widths, PowerHalves
<1>2. SignedRange(WordBits) = -h .. h - 1 /\ Word = 0 .. w - 1
  BY DEF SignedRange, Word
<1> HIDE DEF h, w
<1>3. u \in Nat /\ u < w
  BY <1>1, <1>2
<1>4. CASE u < h
  <2>1. u \in SignedRange(WordBits) /\ u \in Int
    BY <1>1, <1>2, <1>3, <1>4
  <2>2. Signed(u, WordBits) = u
    BY <1>1, <2>1, SignedIs
  <2>3. QED
    BY <1>1, <1>3, <1>4, <2>2 DEF h, w
<1>5. CASE ~(u < h)
  <2> DEFINE x == u - w
             k == 1
  <2>1. x \in SignedRange(WordBits) /\ x \in Int /\ k \in Int /\ k * w + x = u
    BY <1>1, <1>2, <1>3, <1>5
  <2> HIDE DEF x, k
  <2>2. Signed(k * w + x, WordBits) = x
    BY <1>1, <2>1, SignedUnique DEF w
  <2>3. Signed(u, WordBits) = u - w
    BY <2>1, <2>2 DEF x
  <2>4. QED
    BY <1>1, <1>3, <1>5, <2>3 DEF h, w
<1>6. QED
  BY <1>4, <1>5

LEMMA WordDifference ==
    ASSUME NEW a \in Word, NEW b \in Word
    PROVE  (Low(b - a, WordBits) = 0) = (a = b)
<1> DEFINE w == 2^WordBits
           x == b - a
<1>1. w \in Nat /\ w > 0 /\ Word = 0 .. w - 1
  BY Widths, PowerPositive DEF Word
<1> HIDE DEF w
<1>2. a \in Int /\ b \in Int /\ x \in Int /\ -w < x /\ x < w
  BY <1>1
<1>3. CASE x >= 0
  <2>1. x % w = x
    BY <1>1, <1>2, <1>3
  <2>2. Low(b - a, WordBits) = x
    BY <2>1 DEF Low, w
  <2>3. (x = 0) = (a = b)
    BY <1>2
  <2>4. QED
    BY <2>2, <2>3
<1>4. CASE x < 0
  <2> DEFINE e == x + w
             k == -1
  <2>1. e \in 0 .. w - 1 /\ e > 0 /\ k \in Int /\ k * w + e = x
    BY <1>1, <1>2, <1>4
  <2> HIDE DEF e, k
  <2>2. (k * w + e) % w = e
    BY <1>1, <2>1, SignedQuotient
  <2>3. x % w # 0
    BY <1>1, <2>1, <2>2
  <2>4. a # b
    BY <1>1, <1>2, <1>4
  <2>5. QED
    BY <2>3, <2>4 DEF Low, w
<1>5. QED
  BY <1>2, <1>3, <1>4

\* cmpv: the flags of a difference of words.
LEMMA WordsDecide ==
    ASSUME NEW g, HasAcc(g), NEW a \in Word, NEW b \in Word
    PROVE  LET after == GenericAlb(g, "cmpv", a, b).regs IN
           /\ Agree(after, Signed(b, WordBits), Signed(a, WordBits))
           /\ ConditionPass(after, "c") = (b < a)
<1> DEFINE after == GenericAlb(g, "cmpv", a, b).regs
           s == Signed(a, WordBits)
           t == Signed(b, WordBits)
<1>1. /\ after.fz = Flag(Low(b - a, WordBits) = 0)
      /\ after.fm = Flag(t - s < 0)
      /\ after.fc0 = Flag(b - a \notin Word)
  BY DEF GenericAlb, HasAcc
<1> DEFINE h == 2^(WordBits - 1)
           w == 2^WordBits
<1>2. /\ a \in Nat /\ b \in Nat /\ s \in Int /\ t \in Int
      /\ h \in Nat /\ h > 0 /\ w = 2 * h /\ a < w /\ b < w
      /\ s = IF a < h THEN a ELSE a - w
      /\ t = IF b < h THEN b ELSE b - w
  BY SignedWord
<1>3. Word = 0 .. w - 1
  BY DEF Word
<1>4. Flag(Low(b - a, WordBits) = 0) = Flag(a = b)
  BY WordDifference
<1> HIDE DEF after, s, t, h, w
<1>5. (a = b) = (t = s) /\ (t - s < 0) = (t < s) /\ (b - a \notin Word) = (b < a)
  BY <1>2, <1>3
<1>6. after.fz = Flag(t = s) /\ after.fm = Flag(t < s)
  BY <1>1, <1>4, <1>5
<1>7. Agree(after, t, s)
  BY <1>2, <1>6, FlagsAgree
<1>8. ConditionPass(after, "c") = (b < a)
  BY <1>1, <1>5 DEF ConditionPass, Flag
<1>9. QED
  BY <1>7, <1>8 DEF after, s, t

\* An operand of a comparison fits an accumulator.
LEMMA OperandFits ==
    ASSUME NEW w \in Word, NEW alm \in {"cmp", "cmpu"}
    PROVE  ExtendOperandForAlm(alm, w) \in SignedRange(AccBits)
<1>1. /\ WordBits \in Nat /\ WordBits > 0 /\ WordBits <= AccBits - 1
      /\ AccBits \in Nat /\ WordBits <= AccBits /\ AccBits - 1 \in Nat
  BY Widths
<1>2. w \in Nat /\ w < 2^WordBits /\ w \in Int
  BY SignedWord
<1>3. Signed(w, WordBits) \in SignedRange(AccBits)
  BY <1>1, <1>2, SignedIs, RangesNest
<1>4. 2^WordBits <= 2^(AccBits - 1) /\ 2^(AccBits - 1) \in Nat /\ 2^WordBits \in Nat
  BY <1>1, PowerGrows, PowerPositive
<1>5. w \in SignedRange(AccBits)
  BY <1>2, <1>4 DEF SignedRange
<1>6. QED
  BY <1>3, <1>5 DEF ExtendOperandForAlm

\* The registers of a program that starts from a value with its flags.
LEMMA StartWith ==
    ASSUME NEW v
    PROVE  /\ HasAcc(SetAccAndFlag(Fresh, "a0", v))
           /\ SetAccAndFlag(Fresh, "a0", v).acc.a0 = v
           /\ SetAccAndFlag(Fresh, "a0", v).fm = Flag(v < 0)
           /\ DOMAIN SetAccAndFlag(Fresh, "a0", v) = DOMAIN Fresh
           /\ \A n \in {"x", "r", "br", "ar", "m", "fc1", "fv"} :
                n \in DOMAIN Fresh /\ SetAccAndFlag(Fresh, "a0", v)[n] = Fresh[n]
<1> DEFINE g == SetAccAndFlag(Fresh, "a0", v)
<1>1. "a0" \in AccName /\ DOMAIN Fresh.acc = AccName /\ HasAcc(Fresh)
  BY FreshHasAcc DEF HasAcc, AccName
<1>2. /\ HasAcc(g) /\ g.acc = [Fresh.acc EXCEPT !["a0"] = v]
      /\ \A f \in DOMAIN Fresh \ {"acc", "fz", "fm", "fe", "fn"} : g[f] = Fresh[f]
  BY <1>1, SetAccAndFlagIs
<1>3. g.fm = Flag(v < 0)
  BY <1>1 DEF SetAccAndFlag, SetAcc, SetAccFlag, HasAcc
<1>4. {"x", "r", "br", "ar", "m", "fc1", "fv"} \subseteq DOMAIN Fresh \ {"acc", "fz", "fm", "fe", "fn"}
  BY DEF Fresh, RegisterState
<1>5. DOMAIN g = DOMAIN Fresh
  BY DEF SetAccAndFlag, SetAcc, SetAccFlag
<1> HIDE DEF g
<1>6. QED
  BY <1>1, <1>2, <1>3, <1>4, <1>5 DEF g

\* The one instruction of each program that compares or tests.
CmpInstruction == [op |-> "alm", alm |-> routine.alm, operand |-> routine.w, acc |-> "a0"]
CmpvInstruction == [op |-> "alb", alb |-> "cmpv", a |-> routine.a, b |-> routine.b]
CmpaInstruction == [op |-> "cmp", a |-> "a0", b |-> "b0"]
TstbInstruction == [op |-> "tstb", reg |-> <<"x", 0>>, bit |-> routine.bit]
Tst4bInstruction == [op |-> "tst4b", ar |-> <<0, 0>>, acc |-> "a1"]

\* What the history says of the start, and what the one instruction makes of it.
CmpInv ==
    /\ HasAcc(start) /\ start.acc.a0 \in SignedRange(AccBits)
    /\ routine.w \in Word /\ routine.alm \in {"cmp", "cmpu"}
    /\ Ran(CmpInstruction,
           AlmGeneric(start, routine.alm, ExtendOperandForAlm(routine.alm, routine.w), "a0"))
CmpvInv ==
    /\ HasAcc(start) /\ routine.a \in Word /\ routine.b \in Word
    /\ Ran(CmpvInstruction, GenericAlb(start, "cmpv", routine.a, routine.b).regs)
CmpaInv ==
    /\ HasAcc(start)
    /\ start.acc.a0 \in SignedRange(AccBits) /\ start.acc.b0 \in SignedRange(AccBits)
    /\ Ran(CmpaInstruction, cmp(start, "a0", "b0"))
\* The bit tests keep the sign flag of before.
TstbInv ==
    /\ HasAcc(start) /\ start.fm = Flag(start.acc.a0 < 0)
    /\ RegToBus16(start, <<"x", 0>>, FALSE) = routine.w
    /\ Ran(TstbInstruction, tstb(start, routine.w, routine.bit))
Tst4bInv ==
    /\ HasAcc(start) /\ start.fm = Flag(start.acc.a0 < 0)
    /\ start.fv = 0
    /\ data[Here(start, ArPointer(start, 0, 0))] = routine.w
    /\ "fc1" \in DOMAIN start
    /\ Ran(Tst4bInstruction,
           tst4b([regs |-> start, data |-> data], ArPointer(start, 0, 0), "a1").regs)

DecidesInv ==
    /\ Is("cmp") => CmpInv
    /\ Is("cmpv") => CmpvInv
    /\ Is("cmpa") => CmpaInv
    /\ Is("tstb") => TstbInv
    /\ Is("tst4b") => Tst4bInv

LEMMA DecidesStart ==
    ASSUME ProgramsInit
    PROVE  DecidesInv
<1>1. ASSUME Is("cmp") PROVE CmpInv
  <2>1. PICK v \in AccValues, alm \in {"cmp", "cmpu"}, w \in Word : CompareWith(v, alm, w)
    BY <1>1, Kinds, CompareIs DEF Is
  <2>2. /\ routine.alm = alm /\ routine.w = w /\ start = SetAcc(Fresh, "a0", v) /\ regs = start
        /\ todo = <<CmpInstruction>>
    BY <2>1 DEF CompareWith, Begin, BeginWith, CmpInstruction
  <2>3. HasAcc(start) /\ start.acc.a0 = v
    BY <2>2, FreshHasAcc DEF SetAcc, HasAcc, AccName
  <2>4. QED
    BY <2>1, <2>2, <2>3, ValuesAssumption DEF CmpInv, Ran
<1>2. ASSUME Is("cmpv") PROVE CmpvInv
  <2>1. PICK a \in Word, b \in Word : CompareWords(a, b)
    BY <1>2, Kinds, CompareIs DEF Is
  <2>2. /\ routine.a = a /\ routine.b = b /\ start = Fresh /\ regs = start
        /\ todo = <<CmpvInstruction>>
    BY <2>1 DEF CompareWords, Begin, BeginWith, CmpvInstruction
  <2>3. QED
    BY <2>2, FreshHasAcc DEF CmpvInv, Ran
<1>3. ASSUME Is("cmpa") PROVE CmpaInv
  <2>1. PICK v \in AccValues, w \in AccValues :
            Begin([kind |-> "cmpa"], SetAcc(SetAcc(Fresh, "a0", v), "b0", w),
                  <<[op |-> "cmp", a |-> "a0", b |-> "b0"]>>)
    BY <1>3, Kinds DEF CompareAccs
  <2>2. /\ start = SetAcc(SetAcc(Fresh, "a0", v), "b0", w) /\ regs = start
        /\ todo = <<CmpaInstruction>>
    BY <2>1 DEF Begin, BeginWith, CmpaInstruction
  <2>3. HasAcc(start) /\ start.acc.a0 = v /\ start.acc.b0 = w
    BY <2>2, FreshHasAcc DEF SetAcc, HasAcc, AccName
  <2>4. QED
    BY <2>2, <2>3, ValuesAssumption DEF CmpaInv, Ran
<1>4. ASSUME Is("tstb") PROVE TstbInv
  <2>1. PICK w \in Word, bit \in 0 .. WordBits - 1, v \in EdgeValues :
            Begin([kind |-> "tstb", w |-> w, bit |-> bit],
                  [SetAccAndFlag(Fresh, "a0", v) EXCEPT !.x[0] = w],
                  <<[op |-> "tstb", reg |-> <<"x", 0>>, bit |-> bit]>>)
    BY <1>4, Kinds DEF TestBit
  <2>2. /\ routine.w = w /\ routine.bit = bit
        /\ start = [SetAccAndFlag(Fresh, "a0", v) EXCEPT !.x[0] = w] /\ regs = start
        /\ todo = <<TstbInstruction>>
    BY <2>1 DEF Begin, BeginWith, TstbInstruction
  <2> DEFINE g == SetAccAndFlag(Fresh, "a0", v)
  <2>3. HasAcc(g) /\ g.acc.a0 = v /\ g.fm = Flag(v < 0) /\ g.x = Fresh.x /\ "x" \in DOMAIN g
    BY StartWith
  <2>5. 0 \in DOMAIN Fresh.x
    BY DEF Fresh, RegisterState, Pair
  <2> HIDE DEF g
  <2>6. start = [g EXCEPT !.x[0] = w]
    BY <2>2 DEF g
  <2>7. HasAcc(start) /\ start.acc.a0 = v /\ start.fm = Flag(v < 0) /\ start.x[0] = w
    BY <2>3, <2>5, <2>6 DEF HasAcc
  <2>8. RegToBus16(start, <<"x", 0>>, FALSE) = w
    BY <2>7 DEF RegToBus16
  <2>9. QED
    BY <2>2, <2>7, <2>8 DEF TstbInv, Ran
<1>5. ASSUME Is("tst4b") PROVE Tst4bInv
  <2>1. PICK v \in EdgeValues, sv \in WordValues, w \in Word : TestAtPointer(v, sv, w)
    BY <1>5, Kinds, CompareIs DEF Is
  <2>2. /\ routine.w = w
        /\ start = [SetAccAndFlag(Fresh, "a0", v) EXCEPT !.sv = sv, !.r[0] = Left] /\ regs = start
        /\ data = Placed(Zeroes, Left, <<w>>)
        /\ todo = <<Tst4bInstruction>>
    BY <2>1 DEF TestAtPointer, BeginWith, Tst4bInstruction
  <2> DEFINE g == SetAccAndFlag(Fresh, "a0", v)
             others == {"x", "r", "br", "ar", "m", "fc1", "fv"}
  <2>4. /\ HasAcc(g) /\ g.acc.a0 = v /\ g.fm = Flag(v < 0) /\ DOMAIN g = DOMAIN Fresh
        /\ \A n \in others : g[n] = Fresh[n] /\ n \in DOMAIN g
    BY StartWith
  <2>5. /\ Fresh.r = PerUnit(0) /\ Fresh.br = PerUnit(0) /\ Fresh.ar = InitialAr /\ Fresh.fv = 0
    BY DEF Fresh, RegisterState
  <2> HIDE DEF g
  <2>6. start = [g EXCEPT !.sv = sv, !.r[0] = Left]
    BY <2>2 DEF g
  <2>7. /\ HasAcc(start) /\ start.acc.a0 = v /\ start.fm = Flag(v < 0)
        /\ start.r[0] = Left /\ start.br[0] = 0 /\ start.ar = InitialAr /\ start.fv = 0
        /\ "fc1" \in DOMAIN start
    BY <2>4, <2>5, <2>6 DEF HasAcc, PerUnit, Unit
  <2>8. Here(start, ArPointer(start, 0, 0)) = Left
    BY <2>7 DEF Here, ArPointer, Pointer, InitialAr, ArEntry, RnAddress
  <2>9. data[Left] = w
    <3>1. Left \in Word /\ Left \in Int
      <4>1. WordBits \in Nat /\ WordBits > 0
        BY Widths
      <4>2. 2^(WordBits - 1) \in Nat /\ 2^(WordBits - 1) > 0 /\ 2^WordBits = 2 * 2^(WordBits - 1)
        BY <4>1, PowerHalves
      <4>3. QED
        BY <4>2 DEF Left, Word
    <3> HIDE DEF Left
    <3>2. Left - Left + 1 = 1
      BY <3>1
    <3>3. DOMAIN Zeroes = Word
      BY DEF Zeroes
    <3>4. DOMAIN <<w>> = 1 .. 1 /\ <<w>>[1] = w
      OBVIOUS
    <3>5. QED
      BY <2>2, <3>1, <3>2, <3>3, <3>4 DEF Placed
  <2>10. QED
    BY <2>2, <2>7, <2>8, <2>9 DEF Tst4bInv, Ran
<1>6. QED
  BY <1>1, <1>2, <1>3, <1>4, <1>5 DEF DecidesInv

LEMMA DecidesStep ==
    ASSUME DecidesInv, [RoutineNext]_routineVars
    PROVE  DecidesInv'
<1>1. CASE UNCHANGED routineVars
  BY <1>1 DEF routineVars, DecidesInv, CmpInv, CmpvInv, CmpaInv, TstbInv, Tst4bInv, Ran, Is,
     CmpInstruction, CmpvInstruction, CmpaInstruction, TstbInstruction, Tst4bInstruction
<1>2. CASE RoutineNext
  <2>1. UNCHANGED <<start, routine>>
    BY <1>2 DEF RoutineNext, Execute, Access, Push, Pop
  <2>2. ASSUME Is("cmp") PROVE CmpInv'
    <3>1. CmpInv /\ todo = <<CmpInstruction>> /\ regs = start
      BY <1>2, <2>2, NoneLeft DEF DecidesInv, CmpInv, Ran
    <3>2. ~Done /\ todo[1] = CmpInstruction /\ todo' = <<>>
      BY <1>2, <3>1, OneLeft
    <3>3. Alm(CmpInstruction)
      BY <1>2, <3>2, OnlyThese DEF CmpInstruction
    <3>4. regs' = AlmGeneric(start, routine.alm, ExtendOperandForAlm(routine.alm, routine.w), "a0")
      BY <3>1, <3>3 DEF Alm, CmpInstruction
    <3>5. QED
      BY <2>1, <3>1, <3>2, <3>4 DEF CmpInv, Ran
  <2>3. ASSUME Is("cmpv") PROVE CmpvInv'
    <3>1. CmpvInv /\ todo = <<CmpvInstruction>> /\ regs = start
      BY <1>2, <2>3, NoneLeft DEF DecidesInv, CmpvInv, Ran
    <3>2. ~Done /\ todo[1] = CmpvInstruction /\ todo' = <<>>
      BY <1>2, <3>1, OneLeft
    <3>3. Alb(CmpvInstruction)
      BY <1>2, <3>2, OnlyThese DEF CmpvInstruction
    <3>4. regs' = GenericAlb(start, "cmpv", routine.a, routine.b).regs
      BY <3>1, <3>3 DEF Alb, CmpvInstruction
    <3>5. QED
      BY <2>1, <3>1, <3>2, <3>4 DEF CmpvInv, Ran
  <2>4. ASSUME Is("cmpa") PROVE CmpaInv'
    <3>1. CmpaInv /\ todo = <<CmpaInstruction>> /\ regs = start
      BY <1>2, <2>4, NoneLeft DEF DecidesInv, CmpaInv, Ran
    <3>2. ~Done /\ todo[1] = CmpaInstruction /\ todo' = <<>>
      BY <1>2, <3>1, OneLeft
    <3>3. CompareAcc(CmpaInstruction)
      BY <1>2, <3>2, OnlyThese DEF CmpaInstruction
    <3>4. regs' = cmp(start, "a0", "b0")
      BY <3>1, <3>3 DEF CompareAcc, CmpaInstruction
    <3>5. QED
      BY <2>1, <3>1, <3>2, <3>4 DEF CmpaInv, Ran
  <2>5. ASSUME Is("tstb") PROVE TstbInv'
    <3>1. TstbInv /\ todo = <<TstbInstruction>> /\ regs = start
      BY <1>2, <2>5, NoneLeft DEF DecidesInv, TstbInv, Ran
    <3>2. ~Done /\ todo[1] = TstbInstruction /\ todo' = <<>>
      BY <1>2, <3>1, OneLeft
    <3>3. Tstb(TstbInstruction)
      BY <1>2, <3>2, OnlyThese DEF TstbInstruction
    <3>4. regs' = tstb(start, routine.w, routine.bit)
      BY <3>1, <3>3 DEF Tstb, TstbInstruction, TstbInv
    <3>5. QED
      BY <2>1, <3>1, <3>2, <3>4 DEF TstbInv, Ran
  <2>6. ASSUME Is("tst4b") PROVE Tst4bInv'
    <3>1. Tst4bInv /\ todo = <<Tst4bInstruction>> /\ regs = start
      BY <1>2, <2>6, NoneLeft DEF DecidesInv, Tst4bInv, Ran
    <3>2. ~Done /\ todo[1] = Tst4bInstruction /\ todo' = <<>>
      BY <1>2, <3>1, OneLeft
    <3>3. Tst4b(Tst4bInstruction)
      BY <1>2, <3>2, OnlyThese DEF Tst4bInstruction
    <3>4. /\ regs' = tst4b([regs |-> start, data |-> data], ArPointer(start, 0, 0), "a1").regs
          /\ data' = tst4b([regs |-> start, data |-> data], ArPointer(start, 0, 0), "a1").data
      BY <3>1, <3>3 DEF Tst4b, Tst4bInstruction, Becomes, Machine, ArOf
    <3>5. data' = data
      BY <3>4 DEF tst4b
    <3>6. QED
      BY <2>1, <3>1, <3>2, <3>4, <3>5 DEF Tst4bInv, Ran
  <2>7. QED
    BY <2>1, <2>2, <2>3, <2>4, <2>5, <2>6 DEF DecidesInv, Is
<1>3. QED
  BY <1>1, <1>2

\* A shift leaves its registers' names as they are.
LEMMA ShiftKeepsNames ==
    ASSUME NEW g, HasAcc(g), NEW value, NEW sv, NEW name
    PROVE  HasAcc(ShiftBus40(g, value, sv, name)) /\ DOMAIN ShiftBus40(g, value, sv, name) = DOMAIN g
  BY DEF ShiftBus40, SetAccFlag, SetAcc, HasAcc

LEMMA DecidesEnd ==
    ASSUME DecidesInv
    PROVE  Decides
<1>1. ASSUME Ends("cmp")
      PROVE  LET operand == ExtendOperandForAlm(routine.alm, routine.w) IN
             IF InRange(start.acc.a0 - operand) THEN Agree(regs, start.acc.a0, operand)
             ELSE ConditionPass(regs, "v")
  <2> DEFINE operand == ExtendOperandForAlm(routine.alm, routine.w)
             sum == AddSub(start, start.acc.a0, operand, TRUE)
  <2>1. CmpInv /\ todo = <<>>
    BY <1>1 DEF DecidesInv, Ends, Done
  <2>2. regs = AlmGeneric(start, routine.alm, operand, "a0")
    BY <2>1 DEF CmpInv, Ran
  <2>3. operand \in SignedRange(AccBits)
    BY <2>1, OperandFits DEF CmpInv
  <2> HIDE DEF operand
  <2>4. regs = SetAccFlag(sum.regs, sum.value)
    <3>1. routine.alm \in {"cmp", "cmpu"}
      BY <2>1 DEF CmpInv
    <3>2. ASSUME NEW alm \in {"cmp", "cmpu"}, regs = AlmGeneric(start, alm, operand, "a0")
          PROVE  regs = SetAccFlag(sum.regs, sum.value)
      <4>1. CASE alm = "cmp"
        BY <3>2, <4>1 DEF AlmGeneric, Adds
      <4>2. CASE alm = "cmpu"
        BY <3>2, <4>2 DEF AlmGeneric, Adds
      <4>3. QED
        BY <4>1, <4>2
    <3>3. QED
      BY <2>2, <3>1, <3>2
  <2>5. HasAcc(start) /\ start.acc.a0 \in SignedRange(AccBits)
    BY <2>1 DEF CmpInv
  <2>6. IF start.acc.a0 - operand \in SignedRange(AccBits) THEN Agree(regs, start.acc.a0, operand)
        ELSE ConditionPass(regs, "v")
    BY <2>3, <2>4, <2>5, DifferenceDecides
  <2>7. QED
    BY <2>6 DEF InRange, operand
<1>2. ASSUME Ends("cmpv")
      PROVE  /\ Agree(regs, Signed(routine.b, WordBits), Signed(routine.a, WordBits))
             /\ ConditionPass(regs, "c") = (routine.b < routine.a)
  <2>1. CmpvInv /\ todo = <<>>
    BY <1>2 DEF DecidesInv, Ends, Done
  <2>2. regs = GenericAlb(start, "cmpv", routine.a, routine.b).regs
    BY <2>1 DEF CmpvInv, Ran
  <2>3. HasAcc(start) /\ routine.a \in Word /\ routine.b \in Word
    BY <2>1 DEF CmpvInv
  <2>4. QED
    BY <2>2, <2>3, WordsDecide
<1>3. ASSUME Ends("cmpa")
      PROVE  IF InRange(start.acc.b0 - start.acc.a0) THEN Agree(regs, start.acc.b0, start.acc.a0)
             ELSE ConditionPass(regs, "v")
  <2> DEFINE sum == AddSub(start, start.acc.b0, start.acc.a0, TRUE)
  <2>1. CmpaInv /\ todo = <<>>
    BY <1>3 DEF DecidesInv, Ends, Done
  <2>2. regs = SetAccFlag(sum.regs, sum.value)
    BY <2>1 DEF CmpaInv, Ran, cmp
  <2>3. HasAcc(start) /\ start.acc.a0 \in SignedRange(AccBits) /\ start.acc.b0 \in SignedRange(AccBits)
    BY <2>1 DEF CmpaInv
  <2>4. IF start.acc.b0 - start.acc.a0 \in SignedRange(AccBits) THEN Agree(regs, start.acc.b0, start.acc.a0)
        ELSE ConditionPass(regs, "v")
    BY <2>2, <2>3, DifferenceDecides
  <2>5. QED
    BY <2>4 DEF InRange
<1>4. ASSUME Ends("tstb")
      PROVE  /\ ConditionPass(regs, "eq") = (Bit(routine.w, routine.bit) = 1)
             /\ ConditionPass(regs, "lt") = (start.acc.a0 < 0)
  <2>1. TstbInv /\ todo = <<>>
    BY <1>4 DEF DecidesInv, Ends, Done
  <2>2. regs = tstb(start, routine.w, routine.bit)
    BY <2>1 DEF TstbInv, Ran
  <2>3. regs.fz = Bit(routine.w, routine.bit) /\ regs.fm = start.fm
    BY <2>1, <2>2 DEF TstbInv, tstb, HasAcc
  <2>4. start.fm = Flag(start.acc.a0 < 0)
    BY <2>1 DEF TstbInv
  <2>5. ConditionPass(regs, "lt") = (start.acc.a0 < 0)
    BY <2>3, <2>4 DEF ConditionPass, Flag
  <2>6. QED
    BY <2>3, <2>5 DEF ConditionPass
<1>5. ASSUME Ends("tst4b")
      PROVE  LET bit == Bit(routine.w, start.acc.a0 % WordBits) = 1 IN
             /\ ConditionPass(regs, "eq") = bit /\ ConditionPass(regs, "c") = bit
             /\ ConditionPass(regs, "lt") = (start.acc.a0 < 0)
             /\ ConditionPass(regs, "v") = (start.fv = 1)
  <2> DEFINE p == ArPointer(start, 0, 0)
             shifted == ShiftBus40(start, start.acc.a0, Short(start.sv), "a1")
             bit == Bit(routine.w, start.acc.a0 % WordBits)
  <2>1. Tst4bInv /\ todo = <<>>
    BY <1>5 DEF DecidesInv, Ends, Done
  <2>2. regs = tst4b([regs |-> start, data |-> data], p, "a1").regs
    BY <2>1 DEF Tst4bInv, Ran
  <2>3. HasAcc(shifted)
    BY <2>1, ShiftKeepsNames DEF Tst4bInv
  <2>4. data[Here(start, p)] = routine.w
    BY <2>1 DEF Tst4bInv
  <2> HIDE DEF shifted, p
  <2>5. HasAcc(Past(shifted, p, FALSE))
    BY <2>3 DEF Past, RnAndModify, HasAcc
  <2> DEFINE q == Past(shifted, p, FALSE)
  <2>6. regs = [q EXCEPT !.fc1 = shifted.fc0, !.fv = start.fv, !.fvl = start.fvl, !.fm = start.fm,
                         !.fn = start.fn, !.fe = start.fe, !.fz = bit, !.fc0 = bit]
    BY <2>2, <2>4 DEF tst4b, shifted
  <2> HIDE DEF q, bit
  <2>7. regs.fz = bit /\ regs.fc0 = bit /\ regs.fm = start.fm /\ regs.fv = start.fv
    BY <2>5, <2>6 DEF HasAcc, q
  <2>8. start.fm = Flag(start.acc.a0 < 0)
    BY <2>1 DEF Tst4bInv
  <2>9. ConditionPass(regs, "lt") = (start.acc.a0 < 0)
    BY <2>7, <2>8 DEF ConditionPass, Flag
  <2>10. ConditionPass(regs, "v") = (start.fv = 1)
    BY <2>7 DEF ConditionPass
  <2>11. ConditionPass(regs, "eq") = (bit = 1) /\ ConditionPass(regs, "c") = (bit = 1)
    BY <2>7 DEF ConditionPass
  <2>12. QED
    BY <2>9, <2>10, <2>11 DEF bit
<1>6. QED
  BY <1>1, <1>2, <1>3, <1>4, <1>5 DEF Decides, Agree

\* After every comparison, of accumulators, of an accumulator and a word and of two words,
\* and after every bit test, the conditions decide as the numbers do.
THEOREM ConditionsDecide == ProgramsSpec => []Decides
<1>1. ProgramsInit => DecidesInv
  BY DecidesStart
<1>2. DecidesInv /\ [RoutineNext]_routineVars => DecidesInv'
  BY DecidesStep
<1>3. DecidesInv => Decides
  BY DecidesEnd
<1>4. QED
  BY <1>1, <1>2, <1>3, PTL DEF ProgramsSpec

-----------------------------------------------------------------------------
(***************************************************************************)
(* Programs of moves between registers, banks and shadows.                 *)
(***************************************************************************)
\* The instructions left of a program of n after the first k.
Remaining(program, n, k) == [j \in 1 .. n - k |-> program[k + j]]

LEMMA RemainingStep ==
    ASSUME NEW program, NEW n \in Nat, NEW k \in 0 .. n
    PROVE  /\ Remaining(program, n, k) = <<>> <=> k = n
           /\ k < n => /\ Remaining(program, n, k)[1] = program[k + 1]
                       /\ Tail(Remaining(program, n, k)) = Remaining(program, n, k + 1)
<1> DEFINE left == Remaining(program, n, k)
           rest == Remaining(program, n, k + 1)
<1>1. left \in Seq({program[j] : j \in 1 .. n}) /\ Len(left) = n - k
  BY DEF Remaining
<1>2. k = n => left = <<>>
  BY <1>1
<1>3. k < n => left # <<>>
  BY <1>1
<1>4. ASSUME k < n PROVE left[1] = program[k + 1]
  BY <1>4 DEF Remaining
<1>5. ASSUME k < n PROVE Tail(left) = rest
  <2>1. Tail(left) = [j \in 1 .. n - k - 1 |-> left[j + 1]]
    <3> DEFINE S == {program[j] : j \in 1 .. n}
    <3>1. left \in Seq(S) /\ left # <<>>
      BY <1>1, <1>3, <1>5
    <3> HIDE DEF left, S
    <3>2. Tail(left) \in Seq(S) /\ Len(Tail(left)) = Len(left) - 1
      BY <3>1
    <3>3. \A j \in 1 .. Len(left) - 1 : Tail(left)[j] = left[j + 1]
      BY <3>1
    <3>4. Len(left) - 1 = n - k - 1
      BY <1>1
    <3> DEFINE t == Tail(left)
    <3> HIDE DEF t
    <3>5. t \in Seq(S) /\ Len(t) = n - k - 1 /\ \A j \in 1 .. n - k - 1 : t[j] = left[j + 1]
      BY <3>2, <3>3, <3>4 DEF t
    <3>6. t = [j \in 1 .. n - k - 1 |-> left[j + 1]]
      BY <3>5
    <3>7. QED
      BY <3>6 DEF t
  <2>2. n - (k + 1) = n - k - 1
    OBVIOUS
  <2>3. \A j \in 1 .. n - k - 1 : left[j + 1] = program[(k + 1) + j]
    BY <1>5 DEF Remaining
  <2>4. QED
    BY <2>1, <2>2, <2>3 DEF Remaining
<1>6. QED
  BY <1>2, <1>3, <1>4, <1>5

\* What such an instruction makes of the registers.
MoveOps == {"cntx", "banke", "bankr", "swap", "scribble"}
Effect(i, g) ==
    CASE i.op = "cntx" -> IF i.store THEN ContextStore(g) ELSE ContextRestore(g)
      [] i.op = "banke" -> banke(g, i.units, i.cfgi, i.cfgj)
      [] i.op = "bankr" -> IF i.arp THEN SwapArp(g, i.index) ELSE SwapAr(g, i.index)
      [] i.op = "swap" -> swap(g, i.type)
      [] i.op = "scribble" -> Scribbled(g, i.what)

LEMMA OnlyEffect ==
    ASSUME RoutineNext, ~Done, todo[1].op \in MoveOps
    PROVE  /\ regs' = Effect(todo[1], regs) /\ todo' = Tail(todo)
           /\ UNCHANGED <<start, routine>>
<1>1. todo' = Tail(todo) /\ UNCHANGED <<start, routine>>
  BY DEF RoutineNext, Execute, Access, Push, Pop
<1>2. CASE todo[1].op = "cntx"
  <2>1. SwitchContext(todo[1])
    BY <1>2 DEF RoutineNext, Execute, Access, Push, Pop
  <2>2. QED
    BY <1>1, <1>2, <2>1 DEF SwitchContext, Effect
<1>3. CASE todo[1].op = "banke"
  <2>1. Banke(todo[1])
    BY <1>3 DEF RoutineNext, Execute, Access, Push, Pop
  <2>2. QED
    BY <1>1, <1>3, <2>1 DEF Banke, Effect
<1>4. CASE todo[1].op = "bankr"
  <2>1. Bankr(todo[1])
    BY <1>4 DEF RoutineNext, Execute, Access, Push, Pop
  <2>2. QED
    BY <1>1, <1>4, <2>1 DEF Bankr, Effect
<1>5. CASE todo[1].op = "swap"
  <2>1. Swap(todo[1])
    BY <1>5 DEF RoutineNext, Execute, Access, Push, Pop
  <2>2. QED
    BY <1>1, <1>5, <2>1 DEF Swap, Effect
<1>6. CASE todo[1].op = "scribble"
  <2>1. Scribble(todo[1])
    BY <1>6 DEF RoutineNext, Execute, Access, Push, Pop
  <2>2. QED
    BY <1>1, <1>6, <2>1 DEF Scribble, Effect
<1>7. QED
  BY <1>2, <1>3, <1>4, <1>5, <1>6 DEF MoveOps

\* The first k of n instructions are carried out, and the registers are the k-th of the states.
Follows(program, states, n) ==
    \E k \in 0 .. n : todo = Remaining(program, n, k) /\ regs = states[k + 1]

\* The states are those that the instructions lead through.
Leads(program, states, n) ==
    \A k \in 1 .. n : program[k].op \in MoveOps /\ states[k + 1] = Effect(program[k], states[k])

LEMMA FollowsStep ==
    ASSUME NEW program, NEW states, NEW n \in Nat, Leads(program, states, n),
           Follows(program, states, n), RoutineNext
    PROVE  \E k \in 0 .. n : todo' = Remaining(program, n, k) /\ regs' = states[k + 1]
<1>1. PICK k \in 0 .. n : todo = Remaining(program, n, k) /\ regs = states[k + 1]
  BY DEF Follows
<1>2. ~Done
  BY NoneLeft DEF Done
<1>3. k < n /\ todo[1] = program[k + 1] /\ Tail(todo) = Remaining(program, n, k + 1)
  <2>1. /\ Remaining(program, n, k) = <<>> <=> k = n
        /\ k < n => /\ Remaining(program, n, k)[1] = program[k + 1]
                    /\ Tail(Remaining(program, n, k)) = Remaining(program, n, k + 1)
    BY RemainingStep, Zenon
  <2> HIDE DEF Remaining
  <2>2. k # n
    BY <1>1, <1>2, <2>1 DEF Done
  <2>3. QED
    BY <1>1, <2>1, <2>2
<1>4. k + 1 \in 1 .. n /\ program[k + 1].op \in MoveOps /\ states[(k + 1) + 1] = Effect(program[k + 1], states[k + 1])
  BY <1>3 DEF Leads
<1>5. regs' = Effect(todo[1], regs) /\ todo' = Tail(todo) /\ UNCHANGED <<start, routine>>
  BY <1>2, <1>3, <1>4, OnlyEffect
<1>6. k + 1 \in 0 .. n /\ todo' = Remaining(program, n, k + 1) /\ regs' = states[(k + 1) + 1]
  BY <1>1, <1>3, <1>4, <1>5
<1>7. QED
  BY <1>6

LEMMA FollowsDone ==
    ASSUME NEW program, NEW states, NEW n \in Nat, Follows(program, states, n), Done
    PROVE  regs = states[n + 1]
<1>1. PICK k \in 0 .. n : todo = Remaining(program, n, k) /\ regs = states[k + 1]
  BY DEF Follows
<1>2. k = n
  <2>1. Remaining(program, n, k) = <<>> <=> k = n
    BY RemainingStep, Zenon
  <2>2. QED
    BY <1>1, <2>1 DEF Done
<1>3. QED
  BY <1>1, <1>2

LEMMA FollowsStart ==
    ASSUME NEW program, NEW states, NEW n \in Nat, program = [j \in 1 .. n |-> program[j]],
           todo = program, regs = states[1]
    PROVE  Follows(program, states, n)
<1>1. Remaining(program, n, 0) = [j \in 1 .. n |-> program[j]]
  BY DEF Remaining
<1>2. 0 \in 0 .. n /\ 0 + 1 = 1
  OBVIOUS
<1>3. todo = Remaining(program, n, 0)
  BY <1>1
<1> HIDE DEF Remaining
<1>4. QED
  BY <1>2, <1>3 DEF Follows

-----------------------------------------------------------------------------
(***************************************************************************)
(* Context switches.                                                       *)
(***************************************************************************)
Shadows == {"acc", "a1s", "b1s", "ccnta", "repc", "repcs", "crep", "kept", "swapped"}
\* What of the registers a context switch needs.
HasShadows(g) ==
    /\ FlagName \cup SwapName \cup Shadows \subseteq DOMAIN g
    /\ DOMAIN g.acc = AccName

LEMMA NamesApart ==
    /\ FlagName \cap SwapName = {} /\ Shadows \cap FlagName = {} /\ Shadows \cap SwapName = {}
  BY DEF FlagName, SwapName, Shadows

LEMMA ShadowSwapIs ==
    ASSUME NEW g, HasShadows(g)
    PROVE  /\ HasShadows(ShadowSwap(g))
           /\ \A n \in SwapName : ShadowSwap(g)[n] = g.swapped[n]
           /\ ShadowSwap(g).swapped = [n \in SwapName |-> g[n]]
           /\ \A n \in FlagName : ShadowSwap(g)[n] = g[n]
           /\ \A n \in Shadows \ {"swapped"} : ShadowSwap(g)[n] = g[n]
<1>1. DOMAIN ShadowSwap(g) = DOMAIN g
  BY DEF ShadowSwap
<1>2. \A n \in SwapName : ShadowSwap(g)[n] = g.swapped[n]
  BY DEF ShadowSwap, HasShadows
<1>3. "swapped" \in Shadows /\ "acc" \in Shadows
  BY DEF Shadows
<1>4. ShadowSwap(g).swapped = [n \in SwapName |-> g[n]]
  <2>1. "swapped" \in DOMAIN g /\ "swapped" \notin SwapName
    BY <1>3, NamesApart DEF HasShadows
  <2>2. QED
    BY <2>1 DEF ShadowSwap
<1>5. \A n \in FlagName \cup (Shadows \ {"swapped"}) : ShadowSwap(g)[n] = g[n]
  <2>1. \A n \in FlagName \cup (Shadows \ {"swapped"}) : n \in DOMAIN g /\ n \notin SwapName /\ n # "swapped"
    BY <1>3, NamesApart DEF HasShadows
  <2>2. QED
    BY <2>1 DEF ShadowSwap
<1>6. ShadowSwap(g).acc = g.acc
  BY <1>3, <1>5
<1>7. QED
  BY <1>1, <1>2, <1>4, <1>5, <1>6 DEF HasShadows

LEMMA StoreIs ==
    ASSUME NEW g, HasShadows(g)
    PROVE  LET h == ContextStore(g) IN
           /\ HasShadows(h)
           /\ h.crep = g.crep /\ h.ccnta = g.ccnta /\ h.repc = g.repc
           /\ \A n \in SwapName : h[n] = g.swapped[n]
           /\ h.swapped = [n \in SwapName |-> g[n]]
           /\ \A f \in FlagName : h.kept[f] = g[f]
           /\ h.repcs = IF g.crep = 0 THEN g.repc ELSE g.repcs
           /\ g.ccnta = 0 => h.acc = g.acc /\ h.a1s = g.acc.a1 /\ h.b1s = g.acc.b1
           /\ g.ccnta # 0 => h.acc.a1 = g.acc.b1 /\ h.acc.b1 = g.acc.a1
<1> DEFINE kept == ShadowStore(g)
           stored == ShadowSwap(kept)
           rep == IF g.crep = 0 THEN [stored EXCEPT !.repcs = g.repc] ELSE stored
           h == ContextStore(g)
<1>1. /\ HasShadows(kept) /\ kept.kept = [f \in FlagName |-> g[f]]
      /\ \A n \in DOMAIN g \ {"kept"} : kept[n] = g[n]
  BY DEF ShadowStore, HasShadows, Shadows
<1> HIDE DEF kept
<1>2. /\ HasShadows(stored)
      /\ \A n \in SwapName : stored[n] = kept.swapped[n]
      /\ stored.swapped = [n \in SwapName |-> kept[n]]
      /\ \A n \in Shadows \ {"swapped"} : stored[n] = kept[n]
  BY <1>1, ShadowSwapIs
<1>3. /\ \A n \in SwapName : stored[n] = g.swapped[n]
      /\ stored.swapped = [n \in SwapName |-> g[n]]
      /\ stored.kept = [f \in FlagName |-> g[f]]
      /\ \A n \in Shadows \ {"swapped", "kept"} : stored[n] = g[n]
  <2>1. \A n \in SwapName \cup (Shadows \ {"kept"}) : kept[n] = g[n]
    BY <1>1, NamesApart DEF HasShadows, Shadows
  <2>2. "swapped" \in Shadows /\ "kept" \in Shadows
    BY DEF Shadows
  <2>3. QED
    BY <1>1, <1>2, <2>1, <2>2
<1> HIDE DEF stored
<1>4. /\ HasShadows(rep)
      /\ \A n \in SwapName \cup (Shadows \ {"repcs"}) : rep[n] = stored[n]
      /\ rep.repcs = IF g.crep = 0 THEN g.repc ELSE stored.repcs
  <2>1. "repcs" \in DOMAIN stored /\ "repcs" \notin SwapName
    BY <1>2, NamesApart DEF HasShadows, Shadows
  <2>2. QED
    BY <1>2, <2>1 DEF HasShadows
<1>5. /\ HasShadows(rep)
      /\ \A n \in SwapName : rep[n] = g.swapped[n]
      /\ rep.swapped = [n \in SwapName |-> g[n]]
      /\ rep.kept = [f \in FlagName |-> g[f]]
      /\ \A n \in Shadows \ {"swapped", "kept", "repcs"} : rep[n] = g[n]
      /\ rep.repcs = IF g.crep = 0 THEN g.repc ELSE g.repcs
  BY <1>3, <1>4 DEF Shadows
<1> DEFINE one == SetAcc(rep, "b1", g.acc.a1)
<1>6. h = IF g.ccnta = 0 THEN [rep EXCEPT !.a1s = g.acc.a1, !.b1s = g.acc.b1]
          ELSE SetAccAndFlag(one, "a1", g.acc.b1)
  BY DEF ContextStore, kept, stored
<1> HIDE DEF rep, h
<1>7. CASE g.ccnta = 0
  <2>1. h = [rep EXCEPT !.a1s = g.acc.a1, !.b1s = g.acc.b1]
    BY <1>6, <1>7
  <2>2. /\ DOMAIN h = DOMAIN rep /\ h.a1s = g.acc.a1 /\ h.b1s = g.acc.b1
        /\ \A n \in DOMAIN rep \ {"a1s", "b1s"} : h[n] = rep[n]
    BY <1>5, <2>1 DEF HasShadows, Shadows
  <2>3. QED
    BY <1>5, <1>7, <2>2, NamesApart DEF HasShadows, Shadows, h
<1>8. CASE g.ccnta # 0
  <2>1. h = SetAccAndFlag(one, "a1", g.acc.b1)
    BY <1>6, <1>8
  <2>2. /\ DOMAIN one = DOMAIN rep /\ one.acc = [rep.acc EXCEPT !["b1"] = g.acc.a1]
        /\ \A n \in DOMAIN rep \ {"acc"} : one[n] = rep[n]
    BY <1>5 DEF HasShadows, Shadows, SetAcc
  <2> HIDE DEF one
  <2>3. /\ DOMAIN h = DOMAIN one /\ h.acc = [one.acc EXCEPT !["a1"] = g.acc.b1]
        /\ \A n \in DOMAIN one \ {"acc", "fz", "fm", "fe", "fn"} : h[n] = one[n]
    BY <1>5, <2>1, <2>2 DEF HasShadows, Shadows, SetAcc, SetAccAndFlag, SetAccFlag
  <2>4. {"fz", "fm", "fe", "fn"} \subseteq FlagName
    BY DEF FlagName
  <2>5. DOMAIN rep.acc = AccName /\ "a1" \in AccName /\ "b1" \in AccName
    BY <1>5 DEF HasShadows, AccName
  <2>6. h.acc.a1 = g.acc.b1 /\ h.acc.b1 = g.acc.a1 /\ DOMAIN h.acc = AccName
    BY <2>2, <2>3, <2>5
  <2>7. \A n \in SwapName \cup (Shadows \ {"acc"}) : h[n] = rep[n]
    BY <1>5, <2>2, <2>3, <2>4, NamesApart DEF HasShadows, Shadows
  <2>8. QED
    BY <1>5, <1>8, <2>2, <2>3, <2>6, <2>7 DEF HasShadows, Shadows, h
<1>9. QED
  BY <1>7, <1>8

LEMMA RestoreIs ==
    ASSUME NEW g, HasShadows(g)
    PROVE  LET h == ContextRestore(g) IN
           /\ HasShadows(h)
           /\ h.crep = g.crep /\ h.ccnta = g.ccnta /\ h.repcs = g.repcs
           /\ \A n \in SwapName : h[n] = g.swapped[n]
           /\ h.swapped = [n \in SwapName |-> g[n]]
           /\ \A f \in FlagName : h[f] = g.kept[f]
           /\ h.repc = IF g.crep = 0 THEN g.repcs ELSE g.repc
           /\ h.a1s = g.a1s /\ h.b1s = g.b1s
           /\ g.ccnta = 0 => h.acc.a1 = g.a1s /\ h.acc.b1 = g.b1s
           /\ g.ccnta # 0 => h.acc.a1 = g.acc.b1 /\ h.acc.b1 = g.acc.a1
<1> DEFINE kept == ShadowRestore(g)
           restored == ShadowSwap(kept)
           rep == IF g.crep = 0 THEN [restored EXCEPT !.repc = g.repcs] ELSE restored
           h == ContextRestore(g)
<1>1. /\ HasShadows(kept)
      /\ \A f \in FlagName : kept[f] = g.kept[f]
      /\ \A n \in SwapName \cup Shadows : kept[n] = g[n]
  <2>1. DOMAIN kept = DOMAIN g
    BY DEF ShadowRestore
  <2>2. \A f \in FlagName : kept[f] = g.kept[f]
    BY DEF ShadowRestore, HasShadows
  <2>3. \A n \in SwapName \cup Shadows : n \in DOMAIN g /\ n \notin FlagName
    BY NamesApart DEF HasShadows
  <2>4. \A n \in SwapName \cup Shadows : kept[n] = g[n]
    BY <2>3 DEF ShadowRestore
  <2>5. kept.acc = g.acc
    BY <2>4 DEF Shadows
  <2>6. QED
    BY <2>1, <2>2, <2>4, <2>5 DEF HasShadows
<1> HIDE DEF kept
<1>2. /\ HasShadows(restored)
      /\ \A n \in SwapName : restored[n] = kept.swapped[n]
      /\ restored.swapped = [n \in SwapName |-> kept[n]]
      /\ \A f \in FlagName : restored[f] = kept[f]
      /\ \A n \in Shadows \ {"swapped"} : restored[n] = kept[n]
  BY <1>1, ShadowSwapIs
<1>3. /\ \A n \in SwapName : restored[n] = g.swapped[n]
      /\ restored.swapped = [n \in SwapName |-> g[n]]
      /\ \A f \in FlagName : restored[f] = g.kept[f]
      /\ \A n \in Shadows \ {"swapped"} : restored[n] = g[n]
  <2>1. "swapped" \in Shadows
    BY DEF Shadows
  <2>2. QED
    BY <1>1, <1>2, <2>1
<1> HIDE DEF restored
<1>4. /\ HasShadows(rep)
      /\ \A n \in SwapName \cup FlagName \cup (Shadows \ {"repc"}) : rep[n] = restored[n]
      /\ rep.repc = IF g.crep = 0 THEN g.repcs ELSE restored.repc
  <2>1. "repc" \in DOMAIN restored /\ "repc" \notin SwapName /\ "repc" \notin FlagName
    BY <1>2, NamesApart DEF HasShadows, Shadows
  <2>2. QED
    BY <1>2, <2>1 DEF HasShadows
<1>5. /\ HasShadows(rep)
      /\ \A n \in SwapName : rep[n] = g.swapped[n]
      /\ rep.swapped = [n \in SwapName |-> g[n]]
      /\ \A f \in FlagName : rep[f] = g.kept[f]
      /\ \A n \in Shadows \ {"swapped", "repc"} : rep[n] = g[n]
      /\ rep.repc = IF g.crep = 0 THEN g.repcs ELSE g.repc
  BY <1>3, <1>4 DEF Shadows
<1>6. h = IF g.ccnta = 0 THEN [rep EXCEPT !.acc.a1 = g.a1s, !.acc.b1 = g.b1s]
          ELSE [rep EXCEPT !.acc.a1 = g.acc.b1, !.acc.b1 = g.acc.a1]
  BY DEF ContextRestore, kept, restored
<1> HIDE DEF rep, h
<1>7. /\ DOMAIN h = DOMAIN rep /\ DOMAIN h.acc = AccName
      /\ \A n \in DOMAIN rep \ {"acc"} : h[n] = rep[n]
      /\ g.ccnta = 0 => h.acc.a1 = g.a1s /\ h.acc.b1 = g.b1s
      /\ g.ccnta # 0 => h.acc.a1 = g.acc.b1 /\ h.acc.b1 = g.acc.a1
  <2>1. "acc" \in DOMAIN rep /\ DOMAIN rep.acc = AccName /\ "a1" \in AccName /\ "b1" \in AccName
    BY <1>5 DEF HasShadows, Shadows, AccName
  <2>2. CASE g.ccnta = 0
    BY <1>6, <2>1, <2>2
  <2>3. CASE g.ccnta # 0
    BY <1>6, <2>1, <2>3
  <2>4. QED
    BY <2>2, <2>3
<1>8. \A n \in SwapName \cup FlagName \cup (Shadows \ {"acc"}) : h[n] = rep[n]
  BY <1>5, <1>7, NamesApart DEF HasShadows, Shadows
<1>9. QED
  BY <1>5, <1>7, <1>8 DEF HasShadows, Shadows, h

LEMMA ScribbledIs ==
    ASSUME NEW g, HasShadows(g), NEW what
    PROVE  LET h == Scribbled(g, what) IN
           /\ HasShadows(h)
           /\ \A n \in Shadows \ {"acc", "repc"} : h[n] = g[n]
           /\ "bank" \notin what => \A n \in SwapName : h[n] = g[n]
           /\ "repc" \notin what => h.repc = g.repc
           /\ "acc" \notin what => h.acc = g.acc
<1> DEFINE h == Scribbled(g, what)
<1>1. DOMAIN h = DOMAIN g
  BY DEF Scribbled
<1>2. /\ "acc" \in DOMAIN g /\ "acc" \notin FlagName /\ "acc" \notin SwapName
      /\ "repc" \in DOMAIN g /\ "repc" \notin FlagName /\ "repc" \notin SwapName
  BY NamesApart DEF HasShadows, Shadows
<1>3. h.acc = IF "acc" \in what THEN [a \in AccName |-> -5] ELSE g.acc
  BY <1>2 DEF Scribbled
<1>4. h.repc = IF "repc" \in what THEN 3 ELSE g.repc
  BY <1>2 DEF Scribbled
<1>5. \A n \in Shadows \ {"acc", "repc"} : h[n] = g[n]
  <2>1. \A n \in Shadows \ {"acc", "repc"} :
            n \in DOMAIN g /\ n \notin FlagName /\ n \notin SwapName
            /\ n \notin {"acc", "repc", "x", "y", "p", "pe", "r", "sv"}
    BY NamesApart DEF HasShadows, Shadows
  <2>2. QED
    BY <2>1 DEF Scribbled
<1>6. ASSUME "bank" \notin what PROVE \A n \in SwapName : h[n] = g[n]
  <2>1. \A n \in SwapName :
            n \in DOMAIN g /\ n \notin FlagName
            /\ n \notin {"acc", "repc", "x", "y", "p", "pe", "r", "sv"}
    BY NamesApart DEF HasShadows, SwapName
  <2>2. QED
    BY <1>6, <2>1 DEF Scribbled
<1>7. DOMAIN h.acc = AccName
  BY <1>3 DEF HasShadows
<1>8. QED
  BY <1>1, <1>3, <1>4, <1>5, <1>6, <1>7 DEF HasShadows

\* A handler between a store and a restore.
LEMMA PlainKept ==
    ASSUME NEW g, HasShadows(g), NEW what
    PROVE  LET h == ContextRestore(Scribbled(ContextStore(g), what)) IN
           /\ \A f \in FlagName : h[f] = g[f]
           /\ \A n \in SwapName : h[n] = g[n]
           /\ "repc" \notin what \/ g.crep = 0 => h.repc = g.repc
           /\ "acc" \notin what \/ g.ccnta = 0 => h.acc.a1 = g.acc.a1 /\ h.acc.b1 = g.acc.b1
           /\ "bank" \notin what => h.swapped = [n \in SwapName |-> g.swapped[n]]
<1> DEFINE s == ContextStore(g)
           t == Scribbled(s, what)
           h == ContextRestore(t)
<1>1. /\ HasShadows(s)
      /\ s.crep = g.crep /\ s.ccnta = g.ccnta /\ s.repc = g.repc
      /\ \A n \in SwapName : s[n] = g.swapped[n]
      /\ s.swapped = [n \in SwapName |-> g[n]]
      /\ \A f \in FlagName : s.kept[f] = g[f]
      /\ s.repcs = IF g.crep = 0 THEN g.repc ELSE g.repcs
      /\ g.ccnta = 0 => s.acc = g.acc /\ s.a1s = g.acc.a1 /\ s.b1s = g.acc.b1
      /\ g.ccnta # 0 => s.acc.a1 = g.acc.b1 /\ s.acc.b1 = g.acc.a1
  BY StoreIs
<1> HIDE DEF s
<1>2. /\ HasShadows(t)
      /\ \A n \in Shadows \ {"acc", "repc"} : t[n] = s[n]
      /\ "bank" \notin what => \A n \in SwapName : t[n] = s[n]
      /\ "repc" \notin what => t.repc = s.repc
      /\ "acc" \notin what => t.acc = s.acc
  BY <1>1, ScribbledIs
<1>3. /\ t.crep = s.crep /\ t.ccnta = s.ccnta /\ t.kept = s.kept /\ t.swapped = s.swapped
      /\ t.repcs = s.repcs /\ t.a1s = s.a1s /\ t.b1s = s.b1s
  BY <1>2 DEF Shadows
<1> HIDE DEF t
<1>4. /\ \A n \in SwapName : h[n] = t.swapped[n]
      /\ h.swapped = [n \in SwapName |-> t[n]]
      /\ \A f \in FlagName : h[f] = t.kept[f]
      /\ h.repc = IF t.crep = 0 THEN t.repcs ELSE t.repc
      /\ t.ccnta = 0 => h.acc.a1 = t.a1s /\ h.acc.b1 = t.b1s
      /\ t.ccnta # 0 => h.acc.a1 = t.acc.b1 /\ h.acc.b1 = t.acc.a1
  BY <1>2, RestoreIs
<1> HIDE DEF h
<1>5. /\ \A f \in FlagName : h[f] = g[f]
      /\ \A n \in SwapName : h[n] = g[n]
  BY <1>1, <1>3, <1>4
<1>6. "repc" \notin what \/ g.crep = 0 => h.repc = g.repc
  BY <1>1, <1>2, <1>3, <1>4
<1>7. "acc" \notin what \/ g.ccnta = 0 => h.acc.a1 = g.acc.a1 /\ h.acc.b1 = g.acc.b1
  BY <1>1, <1>2, <1>3, <1>4
<1>8. "bank" \notin what => h.swapped = [n \in SwapName |-> g.swapped[n]]
  BY <1>1, <1>2, <1>4
<1>9. QED
  BY <1>5, <1>6, <1>7, <1>8 DEF h, t, s

\* A handler within a handler: its switch restores what the outer one had, and the outer
\* one's switch what was there before, except the flags, which the inner store has replaced.
LEMMA NestedKept ==
    ASSUME NEW g, HasShadows(g), NEW outer, NEW inner
    PROVE  LET middle == Scribbled(ContextStore(g), outer)
               h == ContextRestore(ContextRestore(Scribbled(ContextStore(middle), inner)))
           IN
           /\ "bank" \notin inner => \A n \in SwapName : h[n] = g[n]
           /\ "repc" \notin outer /\ (g.crep = 0 \/ "repc" \notin inner) => h.repc = g.repc
           /\ "acc" \notin outer /\ (g.ccnta = 0 \/ "acc" \notin inner)
                => h.acc.a1 = g.acc.a1 /\ h.acc.b1 = g.acc.b1
<1> DEFINE s == ContextStore(g)
           t == Scribbled(s, outer)
           u == ContextStore(t)
           v == Scribbled(u, inner)
           w == ContextRestore(v)
           h == ContextRestore(w)
<1>1. /\ HasShadows(s)
      /\ s.crep = g.crep /\ s.ccnta = g.ccnta /\ s.repc = g.repc
      /\ s.swapped = [n \in SwapName |-> g[n]]
      /\ s.repcs = IF g.crep = 0 THEN g.repc ELSE g.repcs
      /\ g.ccnta = 0 => s.acc = g.acc /\ s.a1s = g.acc.a1 /\ s.b1s = g.acc.b1
      /\ g.ccnta # 0 => s.acc.a1 = g.acc.b1 /\ s.acc.b1 = g.acc.a1
  BY StoreIs
<1> HIDE DEF s
<1>2. /\ HasShadows(t)
      /\ \A n \in Shadows \ {"acc", "repc"} : t[n] = s[n]
      /\ "repc" \notin outer => t.repc = s.repc
      /\ "acc" \notin outer => t.acc = s.acc
  BY <1>1, ScribbledIs
<1>3. /\ t.crep = s.crep /\ t.ccnta = s.ccnta /\ t.swapped = s.swapped
      /\ t.repcs = s.repcs /\ t.a1s = s.a1s /\ t.b1s = s.b1s
  BY <1>2 DEF Shadows
<1> HIDE DEF t
<1>4. /\ HasShadows(u)
      /\ u.crep = t.crep /\ u.ccnta = t.ccnta /\ u.repc = t.repc
      /\ \A n \in SwapName : u[n] = t.swapped[n]
      /\ u.repcs = IF t.crep = 0 THEN t.repc ELSE t.repcs
      /\ t.ccnta = 0 => u.acc = t.acc /\ u.a1s = t.acc.a1 /\ u.b1s = t.acc.b1
      /\ t.ccnta # 0 => u.acc.a1 = t.acc.b1 /\ u.acc.b1 = t.acc.a1
  BY <1>2, StoreIs
<1> HIDE DEF u
<1>5. /\ HasShadows(v)
      /\ \A n \in Shadows \ {"acc", "repc"} : v[n] = u[n]
      /\ "bank" \notin inner => \A n \in SwapName : v[n] = u[n]
      /\ "repc" \notin inner => v.repc = u.repc
      /\ "acc" \notin inner => v.acc = u.acc
  BY <1>4, ScribbledIs
<1>6. /\ v.crep = u.crep /\ v.ccnta = u.ccnta
      /\ v.repcs = u.repcs /\ v.a1s = u.a1s /\ v.b1s = u.b1s
  BY <1>5 DEF Shadows
<1> HIDE DEF v
<1>7. /\ HasShadows(w)
      /\ w.crep = v.crep /\ w.ccnta = v.ccnta /\ w.repcs = v.repcs
      /\ w.swapped = [n \in SwapName |-> v[n]]
      /\ w.repc = IF v.crep = 0 THEN v.repcs ELSE v.repc
      /\ w.a1s = v.a1s /\ w.b1s = v.b1s
      /\ v.ccnta = 0 => w.acc.a1 = v.a1s /\ w.acc.b1 = v.b1s
      /\ v.ccnta # 0 => w.acc.a1 = v.acc.b1 /\ w.acc.b1 = v.acc.a1
  BY <1>5, RestoreIs
<1> HIDE DEF w
<1>8. /\ \A n \in SwapName : h[n] = w.swapped[n]
      /\ h.repc = IF w.crep = 0 THEN w.repcs ELSE w.repc
      /\ w.ccnta = 0 => h.acc.a1 = w.a1s /\ h.acc.b1 = w.b1s
      /\ w.ccnta # 0 => h.acc.a1 = w.acc.b1 /\ h.acc.b1 = w.acc.a1
  BY <1>7, RestoreIs
<1> HIDE DEF h
<1>9. "bank" \notin inner => \A n \in SwapName : h[n] = g[n]
  BY <1>1, <1>3, <1>4, <1>5, <1>7, <1>8
<1>10. "repc" \notin outer /\ (g.crep = 0 \/ "repc" \notin inner) => h.repc = g.repc
  BY <1>1, <1>2, <1>3, <1>4, <1>5, <1>6, <1>7, <1>8
<1>11. "acc" \notin outer /\ (g.ccnta = 0 \/ "acc" \notin inner)
          => h.acc.a1 = g.acc.a1 /\ h.acc.b1 = g.acc.b1
  BY <1>1, <1>2, <1>3, <1>4, <1>5, <1>6, <1>7, <1>8
<1>12. QED
  BY <1>9, <1>10, <1>11 DEF h, w, v, u, t, s

\* The programs of Switch, and the registers after each of their instructions.
Cntx(store) == [op |-> "cntx", store |-> store]
Handler(what) == [op |-> "scribble", what |-> what]
PlainSwitch == <<Cntx(TRUE), Handler(routine.outer), Cntx(FALSE)>>
NestedSwitch ==
    <<Cntx(TRUE), Handler(routine.outer), Cntx(TRUE), Handler(routine.inner), Cntx(FALSE), Cntx(FALSE)>>
PlainStates ==
    LET s == ContextStore(start)  t == Scribbled(s, routine.outer)
    IN  <<start, s, t, ContextRestore(t)>>
NestedStates ==
    LET s == ContextStore(start)  t == Scribbled(s, routine.outer)
        u == ContextStore(t)  v == Scribbled(u, routine.inner)  w == ContextRestore(v)
    IN  <<start, s, t, u, v, w, ContextRestore(w)>>

LEMMA PlainLeads == Leads(PlainSwitch, PlainStates, 3)
<1> DEFINE s == ContextStore(start)
           t == Scribbled(s, routine.outer)
<1>1. PlainSwitch[1].op \in MoveOps /\ s = Effect(PlainSwitch[1], start)
  BY DEF PlainSwitch, Cntx, MoveOps, Effect
<1>2. PlainSwitch[2].op \in MoveOps /\ t = Effect(PlainSwitch[2], s)
  BY DEF PlainSwitch, Handler, MoveOps, Effect
<1>3. PlainSwitch[3].op \in MoveOps /\ ContextRestore(t) = Effect(PlainSwitch[3], t)
  BY DEF PlainSwitch, Cntx, MoveOps, Effect
<1>4. PlainStates[1] = start /\ PlainStates[2] = s /\ PlainStates[3] = t /\ PlainStates[4] = ContextRestore(t)
  BY DEF PlainStates
<1>5. QED
  BY <1>1, <1>2, <1>3, <1>4 DEF Leads

LEMMA NestedLeads == Leads(NestedSwitch, NestedStates, 6)
<1> DEFINE s == ContextStore(start)
           t == Scribbled(s, routine.outer)
           u == ContextStore(t)
           v == Scribbled(u, routine.inner)
           w == ContextRestore(v)
<1>1. NestedSwitch[1].op \in MoveOps /\ s = Effect(NestedSwitch[1], start)
  BY DEF NestedSwitch, Cntx, MoveOps, Effect
<1>2. NestedSwitch[2].op \in MoveOps /\ t = Effect(NestedSwitch[2], s)
  BY DEF NestedSwitch, Handler, MoveOps, Effect
<1>3. NestedSwitch[3].op \in MoveOps /\ u = Effect(NestedSwitch[3], t)
  BY DEF NestedSwitch, Cntx, MoveOps, Effect
<1>4. NestedSwitch[4].op \in MoveOps /\ v = Effect(NestedSwitch[4], u)
  BY DEF NestedSwitch, Handler, MoveOps, Effect
<1>5. NestedSwitch[5].op \in MoveOps /\ w = Effect(NestedSwitch[5], v)
  BY DEF NestedSwitch, Cntx, MoveOps, Effect
<1>6. NestedSwitch[6].op \in MoveOps /\ ContextRestore(w) = Effect(NestedSwitch[6], w)
  BY DEF NestedSwitch, Cntx, MoveOps, Effect
<1>7. /\ NestedStates[1] = start /\ NestedStates[2] = s /\ NestedStates[3] = t /\ NestedStates[4] = u
      /\ NestedStates[5] = v /\ NestedStates[6] = w /\ NestedStates[7] = ContextRestore(w)
  BY DEF NestedStates
<1> HIDE DEF s, t, u, v, w
<1>8. QED
  BY <1>1, <1>2, <1>3, <1>4, <1>5, <1>6, <1>7 DEF Leads

\* The registers are those of a prefix of the program.
SwitchInv ==
    Is("switch") =>
        /\ HasShadows(start)
        /\ start.swapped = [n \in SwapName |-> start.swapped[n]]
        /\ routine.nested => Follows(NestedSwitch, NestedStates, 6)
        /\ ~routine.nested => Follows(PlainSwitch, PlainStates, 3)

LEMMA SwitchInit == ProgramsInit => SwitchInv
<1> SUFFICES ASSUME ProgramsInit, Is("switch") PROVE SwitchInv
  BY DEF SwitchInv
<1>1. PICK outer \in SUBSET Parts, inner \in SUBSET Parts, nested \in BOOLEAN,
           crep \in {0, 1}, ccnta \in {0, 1} : SwitchOnce(outer, inner, nested, crep, ccnta)
  BY Kinds DEF Switch
<1>2. /\ routine.outer = outer /\ routine.inner = inner /\ routine.nested = nested
      /\ regs = start
      /\ start = [SetAcc(SetAcc(Fresh, "a1", 7), "b1", -2) EXCEPT
                 !.crep = crep, !.ccnta = ccnta, !.repc = 2, !.fc1 = 1, !.fz = 1, !.flm = 1,
                 !.m[2] = 1, !.ps[1] = 2, !.page = 1]
      /\ nested => todo = <<Cntx(TRUE), Handler(outer), Cntx(TRUE), Handler(inner),
                            Cntx(FALSE), Cntx(FALSE)>>
      /\ ~nested => todo = <<Cntx(TRUE), Handler(outer), Cntx(FALSE)>>
  BY <1>1 DEF SwitchOnce, Begin, BeginWith, Cntx, Handler
<1>3. HasShadows(start) /\ start.swapped = Fresh.swapped
  <2> DEFINE f == SetAcc(SetAcc(Fresh, "a1", 7), "b1", -2)
  <2>1. /\ FlagName \cup SwapName \cup Shadows \subseteq DOMAIN Fresh
        /\ DOMAIN Fresh.acc = AccName
    BY DEF FlagName, SwapName, Shadows, Fresh, RegisterState
  <2>2. DOMAIN f = DOMAIN Fresh /\ DOMAIN f.acc = AccName /\ f.swapped = Fresh.swapped
    BY <2>1 DEF SetAcc, Shadows
  <2> HIDE DEF f
  <2>3. DOMAIN start = DOMAIN f /\ start.acc = f.acc /\ start.swapped = f.swapped
    BY <1>2, <2>1, <2>2 DEF f, Shadows
  <2>4. QED
    BY <2>1, <2>2, <2>3 DEF HasShadows
<1>4. start.swapped = [n \in SwapName |-> start.swapped[n]]
  <2>1. DOMAIN Fresh.swapped = SwapName /\ Fresh.swapped = [n \in SwapName |-> Fresh.swapped[n]]
    BY DEF Fresh, RegisterState
  <2>2. QED
    BY <1>3, <2>1
<1>5. ASSUME routine.nested PROVE Follows(NestedSwitch, NestedStates, 6)
  <2>1. todo = NestedSwitch /\ NestedStates[1] = start
    BY <1>2, <1>5 DEF NestedSwitch, NestedStates
  <2>2. NestedSwitch = [j \in 1 .. 6 |-> NestedSwitch[j]]
    BY DEF NestedSwitch
  <2>3. QED
    BY <1>2, <2>1, <2>2, FollowsStart
<1>6. ASSUME ~routine.nested PROVE Follows(PlainSwitch, PlainStates, 3)
  <2>1. todo = PlainSwitch /\ PlainStates[1] = start
    BY <1>2, <1>6 DEF PlainSwitch, PlainStates
  <2>2. PlainSwitch = [j \in 1 .. 3 |-> PlainSwitch[j]]
    BY DEF PlainSwitch
  <2>3. QED
    BY <1>2, <2>1, <2>2, FollowsStart
<1>7. QED
  BY <1>3, <1>4, <1>5, <1>6 DEF SwitchInv

LEMMA SwitchStep == SwitchInv /\ [RoutineNext]_routineVars => SwitchInv'
<1> SUFFICES ASSUME SwitchInv, [RoutineNext]_routineVars, Is("switch")' PROVE SwitchInv'
  BY DEF SwitchInv
<1>1. CASE UNCHANGED routineVars
  BY <1>1 DEF routineVars, SwitchInv, Follows, Is, NestedSwitch, NestedStates, PlainSwitch, PlainStates
<1>2. CASE RoutineNext
  <2>1. UNCHANGED <<start, routine>>
    BY <1>2 DEF RoutineNext, Execute, Access, Push, Pop
  <2>2. /\ HasShadows(start) /\ start.swapped = [n \in SwapName |-> start.swapped[n]]
        /\ routine.nested => Follows(NestedSwitch, NestedStates, 6)
        /\ ~routine.nested => Follows(PlainSwitch, PlainStates, 3)
    BY <2>1 DEF SwitchInv, Is
  <2>3. /\ NestedSwitch' = NestedSwitch /\ NestedStates' = NestedStates
        /\ PlainSwitch' = PlainSwitch /\ PlainStates' = PlainStates
    BY <2>1 DEF NestedSwitch, NestedStates, PlainSwitch, PlainStates
  <2>4. ASSUME routine.nested PROVE Follows(NestedSwitch, NestedStates, 6)'
    BY <1>2, <2>2, <2>3, <2>4, NestedLeads, FollowsStep DEF Follows
  <2>5. ASSUME ~routine.nested PROVE Follows(PlainSwitch, PlainStates, 3)'
    BY <1>2, <2>2, <2>3, <2>5, PlainLeads, FollowsStep DEF Follows
  <2>6. QED
    BY <2>1, <2>2, <2>4, <2>5 DEF SwitchInv
<1>3. QED
  BY <1>1, <1>2

\* The part of ContextKept about context switches.
SwitchKept ==
    Ends("switch") =>
        LET used == routine.outer \cup routine.inner
            free(part, saves) == part \notin routine.outer /\ (saves = 0 \/ part \notin routine.inner)
        IN  /\ ~routine.nested => \A f \in FlagName : regs[f] = start[f]
            /\ "bank" \notin routine.inner => \A n \in SwapName : regs[n] = start[n]
            /\ free("repc", start.crep) \/ (~routine.nested /\ start.crep = 0)
                => regs.repc = start.repc
            /\ free("acc", start.ccnta) \/ (~routine.nested /\ start.ccnta = 0)
                => regs.acc.a1 = start.acc.a1 /\ regs.acc.b1 = start.acc.b1
            /\ ~routine.nested /\ "bank" \notin used => regs.swapped = start.swapped

LEMMA SwitchEnds == SwitchInv => SwitchKept
<1> SUFFICES ASSUME SwitchInv, Ends("switch") PROVE SwitchKept
  BY DEF SwitchKept
<1>1. /\ HasShadows(start) /\ start.swapped = [n \in SwapName |-> start.swapped[n]]
      /\ routine.nested => Follows(NestedSwitch, NestedStates, 6)
      /\ ~routine.nested => Follows(PlainSwitch, PlainStates, 3)
      /\ Done
  BY DEF SwitchInv, Ends
<1>2. CASE routine.nested
  <2> DEFINE middle == Scribbled(ContextStore(start), routine.outer)
             h == ContextRestore(ContextRestore(Scribbled(ContextStore(middle), routine.inner)))
  <2>1. regs = NestedStates[6 + 1]
    BY <1>1, <1>2, FollowsDone
  <2>2. regs = h
    BY <2>1 DEF NestedStates
  <2>3. /\ "bank" \notin routine.inner => \A n \in SwapName : h[n] = start[n]
        /\ "repc" \notin routine.outer /\ (start.crep = 0 \/ "repc" \notin routine.inner)
            => h.repc = start.repc
        /\ "acc" \notin routine.outer /\ (start.ccnta = 0 \/ "acc" \notin routine.inner)
            => h.acc.a1 = start.acc.a1 /\ h.acc.b1 = start.acc.b1
    BY <1>1, NestedKept
  <2> HIDE DEF h
  <2>4. QED
    BY <1>2, <2>2, <2>3 DEF SwitchKept
<1>3. CASE ~routine.nested
  <2> DEFINE h == ContextRestore(Scribbled(ContextStore(start), routine.outer))
  <2>1. regs = PlainStates[3 + 1]
    BY <1>1, <1>3, FollowsDone
  <2>2. regs = h
    BY <2>1 DEF PlainStates
  <2>3. /\ \A f \in FlagName : h[f] = start[f]
        /\ \A n \in SwapName : h[n] = start[n]
        /\ "repc" \notin routine.outer \/ start.crep = 0 => h.repc = start.repc
        /\ "acc" \notin routine.outer \/ start.ccnta = 0
            => h.acc.a1 = start.acc.a1 /\ h.acc.b1 = start.acc.b1
        /\ "bank" \notin routine.outer => h.swapped = [n \in SwapName |-> start.swapped[n]]
    BY <1>1, PlainKept
  <2> HIDE DEF h
  <2>4. QED
    BY <1>1, <1>3, <2>2, <2>3 DEF SwitchKept
<1>4. QED
  BY <1>2, <1>3

-----------------------------------------------------------------------------
(***************************************************************************)
(* Banks.                                                                  *)
(***************************************************************************)
StepNames == {"stepi", "stepj", "modi", "modj", "stepi0", "stepj0"}
\* What of the registers an exchange of banks needs.
HasBank(g) ==
    /\ StepNames \cup {"r", "bank", "stp16"} \subseteq DOMAIN g
    /\ StepNames \cup {"r"} \subseteq DOMAIN g.bank
    /\ \A u \in Unit : u \in DOMAIN g.r /\ u \in DOMAIN g.bank.r

\* The step registers that banke exchanges.
Config(g, cfgi, cfgj) ==
    {n \in {"stepi", "modi", "stepi0"} : cfgi /\ (n = "stepi0" => g.stp16 = 1)}
        \cup {n \in {"stepj", "modj", "stepj0"} : cfgj /\ (n = "stepj0" => g.stp16 = 1)}

LEMMA BankeIs ==
    ASSUME NEW g, HasBank(g), NEW units, NEW cfgi, NEW cfgj
    PROVE  LET h == banke(g, units, cfgi, cfgj) IN
           /\ HasBank(h) /\ h.stp16 = g.stp16
           /\ \A u \in Unit : /\ h.r[u] = IF u \in units THEN g.bank.r[u] ELSE g.r[u]
                              /\ h.bank.r[u] = IF u \in units THEN g.r[u] ELSE g.bank.r[u]
           /\ \A n \in StepNames :
                /\ h[n] = IF n \in Config(g, cfgi, cfgj) THEN g.bank[n] ELSE g[n]
                /\ h.bank[n] = IF n \in Config(g, cfgi, cfgj) THEN g[n] ELSE g.bank[n]
<1> DEFINE config == Config(g, cfgi, cfgj)
           fromR(r, other) == [u \in Unit |-> IF u \in units THEN other[u] ELSE r[u]]
           h == banke(g, units, cfgi, cfgj)
<1>1. h = [n \in DOMAIN g |->
            IF n = "r" THEN fromR(g.r, g.bank.r)
            ELSE IF n = "bank"
            THEN [k \in DOMAIN g.bank |->
                    IF k = "r" THEN fromR(g.bank.r, g.r)
                    ELSE IF k \in config THEN g[k] ELSE g.bank[k]]
            ELSE IF n \in config THEN g.bank[n] ELSE g[n]]
  BY DEF banke, Config
<1>2. config \subseteq StepNames
  BY DEF Config, StepNames
<1>3. "r" \notin StepNames /\ "bank" \notin StepNames /\ "stp16" \notin StepNames
  BY DEF StepNames
<1> HIDE DEF config, h
<1>4. /\ DOMAIN h = DOMAIN g /\ h.r = fromR(g.r, g.bank.r)
      /\ h.bank = [k \in DOMAIN g.bank |->
                    IF k = "r" THEN fromR(g.bank.r, g.r)
                    ELSE IF k \in config THEN g[k] ELSE g.bank[k]]
      /\ h.stp16 = g.stp16
  BY <1>1, <1>2, <1>3 DEF HasBank
<1>5. \A n \in StepNames : h[n] = IF n \in config THEN g.bank[n] ELSE g[n]
  BY <1>1, <1>3 DEF HasBank
<1>6. /\ DOMAIN h.bank = DOMAIN g.bank /\ h.bank.r = fromR(g.bank.r, g.r)
      /\ \A n \in StepNames : h.bank[n] = IF n \in config THEN g[n] ELSE g.bank[n]
  BY <1>3, <1>4 DEF HasBank
<1>7. \A u \in Unit : /\ h.r[u] = IF u \in units THEN g.bank.r[u] ELSE g.r[u]
                      /\ h.bank.r[u] = IF u \in units THEN g.r[u] ELSE g.bank.r[u]
  BY <1>4, <1>6
<1>8. DOMAIN h.r = Unit /\ DOMAIN h.bank.r = Unit
  BY <1>4, <1>6
<1>9. HasBank(h)
  BY <1>4, <1>6, <1>8 DEF HasBank
<1>10. QED
  BY <1>4, <1>5, <1>6, <1>7, <1>9 DEF h, config

\* Exchanged, r used, and exchanged again.
LEMMA ExchangedTwice ==
    ASSUME NEW g, HasBank(g), NEW units, units \subseteq Unit, NEW cfgi, NEW cfgj
    PROVE  LET h == banke(Scribbled(banke(g, units, cfgi, cfgj), {"r"}), units, cfgi, cfgj) IN
           /\ \A u \in units : h.r[u] = g.r[u] /\ h.bank.r[u] = 3
           /\ \A n \in StepNames : h[n] = g[n] /\ h.bank[n] = g.bank[n]
<1> DEFINE s == banke(g, units, cfgi, cfgj)
           t == Scribbled(s, {"r"})
           h == banke(t, units, cfgi, cfgj)
<1>1. /\ HasBank(s) /\ s.stp16 = g.stp16
      /\ \A u \in Unit : s.bank.r[u] = IF u \in units THEN g.r[u] ELSE g.bank.r[u]
      /\ \A n \in StepNames :
            /\ s[n] = IF n \in Config(g, cfgi, cfgj) THEN g.bank[n] ELSE g[n]
            /\ s.bank[n] = IF n \in Config(g, cfgi, cfgj) THEN g[n] ELSE g.bank[n]
  BY BankeIs
<1> HIDE DEF s
<1>2. /\ DOMAIN t = DOMAIN s /\ t.r = PerUnit(3)
      /\ \A n \in DOMAIN s \ {"r"} : t[n] = s[n]
  <2>1. "r" \notin FlagName /\ "r" \notin SwapName /\ "r" \in DOMAIN s
    BY <1>1 DEF FlagName, SwapName, HasBank
  <2>2. DOMAIN t = DOMAIN s
    BY DEF Scribbled
  <2>3. t.r = PerUnit(3)
    BY <2>1 DEF Scribbled
  <2>4. \A n \in DOMAIN s \ {"r"} : t[n] = s[n]
    BY DEF Scribbled
  <2>5. QED
    BY <2>2, <2>3, <2>4
<1>3. /\ HasBank(t) /\ t.stp16 = s.stp16 /\ t.bank = s.bank
      /\ \A n \in StepNames : t[n] = s[n]
      /\ \A u \in Unit : t.r[u] = 3
  <2>1. \A n \in StepNames \cup {"bank", "stp16"} : n \in DOMAIN s \ {"r"}
    BY <1>1 DEF HasBank, StepNames
  <2>2. t.stp16 = s.stp16 /\ t.bank = s.bank /\ \A n \in StepNames : t[n] = s[n]
    BY <1>2, <2>1
  <2>3. DOMAIN t.r = Unit /\ \A u \in Unit : t.r[u] = 3
    BY <1>2 DEF PerUnit
  <2>4. QED
    BY <1>1, <1>2, <2>2, <2>3 DEF HasBank
<1> HIDE DEF t
<1>4. /\ \A u \in Unit : /\ h.r[u] = IF u \in units THEN t.bank.r[u] ELSE t.r[u]
                         /\ h.bank.r[u] = IF u \in units THEN t.r[u] ELSE t.bank.r[u]
      /\ \A n \in StepNames :
            /\ h[n] = IF n \in Config(t, cfgi, cfgj) THEN t.bank[n] ELSE t[n]
            /\ h.bank[n] = IF n \in Config(t, cfgi, cfgj) THEN t[n] ELSE t.bank[n]
  BY <1>3, BankeIs
<1>5. Config(t, cfgi, cfgj) = Config(g, cfgi, cfgj)
  BY <1>1, <1>3 DEF Config
<1> HIDE DEF h
<1>6. \A u \in units : h.r[u] = g.r[u] /\ h.bank.r[u] = 3
  BY <1>1, <1>3, <1>4
<1>7. \A n \in StepNames : h[n] = g[n] /\ h.bank[n] = g.bank[n]
  BY <1>1, <1>3, <1>4, <1>5
<1>8. QED
  BY <1>6, <1>7 DEF h, t, s

\* The programs of Exchange, and the registers after each of their instructions.
ExchangeOnce(units, cfgi, cfgj) == [op |-> "banke", units |-> units, cfgi |-> cfgi, cfgj |-> cfgj]
ExchangeProgram(units, cfgi, cfgj) ==
    <<ExchangeOnce(units, cfgi, cfgj), Handler({"r"}), ExchangeOnce(units, cfgi, cfgj)>>
ExchangeStates(g, units, cfgi, cfgj) ==
    LET s == banke(g, units, cfgi, cfgj)  t == Scribbled(s, {"r"})
    IN  <<g, s, t, banke(t, units, cfgi, cfgj)>>

LEMMA ExchangeLeads ==
    ASSUME NEW g, NEW units, NEW cfgi, NEW cfgj
    PROVE  Leads(ExchangeProgram(units, cfgi, cfgj), ExchangeStates(g, units, cfgi, cfgj), 3)
<1> DEFINE program == ExchangeProgram(units, cfgi, cfgj)
           states == ExchangeStates(g, units, cfgi, cfgj)
           s == banke(g, units, cfgi, cfgj)
           t == Scribbled(s, {"r"})
           h == banke(t, units, cfgi, cfgj)
<1>1. program[1].op \in MoveOps /\ s = Effect(program[1], g)
  BY DEF ExchangeProgram, ExchangeOnce, MoveOps, Effect
<1>2. program[2].op \in MoveOps /\ t = Effect(program[2], s)
  BY DEF ExchangeProgram, Handler, MoveOps, Effect
<1>3. program[3].op \in MoveOps /\ h = Effect(program[3], t)
  BY DEF ExchangeProgram, ExchangeOnce, MoveOps, Effect
<1>4. states[1] = g /\ states[2] = s /\ states[3] = t /\ states[4] = h
  BY DEF ExchangeStates
<1> HIDE DEF program, states, s, t, h
<1>5. Leads(program, states, 3)
  BY <1>1, <1>2, <1>3, <1>4 DEF Leads
<1>6. QED
  BY <1>5 DEF program, states

ExchangeInv ==
    Is("exchange") =>
        /\ HasBank(start) /\ routine.units \subseteq Unit
        /\ \E cfgi, cfgj \in BOOLEAN :
            Follows(ExchangeProgram(routine.units, cfgi, cfgj),
                    ExchangeStates(start, routine.units, cfgi, cfgj), 3)

LEMMA ExchangeInit == ProgramsInit => ExchangeInv
<1> SUFFICES ASSUME ProgramsInit, Is("exchange") PROVE ExchangeInv
  BY DEF ExchangeInv
<1>1. PICK units \in SUBSET {0, 1, 4, 7}, cfgi \in BOOLEAN, cfgj \in BOOLEAN, stp16 \in {0, 1} :
        LET exchanged == [op |-> "banke", units |-> units, cfgi |-> cfgi, cfgj |-> cfgj] IN
        Begin([kind |-> "exchange", units |-> units],
              [Fresh EXCEPT !.r = [u \in Unit |-> 5 + u], !.stepi = 2, !.modj = 3, !.stp16 = stp16,
                            !.stepi0 = 4, !.bank.r[4] = 1],
              <<exchanged, [op |-> "scribble", what |-> {"r"}], exchanged>>)
  BY Kinds DEF Exchange
<1>2. /\ routine.units = units /\ regs = start
      /\ start = [Fresh EXCEPT !.r = [u \in Unit |-> 5 + u], !.stepi = 2, !.modj = 3, !.stp16 = stp16,
                            !.stepi0 = 4, !.bank.r[4] = 1]
      /\ todo = ExchangeProgram(units, cfgi, cfgj)
  BY <1>1 DEF Begin, BeginWith, ExchangeProgram, ExchangeOnce, Handler
<1>3. HasBank(start)
  <2>1. /\ StepNames \cup {"r", "bank", "stp16"} \subseteq DOMAIN Fresh
        /\ DOMAIN Fresh.bank = StepNames \cup {"r"}
        /\ DOMAIN Fresh.bank.r = Unit
    BY DEF Fresh, RegisterState, StepNames, PerUnit
  <2>2. /\ DOMAIN start = DOMAIN Fresh /\ start.r = [u \in Unit |-> 5 + u]
        /\ start.bank = [Fresh.bank EXCEPT !.r[4] = 1]
    BY <1>2, <2>1 DEF StepNames
  <2>3. DOMAIN start.bank = DOMAIN Fresh.bank /\ start.bank.r = [Fresh.bank.r EXCEPT ![4] = 1]
    BY <2>1, <2>2
  <2>4. DOMAIN start.r = Unit /\ DOMAIN start.bank.r = Unit
    BY <2>1, <2>2, <2>3
  <2>5. QED
    BY <2>1, <2>2, <2>3, <2>4 DEF HasBank
<1>4. routine.units \subseteq Unit
  BY <1>2 DEF Unit
<1> DEFINE program == ExchangeProgram(units, cfgi, cfgj)
           states == ExchangeStates(start, units, cfgi, cfgj)
<1>5. program = [j \in 1 .. 3 |-> program[j]] /\ states[1] = start
  BY DEF ExchangeProgram, ExchangeStates
<1> HIDE DEF program, states
<1>6. Follows(program, states, 3)
  BY <1>2, <1>5, FollowsStart DEF program
<1>7. QED
  BY <1>2, <1>3, <1>4, <1>6 DEF ExchangeInv, program, states

LEMMA ExchangeStep == ExchangeInv /\ [RoutineNext]_routineVars => ExchangeInv'
<1> SUFFICES ASSUME ExchangeInv, [RoutineNext]_routineVars, Is("exchange")' PROVE ExchangeInv'
  BY DEF ExchangeInv
<1>1. UNCHANGED <<start, routine>>
  BY DEF routineVars, RoutineNext, Execute, Access, Push, Pop
<1>2. /\ HasBank(start) /\ routine.units \subseteq Unit
      /\ \E cfgi, cfgj \in BOOLEAN :
            Follows(ExchangeProgram(routine.units, cfgi, cfgj),
                    ExchangeStates(start, routine.units, cfgi, cfgj), 3)
  BY <1>1 DEF ExchangeInv, Is
<1>3. PICK cfgi \in BOOLEAN, cfgj \in BOOLEAN :
            Follows(ExchangeProgram(routine.units, cfgi, cfgj),
                    ExchangeStates(start, routine.units, cfgi, cfgj), 3)
  BY <1>2
<1> DEFINE program == ExchangeProgram(routine.units, cfgi, cfgj)
           states == ExchangeStates(start, routine.units, cfgi, cfgj)
<1>4. program' = program /\ states' = states
  BY <1>1
<1>5. Leads(program, states, 3) /\ Follows(program, states, 3)
  BY <1>3, ExchangeLeads
<1>6. Follows(program, states, 3)'
  <2> HIDE DEF program, states
  <2>1. CASE UNCHANGED routineVars
    BY <1>4, <1>5, <2>1 DEF Follows, routineVars
  <2>2. CASE RoutineNext
    BY <1>4, <1>5, <2>2, FollowsStep DEF Follows
  <2>3. QED
    BY <2>1, <2>2
<1>7. QED
  BY <1>1, <1>2, <1>6 DEF ExchangeInv

\* The part of ContextKept about banke.
ExchangeKept ==
    Ends("exchange") =>
        /\ \A u \in routine.units : regs.r[u] = start.r[u] /\ regs.bank.r[u] = 3
        /\ \A n \in {"stepi", "stepj", "modi", "modj", "stepi0", "stepj0"} :
            regs[n] = start[n] /\ regs.bank[n] = start.bank[n]

LEMMA ExchangeEnds == ExchangeInv => ExchangeKept
<1> SUFFICES ASSUME ExchangeInv, Ends("exchange") PROVE ExchangeKept
  BY DEF ExchangeKept
<1>1. PICK cfgi \in BOOLEAN, cfgj \in BOOLEAN :
            Follows(ExchangeProgram(routine.units, cfgi, cfgj),
                    ExchangeStates(start, routine.units, cfgi, cfgj), 3)
  BY DEF ExchangeInv, Ends
<1>2. HasBank(start) /\ routine.units \subseteq Unit /\ Done
  BY DEF ExchangeInv, Ends
<1> DEFINE h == banke(Scribbled(banke(start, routine.units, cfgi, cfgj), {"r"}), routine.units, cfgi, cfgj)
<1>3. regs = ExchangeStates(start, routine.units, cfgi, cfgj)[3 + 1]
  BY <1>1, <1>2, FollowsDone
<1>4. regs = h
  BY <1>3 DEF ExchangeStates
<1>5. /\ \A u \in routine.units : h.r[u] = start.r[u] /\ h.bank.r[u] = 3
      /\ \A n \in StepNames : h[n] = start[n] /\ h.bank[n] = start.bank[n]
  BY <1>2, ExchangedTwice
<1> HIDE DEF h
<1>6. QED
  BY <1>4, <1>5 DEF ExchangeKept, StepNames

-----------------------------------------------------------------------------
(***************************************************************************)
(* Banks of ar and arp.                                                    *)
(***************************************************************************)
Entries(f) == f = [k \in 0 .. 3 |-> f[k]]
\* What of the registers an exchange of ar and arp needs.
HasAr(g) ==
    /\ {"ar", "arp", "swapped"} \subseteq DOMAIN g /\ {"ar", "arp"} \subseteq DOMAIN g.swapped
    /\ Entries(g.ar) /\ Entries(g.arp) /\ Entries(g.swapped.ar) /\ Entries(g.swapped.arp)

LEMMA SwapArIs ==
    ASSUME NEW g, HasAr(g), NEW i
    PROVE  LET h == SwapAr(g, i) IN
           /\ HasAr(h) /\ h.arp = g.arp /\ h.swapped.arp = g.swapped.arp
           /\ \A k \in 0 .. 3 :
                /\ h.ar[k] = IF k \div 2 = i THEN g.swapped.ar[k] ELSE g.ar[k]
                /\ h.swapped.ar[k] = IF k \div 2 = i THEN g.ar[k] ELSE g.swapped.ar[k]
<1> DEFINE one == [k \in 0 .. 3 |-> IF k \div 2 = i THEN g.swapped.ar[k] ELSE g.ar[k]]
           other == [k \in 0 .. 3 |-> IF k \div 2 = i THEN g.ar[k] ELSE g.swapped.ar[k]]
           h == SwapAr(g, i)
<1>1. h = [g EXCEPT !.ar = one, !.swapped.ar = other]
  BY DEF SwapAr
<1>2. DOMAIN one = 0 .. 3 /\ DOMAIN other = 0 .. 3 /\ Entries(one) /\ Entries(other)
  BY DEF Entries
<1>3. /\ \A k \in 0 .. 3 : one[k] = IF k \div 2 = i THEN g.swapped.ar[k] ELSE g.ar[k]
      /\ \A k \in 0 .. 3 : other[k] = IF k \div 2 = i THEN g.ar[k] ELSE g.swapped.ar[k]
  OBVIOUS
<1> HIDE DEF one, other, h
<1>4. /\ DOMAIN h = DOMAIN g /\ DOMAIN h.swapped = DOMAIN g.swapped
      /\ h.ar = one /\ h.swapped.ar = other /\ h.arp = g.arp /\ h.swapped.arp = g.swapped.arp
  BY <1>1 DEF HasAr
<1>5. HasAr(h)
  BY <1>2, <1>4 DEF HasAr
<1>6. QED
  BY <1>3, <1>4, <1>5 DEF h

LEMMA SwapArpIs ==
    ASSUME NEW g, HasAr(g), NEW i \in 0 .. 3
    PROVE  LET h == SwapArp(g, i) IN
           /\ HasAr(h) /\ h.ar = g.ar /\ h.swapped.ar = g.swapped.ar
           /\ \A k \in 0 .. 3 :
                /\ h.arp[k] = IF k = i THEN g.swapped.arp[k] ELSE g.arp[k]
                /\ h.swapped.arp[k] = IF k = i THEN g.arp[k] ELSE g.swapped.arp[k]
<1> DEFINE h == SwapArp(g, i)
<1>1. h = [g EXCEPT !.arp[i] = g.swapped.arp[i], !.swapped.arp[i] = g.arp[i]]
  BY DEF SwapArp
<1>2. DOMAIN g.arp = 0 .. 3 /\ DOMAIN g.swapped.arp = 0 .. 3
  BY DEF HasAr, Entries
<1> HIDE DEF h
<1>3. /\ DOMAIN h = DOMAIN g /\ DOMAIN h.swapped = DOMAIN g.swapped
      /\ h.ar = g.ar /\ h.swapped.ar = g.swapped.ar
      /\ h.arp = [g.arp EXCEPT ![i] = g.swapped.arp[i]]
      /\ h.swapped.arp = [g.swapped.arp EXCEPT ![i] = g.arp[i]]
  BY <1>1 DEF HasAr
<1>4. /\ \A k \in 0 .. 3 : h.arp[k] = IF k = i THEN g.swapped.arp[k] ELSE g.arp[k]
      /\ \A k \in 0 .. 3 : h.swapped.arp[k] = IF k = i THEN g.arp[k] ELSE g.swapped.arp[k]
      /\ Entries(h.arp) /\ Entries(h.swapped.arp)
  BY <1>2, <1>3 DEF Entries
<1>5. HasAr(h)
  BY <1>3, <1>4 DEF HasAr
<1>6. QED
  BY <1>3, <1>4, <1>5 DEF h

\* After a store, every entry exchanged once more is what it was.
LEMMA ArExchangedBack ==
    ASSUME NEW g, HasAr(g), HasShadows(g)
    PROVE  LET h == SwapArp(SwapArp(SwapArp(SwapArp(SwapAr(SwapAr(ContextStore(g), 1), 0), 0), 2), 1), 3)
           IN  /\ h.ar = g.ar /\ h.arp = g.arp
               /\ h.swapped.ar = g.swapped.ar /\ h.swapped.arp = g.swapped.arp
<1> DEFINE s == ContextStore(g)
           a == SwapAr(s, 1)  b == SwapAr(a, 0)
           c == SwapArp(b, 0)  d == SwapArp(c, 2)  e == SwapArp(d, 1)  h == SwapArp(e, 3)
<1>1. /\ s.ar = g.swapped.ar /\ s.arp = g.swapped.arp
      /\ s.swapped.ar = g.ar /\ s.swapped.arp = g.arp
      /\ HasAr(s)
  <2>1. "ar" \in SwapName /\ "arp" \in SwapName
    BY DEF SwapName
  <2>2. /\ HasShadows(s) /\ \A n \in SwapName : s[n] = g.swapped[n]
        /\ s.swapped = [n \in SwapName |-> g[n]]
    BY StoreIs
  <2> HIDE DEF s
  <2>3. /\ s.ar = g.swapped.ar /\ s.arp = g.swapped.arp
        /\ s.swapped.ar = g.ar /\ s.swapped.arp = g.arp
    BY <2>1, <2>2
  <2>4. {"ar", "arp", "swapped"} \subseteq DOMAIN s /\ {"ar", "arp"} \subseteq DOMAIN s.swapped
    BY <2>1, <2>2 DEF HasShadows, Shadows
  <2>5. QED
    BY <2>3, <2>4 DEF HasAr
<1> HIDE DEF s
<1>2. /\ HasAr(a) /\ a.arp = s.arp /\ a.swapped.arp = s.swapped.arp
      /\ \A k \in 0 .. 3 : /\ a.ar[k] = IF k \div 2 = 1 THEN s.swapped.ar[k] ELSE s.ar[k]
                           /\ a.swapped.ar[k] = IF k \div 2 = 1 THEN s.ar[k] ELSE s.swapped.ar[k]
  BY <1>1, SwapArIs
<1> HIDE DEF a
<1>3. /\ HasAr(b) /\ b.arp = a.arp /\ b.swapped.arp = a.swapped.arp
      /\ \A k \in 0 .. 3 : /\ b.ar[k] = IF k \div 2 = 0 THEN a.swapped.ar[k] ELSE a.ar[k]
                           /\ b.swapped.ar[k] = IF k \div 2 = 0 THEN a.ar[k] ELSE a.swapped.ar[k]
  BY <1>2, SwapArIs
<1> HIDE DEF b
<1>4. /\ HasAr(c) /\ c.ar = b.ar /\ c.swapped.ar = b.swapped.ar
      /\ \A k \in 0 .. 3 : /\ c.arp[k] = IF k = 0 THEN b.swapped.arp[k] ELSE b.arp[k]
                           /\ c.swapped.arp[k] = IF k = 0 THEN b.arp[k] ELSE b.swapped.arp[k]
  BY <1>3, SwapArpIs
<1> HIDE DEF c
<1>5. /\ HasAr(d) /\ d.ar = c.ar /\ d.swapped.ar = c.swapped.ar
      /\ \A k \in 0 .. 3 : /\ d.arp[k] = IF k = 2 THEN c.swapped.arp[k] ELSE c.arp[k]
                           /\ d.swapped.arp[k] = IF k = 2 THEN c.arp[k] ELSE c.swapped.arp[k]
  BY <1>4, SwapArpIs
<1> HIDE DEF d
<1>6. /\ HasAr(e) /\ e.ar = d.ar /\ e.swapped.ar = d.swapped.ar
      /\ \A k \in 0 .. 3 : /\ e.arp[k] = IF k = 1 THEN d.swapped.arp[k] ELSE d.arp[k]
                           /\ e.swapped.arp[k] = IF k = 1 THEN d.arp[k] ELSE d.swapped.arp[k]
  BY <1>5, SwapArpIs
<1> HIDE DEF e
<1>7. /\ HasAr(h) /\ h.ar = e.ar /\ h.swapped.ar = e.swapped.ar
      /\ \A k \in 0 .. 3 : /\ h.arp[k] = IF k = 3 THEN e.swapped.arp[k] ELSE e.arp[k]
                           /\ h.swapped.arp[k] = IF k = 3 THEN e.arp[k] ELSE e.swapped.arp[k]
  BY <1>6, SwapArpIs
<1> HIDE DEF h
<1>8. \A k \in 0 .. 3 : (k \div 2 = 1 /\ k \div 2 # 0) \/ (k \div 2 = 0 /\ k \div 2 # 1)
  <2>1. 0 \div 2 = 0 /\ 1 \div 2 = 0 /\ 2 \div 2 = 1 /\ 3 \div 2 = 1
    OBVIOUS
  <2>2. QED
    BY <2>1
<1>9. \A k \in 0 .. 3 : h.ar[k] = g.ar[k] /\ h.swapped.ar[k] = g.swapped.ar[k]
  <2>1. \A k \in 0 .. 3 : b.ar[k] = s.swapped.ar[k] /\ b.swapped.ar[k] = s.ar[k]
    BY <1>2, <1>3, <1>8
  <2>2. QED
    BY <1>1, <1>4, <1>5, <1>6, <1>7, <2>1
<1>10. \A k \in 0 .. 3 : h.arp[k] = g.arp[k] /\ h.swapped.arp[k] = g.swapped.arp[k]
  <2>1. b.arp = g.swapped.arp /\ b.swapped.arp = g.arp
    BY <1>1, <1>2, <1>3
  <2>2. TAKE k \in 0 .. 3
  <2>3. CASE k = 0
    BY <1>4, <1>5, <1>6, <1>7, <2>1, <2>3
  <2>4. CASE k = 1
    BY <1>4, <1>5, <1>6, <1>7, <2>1, <2>4
  <2>5. CASE k = 2
    BY <1>4, <1>5, <1>6, <1>7, <2>1, <2>5
  <2>6. CASE k = 3
    BY <1>4, <1>5, <1>6, <1>7, <2>1, <2>6
  <2>7. QED
    BY <2>3, <2>4, <2>5, <2>6
<1>11. /\ h.ar = g.ar /\ h.arp = g.arp
       /\ h.swapped.ar = g.swapped.ar /\ h.swapped.arp = g.swapped.arp
  BY <1>7, <1>9, <1>10 DEF HasAr, Entries
<1>12. QED
  BY <1>11 DEF h, e, d, c, b, a, s

\* The program of ExchangeAr, and the registers after each of its instructions.
BankrAr(k) == [op |-> "bankr", arp |-> FALSE, index |-> k]
BankrArp(k) == [op |-> "bankr", arp |-> TRUE, index |-> k]
BankrProgram ==
    <<Cntx(TRUE), BankrAr(1), BankrAr(0), BankrArp(0), BankrArp(2), BankrArp(1), BankrArp(3)>>
BankrStates(g) ==
    LET s == ContextStore(g)
        a == SwapAr(s, 1)  b == SwapAr(a, 0)
        c == SwapArp(b, 0)  d == SwapArp(c, 2)  e == SwapArp(d, 1)
    IN  <<g, s, a, b, c, d, e, SwapArp(e, 3)>>

LEMMA BankrLeads == ASSUME NEW g PROVE Leads(BankrProgram, BankrStates(g), 7)
<1> DEFINE states == BankrStates(g)
           s == ContextStore(g)
           a == SwapAr(s, 1)  b == SwapAr(a, 0)
           c == SwapArp(b, 0)  d == SwapArp(c, 2)  e == SwapArp(d, 1)  h == SwapArp(e, 3)
<1>1. s = Effect(Cntx(TRUE), g) /\ Cntx(TRUE).op \in MoveOps
  BY DEF Cntx, Effect, MoveOps
<1>2. a = Effect(BankrAr(1), s) /\ b = Effect(BankrAr(0), a) /\ \A k : BankrAr(k).op \in MoveOps
  BY DEF BankrAr, Effect, MoveOps
<1>3. /\ c = Effect(BankrArp(0), b) /\ d = Effect(BankrArp(2), c)
      /\ e = Effect(BankrArp(1), d) /\ h = Effect(BankrArp(3), e)
      /\ \A k : BankrArp(k).op \in MoveOps
  BY DEF BankrArp, Effect, MoveOps
<1>4. /\ states[1] = g /\ states[2] = s /\ states[3] = a /\ states[4] = b
      /\ states[5] = c /\ states[6] = d /\ states[7] = e /\ states[8] = h
  BY DEF BankrStates
<1>5. /\ BankrProgram[1] = Cntx(TRUE) /\ BankrProgram[2] = BankrAr(1) /\ BankrProgram[3] = BankrAr(0)
      /\ BankrProgram[4] = BankrArp(0) /\ BankrProgram[5] = BankrArp(2)
      /\ BankrProgram[6] = BankrArp(1) /\ BankrProgram[7] = BankrArp(3)
  BY DEF BankrProgram
<1> HIDE DEF states, s, a, b, c, d, e, h
<1> DEFINE Step(k) == BankrProgram[k].op \in MoveOps /\ states[k + 1] = Effect(BankrProgram[k], states[k])
<1>6. Step(1) /\ Step(2) /\ Step(3)
  <2>1. Step(1)
    <3>1. states[1 + 1] = s
      BY <1>4
    <3>2. QED
      BY <1>1, <1>4, <1>5, <3>1, Zenon
  <2>2. Step(2) /\ Step(3)
    BY <1>2, <1>4, <1>5
  <2>3. QED
    BY <2>1, <2>2
<1>7. Step(4) /\ Step(5) /\ Step(6) /\ Step(7)
  BY <1>3, <1>4, <1>5
<1> HIDE DEF Step
<1>8. \A k \in 1 .. 7 : Step(k)
  BY <1>6, <1>7
<1>9. QED
  BY <1>8 DEF Leads, Step, states

BankrInv ==
    Is("bankr") => HasAr(start) /\ HasShadows(start) /\ Follows(BankrProgram, BankrStates(start), 7)

LEMMA FreshHasShadows == HasShadows(Fresh)
  BY DEF HasShadows, FlagName, SwapName, Shadows, Fresh, RegisterState

LEMMA BankrInit == ProgramsInit => BankrInv
<1> SUFFICES ASSUME ProgramsInit, Is("bankr") PROVE BankrInv
  BY DEF BankrInv
<1>1. start = Fresh /\ regs = start /\ todo = BankrProgram
  BY Kinds DEF ExchangeAr, Begin, BeginWith, BankrProgram, Cntx, BankrAr, BankrArp
<1>2. HasAr(Fresh)
  <2>1. /\ Fresh.ar = InitialAr /\ Fresh.arp = InitialArp
        /\ {"ar", "arp", "swapped"} \subseteq DOMAIN Fresh
        /\ {"ar", "arp"} \subseteq DOMAIN Fresh.swapped
        /\ Fresh.swapped.ar = [k \in 0 .. 3 |-> Junk]
        /\ Fresh.swapped.arp = [k \in 0 .. 3 |-> <<Junk, Junk>>]
    BY DEF Fresh, RegisterState, SwapName
  <2>2. QED
    BY <2>1 DEF HasAr, Entries, InitialAr, InitialArp
<1>3. BankrProgram = [j \in 1 .. 7 |-> BankrProgram[j]] /\ BankrStates(start)[1] = start
  BY DEF BankrProgram, BankrStates
<1>4. Follows(BankrProgram, BankrStates(start), 7)
  BY <1>1, <1>3, FollowsStart
<1>5. QED
  BY <1>1, <1>2, <1>4, FreshHasShadows DEF BankrInv

LEMMA BankrStep == BankrInv /\ [RoutineNext]_routineVars => BankrInv'
<1> SUFFICES ASSUME BankrInv, [RoutineNext]_routineVars, Is("bankr")' PROVE BankrInv'
  BY DEF BankrInv
<1>1. UNCHANGED <<start, routine>>
  BY DEF routineVars, RoutineNext, Execute, Access, Push, Pop
<1>2. HasAr(start) /\ HasShadows(start) /\ Follows(BankrProgram, BankrStates(start), 7)
  BY <1>1 DEF BankrInv, Is
<1> DEFINE states == BankrStates(start)
<1>3. BankrProgram' = BankrProgram /\ states' = states
  BY <1>1 DEF BankrProgram, Cntx, BankrAr, BankrArp
<1>4. Leads(BankrProgram, states, 7)
  BY BankrLeads
<1>5. Follows(BankrProgram, states, 7)'
  <2> HIDE DEF states
  <2>1. CASE UNCHANGED routineVars
    BY <1>2, <1>3, <2>1 DEF Follows, routineVars, states
  <2>2. CASE RoutineNext
    BY <1>2, <1>3, <1>4, <2>2, FollowsStep DEF Follows, states
  <2>3. QED
    BY <2>1, <2>2
<1>6. QED
  BY <1>1, <1>2, <1>5 DEF BankrInv

\* The part of ContextKept about bankr.
BankrKept ==
    Ends("bankr") =>
        /\ regs.ar = start.ar /\ regs.arp = start.arp
        /\ regs.swapped.ar = start.swapped.ar /\ regs.swapped.arp = start.swapped.arp

LEMMA BankrEnds == BankrInv => BankrKept
<1> SUFFICES ASSUME BankrInv, Ends("bankr") PROVE BankrKept
  BY DEF BankrKept
<1>1. HasAr(start) /\ HasShadows(start) /\ Follows(BankrProgram, BankrStates(start), 7) /\ Done
  BY DEF BankrInv, Ends
<1> DEFINE h == SwapArp(SwapArp(SwapArp(SwapArp(SwapAr(SwapAr(ContextStore(start), 1), 0), 0), 2), 1), 3)
<1>2. regs = BankrStates(start)[7 + 1]
  BY <1>1, FollowsDone
<1>3. regs = h
  BY <1>2 DEF BankrStates
<1>4. /\ h.ar = start.ar /\ h.arp = start.arp
      /\ h.swapped.ar = start.swapped.ar /\ h.swapped.arp = start.swapped.arp
  BY <1>1, ArExchangedBack
<1> HIDE DEF h
<1>5. QED
  BY <1>3, <1>4 DEF BankrKept

-----------------------------------------------------------------------------
(***************************************************************************)
(* Swaps of accumulators.                                                  *)
(***************************************************************************)
\* A sequence of moves between accumulators, no two of them to the same one.
GoodMoves(moves) ==
    /\ Len(moves) \in Nat /\ DOMAIN moves = 1 .. Len(moves)
    /\ \A j \in 1 .. Len(moves) : moves[j][2] \in AccName
    /\ \A i, j \in 1 .. Len(moves) : i # j => moves[i][2] # moves[j][2]

LEMMA SwapMoves ==
    ASSUME NEW type \in DOMAIN SwapType
    PROVE  GoodMoves(SwapType[type])
<1>1. ASSUME NEW a \in AccName, NEW b \in AccName, a # b PROVE GoodMoves(Both(a, b))
  BY <1>1 DEF GoodMoves, Both
<1>2. ASSUME NEW a, NEW b \in AccName, NEW c \in AccName, b # c PROVE GoodMoves(Chain(a, b, c))
  BY <1>2 DEF GoodMoves, Chain
<1>3. ASSUME NEW a, NEW b, NEW c \in AccName, NEW d \in AccName, c # d
      PROVE  GoodMoves(<<<<a, c>>, <<b, d>>>>)
  BY <1>3 DEF GoodMoves
<1>4. ASSUME NEW a \in AccName, NEW b \in AccName, NEW c \in AccName, NEW d \in AccName,
             a # b, a # c, a # d, b # c, b # d, c # d
      PROVE  GoodMoves(BothPairs(a, b, c, d))
  BY <1>4 DEF GoodMoves, BothPairs
<1> DEFINE t == SwapType
<1>5. /\ DOMAIN t = {"a0b0", "a0b1", "a1b0", "a1b1"} \cup {"a0b0a1b1", "a0b1a1b0"}
                    \cup {"a0b0a1", "a0b1a1", "a1b0a0", "a1b1a0"}
                    \cup {"b0a0b1", "b0a1b1", "b1a0b0", "b1a1b0"}
      /\ t["a0b0"] = Both("a0", "b0") /\ t["a0b1"] = Both("a0", "b1")
      /\ t["a1b0"] = Both("a1", "b0") /\ t["a1b1"] = Both("a1", "b1")
      /\ t["a0b0a1b1"] = BothPairs("a1", "b1", "a0", "b0")
      /\ t["a0b1a1b0"] = BothPairs("a1", "b0", "a0", "b1")
      /\ t["a0b0a1"] = Chain("a0", "b0", "a1") /\ t["a0b1a1"] = Chain("a0", "b1", "a1")
      /\ t["a1b0a0"] = Chain("a1", "b0", "a0") /\ t["a1b1a0"] = Chain("a1", "b1", "a0")
      /\ t["b0a0b1"] = <<<<"a0", "b1">>, <<"b0", "a0">>>>
      /\ t["b0a1b1"] = <<<<"a1", "b1">>, <<"b0", "a1">>>>
      /\ t["b1a0b0"] = <<<<"a0", "b0">>, <<"b1", "a0">>>>
      /\ t["b1a1b0"] = <<<<"a1", "b0">>, <<"b1", "a1">>>>
  BY DEF SwapType
<1>6. /\ "a0" \in AccName /\ "a1" \in AccName /\ "b0" \in AccName /\ "b1" \in AccName
      /\ "a0" # "a1" /\ "a0" # "b0" /\ "a0" # "b1" /\ "a1" # "b0" /\ "a1" # "b1" /\ "b0" # "b1"
  BY DEF AccName
<1> HIDE DEF t
<1>7. /\ GoodMoves(t["a0b0"]) /\ GoodMoves(t["a0b1"]) /\ GoodMoves(t["a1b0"]) /\ GoodMoves(t["a1b1"])
      /\ GoodMoves(t["a0b0a1b1"]) /\ GoodMoves(t["a0b1a1b0"])
  BY <1>1, <1>4, <1>5, <1>6
<1>8. /\ GoodMoves(t["a0b0a1"]) /\ GoodMoves(t["a0b1a1"]) /\ GoodMoves(t["a1b0a0"]) /\ GoodMoves(t["a1b1a0"])
  BY <1>2, <1>5, <1>6
<1>9. /\ GoodMoves(t["b0a0b1"]) /\ GoodMoves(t["b0a1b1"]) /\ GoodMoves(t["b1a0b0"]) /\ GoodMoves(t["b1a1b0"])
  BY <1>3, <1>5, <1>6
<1>10. GoodMoves(t[type])
  <2>1. type \in DOMAIN t
    BY DEF t
  <2>2. CASE type \in {"a0b0", "a0b1", "a1b0", "a1b1"} \cup {"a0b0a1b1", "a0b1a1b0"}
    BY <1>7, <2>2
  <2>3. CASE type \in {"a0b0a1", "a0b1a1", "a1b0a0", "a1b1a0"}
    BY <1>8, <2>3
  <2>4. CASE type \in {"b0a0b1", "b0a1b1", "b1a0b0", "b1a1b0"}
    BY <1>9, <2>4
  <2>5. QED
    BY <1>5, <2>1, <2>2, <2>3, <2>4
<1>11. QED
  BY <1>10 DEF t

LEMMA SatSetIs ==
    ASSUME NEW g, HasAcc(g), "sata" \in DOMAIN g, NEW name \in AccName, NEW v
    PROVE  LET h == SatAndSetAccAndFlag(g, name, v) IN
           /\ HasAcc(h) /\ "sata" \in DOMAIN h /\ h.sata = g.sata
           /\ h.acc = [g.acc EXCEPT ![name] = IF g.sata = 0 THEN Clip(v) ELSE v]
<1> DEFINE f == SetAccFlag(g, v)
           s == SaturateAcc(f, v)
           h == SatAndSetAccAndFlag(g, name, v)
<1>1. DOMAIN f = DOMAIN g /\ f.acc = g.acc /\ f.sata = g.sata
  BY DEF SetAccFlag, HasAcc
<1> HIDE DEF f
<1>2. DOMAIN s = DOMAIN g /\ s.acc = g.acc /\ s.sata = g.sata
  BY <1>1 DEF SaturateAcc, HasAcc
<1> HIDE DEF s
<1>3. CASE g.sata = 0
  <2>1. h = [s EXCEPT !.acc[name] = Clip(v)]
    BY <1>3 DEF SatAndSetAccAndFlag, SetAcc, s, f
  <2> HIDE DEF h
  <2>2. DOMAIN h = DOMAIN g /\ h.sata = g.sata /\ h.acc = [g.acc EXCEPT ![name] = Clip(v)]
    BY <1>2, <2>1 DEF HasAcc
  <2>3. QED
    BY <1>3, <2>2 DEF HasAcc, h
<1>4. CASE g.sata # 0
  <2>1. h = [f EXCEPT !.acc[name] = v]
    BY <1>4 DEF SatAndSetAccAndFlag, SetAcc, f
  <2> HIDE DEF h
  <2>2. DOMAIN h = DOMAIN g /\ h.sata = g.sata /\ h.acc = [g.acc EXCEPT ![name] = v]
    BY <1>1, <2>1 DEF HasAcc
  <2>3. QED
    BY <1>4, <2>2 DEF HasAcc, h
<1>5. QED
  BY <1>3, <1>4

\* f is the registers move by move, up to n.
SwapTo(f, g, moves, n) ==
    f = [m \in 0 .. n |->
            IF m = 0 THEN g
            ELSE SatAndSetAccAndFlag(f[m - 1], moves[m][2], g.acc[moves[m][1]])]

LEMMA SwapExists ==
    ASSUME NEW g, NEW moves, NEW n \in Nat
    PROVE  \E f : SwapTo(f, g, moves, n)
<1> DEFINE New(h, m) == SatAndSetAccAndFlag(h, moves[m][2], g.acc[moves[m][1]])
           Good == {k \in Nat : \E f : SwapTo(f, g, moves, k)}
<1>1. 0 \in Good
  <2> DEFINE f == [m \in 0 .. 0 |-> g]
  <2>1. SwapTo(f, g, moves, 0)
    BY DEF SwapTo
  <2>2. QED
    BY <2>1
<1>2. ASSUME NEW k \in Good
      PROVE  k + 1 \in Good
  <2>1. PICK f : SwapTo(f, g, moves, k)
    BY <1>2
  <2> DEFINE h == [m \in 0 .. k + 1 |-> IF m = k + 1 THEN New(f[k], m) ELSE f[m]]
  <2>2. k \in Nat
    BY <1>2
  <2> HIDE DEF New
  <2>3. \A m \in 0 .. k + 1 : m # 0 => h[m - 1] = f[m - 1]
    BY <2>2
  <2>4. f = [m \in 0 .. k |-> IF m = 0 THEN g ELSE New(f[m - 1], m)]
    BY <2>1 DEF SwapTo, New
  <2>5. \A m \in 0 .. k + 1 : h[m] = IF m = 0 THEN g ELSE New(h[m - 1], m)
    BY <2>2, <2>3, <2>4
  <2>6. h = [m \in 0 .. k + 1 |-> IF m = 0 THEN g ELSE New(h[m - 1], m)]
    BY <2>5
  <2> HIDE DEF h
  <2>7. SwapTo(h, g, moves, k + 1)
    BY <2>6 DEF SwapTo, New
  <2>8. QED
    BY <2>2, <2>7
<1>3. Good = Nat
  <2> HIDE DEF Good
  <2>1. Good \in SUBSET Nat
    BY DEF Good
  <2>2. QED
    BY <1>1, <1>2, <2>1, Induction
<1>4. QED
  BY <1>3

\* What a move of v leaves in an accumulator.
Saturated(g, v) == IF g.sata = 0 THEN Clip(v) ELSE v

\* A swap moves every accumulator's value from before, also when an earlier move of the
\* same swap has replaced it.
LEMMA SwapIs ==
    ASSUME NEW g, HasAcc(g), "sata" \in DOMAIN g, NEW type \in DOMAIN SwapType
    PROVE  LET h == swap(g, type)  moves == SwapType[type] IN
           /\ HasAcc(h) /\ "sata" \in DOMAIN h /\ h.sata = g.sata
           /\ \A j \in 1 .. Len(moves) : h.acc[moves[j][2]] = Saturated(g, g.acc[moves[j][1]])
           /\ \A a \in AccName : (\A j \in 1 .. Len(moves) : a # moves[j][2]) => h.acc[a] = g.acc[a]
<1> DEFINE moves == SwapType[type]
           n == Len(moves)
<1>1. GoodMoves(moves)
  BY SwapMoves
<1>2. n \in Nat
  BY <1>1 DEF GoodMoves
<1>3. \E f : SwapTo(f, g, moves, n)
  BY <1>2, SwapExists
<1>4. PICK f : SwapTo(f, g, moves, n) /\ swap(g, type) = f[n]
  BY <1>3 DEF swap, SwapTo
<1> HIDE DEF moves
<1> DEFINE Right1(k) ==
            /\ HasAcc(f[k]) /\ "sata" \in DOMAIN f[k] /\ f[k].sata = g.sata
            /\ \A j \in 1 .. k : f[k].acc[moves[j][2]] = Saturated(g, g.acc[moves[j][1]])
            /\ \A a \in AccName : (\A j \in 1 .. k : a # moves[j][2]) => f[k].acc[a] = g.acc[a]
           Good == {k \in Nat : k <= n => Right1(k)}
<1>5. 0 \in Good
  <2>1. f[0] = g
    BY <1>2, <1>4 DEF SwapTo
  <2>2. QED
    BY <2>1
<1>6. ASSUME NEW k \in Good PROVE k + 1 \in Good
  <2>1. k \in Nat /\ (k <= n => Right1(k))
    BY <1>6
  <2> SUFFICES ASSUME k + 1 <= n PROVE Right1(k + 1)
    BY <2>1
  <2>2. /\ HasAcc(f[k]) /\ "sata" \in DOMAIN f[k] /\ f[k].sata = g.sata
        /\ \A j \in 1 .. k : f[k].acc[moves[j][2]] = Saturated(g, g.acc[moves[j][1]])
        /\ \A a \in AccName : (\A j \in 1 .. k : a # moves[j][2]) => f[k].acc[a] = g.acc[a]
    BY <1>2, <2>1
  <2> DEFINE to == moves[k + 1][2]
             v == g.acc[moves[k + 1][1]]
  <2>3. f[k + 1] = SatAndSetAccAndFlag(f[k], to, v)
    BY <1>2, <1>4, <2>1 DEF SwapTo
  <2>4. to \in AccName /\ \A j \in 1 .. k : moves[j][2] # to /\ moves[j][2] \in AccName
    BY <1>1, <1>2, <2>1 DEF GoodMoves
  <2> HIDE DEF to, v
  <2>5. /\ HasAcc(f[k + 1]) /\ "sata" \in DOMAIN f[k + 1] /\ f[k + 1].sata = g.sata
        /\ f[k + 1].acc = [f[k].acc EXCEPT ![to] = Saturated(g, v)]
    <3> DEFINE h == f[k]
               next == f[k + 1]
    <3>1. HasAcc(h) /\ "sata" \in DOMAIN h /\ h.sata = g.sata
      BY <2>2
    <3>2. next = SatAndSetAccAndFlag(h, to, v)
      BY <2>3
    <3> HIDE DEF h, next
    <3>3. /\ HasAcc(next) /\ "sata" \in DOMAIN next /\ next.sata = h.sata
          /\ next.acc = [h.acc EXCEPT ![to] = IF h.sata = 0 THEN Clip(v) ELSE v]
      <4> DEFINE one == SatAndSetAccAndFlag(h, to, v)
      <4>1. to \in AccName
        BY <2>4
      <4>2. /\ HasAcc(one) /\ "sata" \in DOMAIN one /\ one.sata = h.sata
            /\ one.acc = [h.acc EXCEPT ![to] = IF h.sata = 0 THEN Clip(v) ELSE v]
        BY <3>1, <4>1, SatSetIs
      <4> HIDE DEF one
      <4>3. QED
        BY <3>2, <4>2 DEF one
    <3>4. next.acc = [h.acc EXCEPT ![to] = Saturated(g, v)]
      BY <3>1, <3>3 DEF Saturated
    <3>5. QED
      BY <3>1, <3>3, <3>4 DEF h, next
  <2>6. DOMAIN f[k].acc = AccName
    BY <2>2 DEF HasAcc
  <2>7. ASSUME NEW j \in 1 .. k + 1
        PROVE  f[k + 1].acc[moves[j][2]] = Saturated(g, g.acc[moves[j][1]])
    <3>1. CASE j = k + 1
      BY <2>4, <2>5, <2>6, <3>1 DEF to, v
    <3>2. CASE j \in 1 .. k
      BY <2>2, <2>4, <2>5, <2>6, <3>2
    <3>3. QED
      BY <2>1, <3>1, <3>2
  <2>8. ASSUME NEW a \in AccName, \A j \in 1 .. k + 1 : a # moves[j][2]
        PROVE  f[k + 1].acc[a] = g.acc[a]
    <3>1. a # to /\ \A j \in 1 .. k : a # moves[j][2]
      BY <2>1, <2>8 DEF to
    <3>2. QED
      BY <2>2, <2>5, <2>6, <3>1
  <2>9. QED
    BY <2>5, <2>7, <2>8
<1>7. Good = Nat
  <2> HIDE DEF Good
  <2>1. Good \in SUBSET Nat
    BY DEF Good
  <2>2. QED
    BY <1>5, <1>6, <2>1, Induction
<1>8. Right1(n)
  BY <1>2, <1>7
<1>9. QED
  BY <1>4, <1>8 DEF moves

\* Clipping what was clipped.
LEMMA ClipTwice == ASSUME NEW v PROVE Clip(Clip(v)) = Clip(v)
<1> DEFINE h == 2^(LongBits - 1)
<1>1. LongBits \in Nat /\ LongBits > 0 /\ LongBits - 1 \in Nat
  BY Widths
<1>2. h \in Nat /\ h > 0
  BY <1>1, PowerPositive
<1>3. -h \in SignedRange(LongBits) /\ h - 1 \in SignedRange(LongBits)
  <2>1. SignedRange(LongBits) = -h .. h - 1
    BY DEF SignedRange
  <2> HIDE DEF h
  <2>2. QED
    BY <1>2, <2>1
<1>4. Signed(-h, LongBits) = -h /\ Signed(h - 1, LongBits) = h - 1
  <2>1. -h \in Int /\ h - 1 \in Int
    BY <1>2
  <2>2. \A x \in Int : x \in SignedRange(LongBits) => Signed(x, LongBits) = x
    BY <1>1, SignedIs
  <2> HIDE DEF h
  <2>3. QED
    BY <1>3, <2>1, <2>2
<1>5. Clip(v) = IF v = Signed(v, LongBits) THEN v ELSE IF v < 0 THEN -h ELSE h - 1
  BY DEF Clip
<1> HIDE DEF h
<1>6. CASE v = Signed(v, LongBits)
  BY <1>5, <1>6
<1>7. CASE v # Signed(v, LongBits)
  <2>1. Clip(v) = -h \/ Clip(v) = h - 1
    BY <1>5, <1>7
  <2>2. Clip(v) = Signed(Clip(v), LongBits)
    BY <1>4, <2>1
  <2>3. QED
    BY <2>2 DEF Clip
<1>8. QED
  BY <1>6, <1>7

\* The programs of Swaps, and the registers after each of their instructions.
SwapInstruction == [op |-> "swap", type |-> routine.type]
SwapProgram == Times(2, SwapInstruction)
SwapStates ==
    LET s == swap(start, routine.type) IN <<start, s, swap(s, routine.type)>>

LEMMA SwapLeads == Leads(SwapProgram, SwapStates, 2)
<1> DEFINE s == swap(start, routine.type)
<1>1. SwapInstruction.op \in MoveOps /\ \A g : Effect(SwapInstruction, g) = swap(g, routine.type)
  BY DEF SwapInstruction, MoveOps, Effect
<1>2. SwapStates[1] = start /\ SwapStates[2] = s /\ SwapStates[3] = swap(s, routine.type)
  BY DEF SwapStates
<1>3. SwapProgram[1] = SwapInstruction /\ SwapProgram[2] = SwapInstruction
  BY DEF SwapProgram, Times
<1> HIDE DEF s
<1>4. SwapStates[1 + 1] = Effect(SwapProgram[1], SwapStates[1])
  BY <1>1, <1>2, <1>3 DEF s
<1>5. SwapStates[2 + 1] = Effect(SwapProgram[2], SwapStates[2])
  BY <1>1, <1>2, <1>3
<1>6. QED
  BY <1>1, <1>3, <1>4, <1>5 DEF Leads

SwapInv ==
    Is("swap") =>
        /\ HasAcc(start) /\ "sata" \in DOMAIN start /\ routine.type \in DOMAIN SwapType
        /\ Follows(SwapProgram, SwapStates, 2)

LEMMA SwapInit == ProgramsInit => SwapInv
<1> SUFFICES ASSUME ProgramsInit, Is("swap") PROVE SwapInv
  BY DEF SwapInv
<1>1. PICK type \in DOMAIN SwapType, v \in EdgeValues, w \in EdgeValues, sata \in {0, 1} :
        Begin([kind |-> "swap", type |-> type],
              [Fresh EXCEPT !.acc = [a0 |-> v, a1 |-> -1 - w, b0 |-> w, b1 |-> -1 - v], !.sata = sata],
              Times(2, [op |-> "swap", type |-> type]))
  BY Kinds DEF Swaps
<1>2. /\ routine.type = type /\ regs = start /\ todo = Times(2, [op |-> "swap", type |-> type])
      /\ start = [Fresh EXCEPT !.acc = [a0 |-> v, a1 |-> -1 - w, b0 |-> w, b1 |-> -1 - v], !.sata = sata]
  BY <1>1 DEF Begin, BeginWith
<1>3. HasAcc(start) /\ "sata" \in DOMAIN start
  <2>1. /\ {"acc", "fz", "fm", "fe", "fn", "fc0", "fv", "fvl", "flm"} \subseteq DOMAIN Fresh
        /\ "sata" \in DOMAIN Fresh
    BY DEF Fresh, RegisterState
  <2>2. /\ DOMAIN start = DOMAIN Fresh
        /\ start.acc = [a0 |-> v, a1 |-> -1 - w, b0 |-> w, b1 |-> -1 - v]
    BY <1>2, <2>1
  <2>3. DOMAIN start.acc = AccName
    BY <2>2 DEF AccName
  <2>4. QED
    BY <2>1, <2>2, <2>3 DEF HasAcc
<1>4. todo = SwapProgram /\ SwapProgram = [j \in 1 .. 2 |-> SwapProgram[j]] /\ SwapStates[1] = start
  BY <1>2 DEF SwapProgram, SwapInstruction, SwapStates, Times
<1>5. Follows(SwapProgram, SwapStates, 2)
  BY <1>2, <1>4, FollowsStart
<1>6. QED
  BY <1>2, <1>3, <1>5 DEF SwapInv

LEMMA SwapStep == SwapInv /\ [RoutineNext]_routineVars => SwapInv'
<1> SUFFICES ASSUME SwapInv, [RoutineNext]_routineVars, Is("swap")' PROVE SwapInv'
  BY DEF SwapInv
<1>1. UNCHANGED <<start, routine>>
  BY DEF routineVars, RoutineNext, Execute, Access, Push, Pop
<1>2. /\ HasAcc(start) /\ "sata" \in DOMAIN start /\ routine.type \in DOMAIN SwapType
      /\ Follows(SwapProgram, SwapStates, 2)
  BY <1>1 DEF SwapInv, Is
<1>3. SwapProgram' = SwapProgram /\ SwapStates' = SwapStates
  BY <1>1 DEF SwapProgram, SwapInstruction, SwapStates
<1>4. Follows(SwapProgram, SwapStates, 2)'
  <2>1. CASE UNCHANGED routineVars
    BY <1>2, <1>3, <2>1 DEF Follows, routineVars
  <2>2. CASE RoutineNext
    BY <1>2, <1>3, <2>2, SwapLeads, FollowsStep DEF Follows
  <2>3. QED
    BY <2>1, <2>2
<1>5. QED
  BY <1>1, <1>2, <1>4 DEF SwapInv

\* The part of ContextKept about swap.
SwapKept ==
    Is("swap") =>
        LET Kept(v) == IF start.sata = 0 THEN Clip(v) ELSE v
            moves == {SwapType[routine.type][k] : k \in DOMAIN SwapType[routine.type]}
            two_way == \A m \in moves : <<m[2], m[1]>> \in moves
        IN  /\ Len(todo) = 1 => \A m \in moves : regs.acc[m[2]] = Kept(start.acc[m[1]])
            /\ Done /\ two_way => \A m \in moves : regs.acc[m[1]] = Kept(start.acc[m[1]])
            /\ \A a \in AccName : (\A m \in moves : a # m[2]) => regs.acc[a] = start.acc[a]

LEMMA SwapEnds == SwapInv => SwapKept
<1> SUFFICES ASSUME SwapInv, Is("swap") PROVE SwapKept
  BY DEF SwapKept
<1> DEFINE Kept(v) == IF start.sata = 0 THEN Clip(v) ELSE v
           table == SwapType[routine.type]
           moves == {table[k] : k \in DOMAIN table}
           s == swap(start, routine.type)
           t == swap(s, routine.type)
<1>1. /\ HasAcc(start) /\ "sata" \in DOMAIN start /\ routine.type \in DOMAIN SwapType
      /\ Follows(SwapProgram, SwapStates, 2)
  BY DEF SwapInv
<1>2. GoodMoves(table)
  BY <1>1, SwapMoves
<1>3. /\ HasAcc(s) /\ "sata" \in DOMAIN s /\ s.sata = start.sata
      /\ \A j \in 1 .. Len(table) : s.acc[table[j][2]] = Saturated(start, start.acc[table[j][1]])
      /\ \A a \in AccName : (\A j \in 1 .. Len(table) : a # table[j][2]) => s.acc[a] = start.acc[a]
  BY <1>1, SwapIs
<1> HIDE DEF s
<1>4. /\ \A j \in 1 .. Len(table) : t.acc[table[j][2]] = Saturated(s, s.acc[table[j][1]])
      /\ \A a \in AccName : (\A j \in 1 .. Len(table) : a # table[j][2]) => t.acc[a] = s.acc[a]
  BY <1>1, <1>3, SwapIs
<1> HIDE DEF t
<1>5. /\ \A m \in moves : \E j \in 1 .. Len(table) : m = table[j]
      /\ \A j \in 1 .. Len(table) : table[j] \in moves
  BY <1>2 DEF GoodMoves
<1> HIDE DEF moves, table
<1>6. /\ \A m \in moves : s.acc[m[2]] = Kept(start.acc[m[1]])
      /\ \A a \in AccName : (\A m \in moves : a # m[2]) => s.acc[a] = start.acc[a]
  BY <1>3, <1>5 DEF Saturated
<1>7. /\ \A m \in moves : t.acc[m[2]] = Kept(s.acc[m[1]])
      /\ \A a \in AccName : (\A m \in moves : a # m[2]) => t.acc[a] = start.acc[a]
  BY <1>3, <1>4, <1>5, <1>6 DEF Saturated
<1>8. ASSUME \A m \in moves : <<m[2], m[1]>> \in moves, NEW m \in moves
      PROVE  t.acc[m[1]] = Kept(start.acc[m[1]])
  <2> DEFINE back == <<m[2], m[1]>>
             v == start.acc[m[1]]
  <2>1. back \in moves /\ back[1] = m[2] /\ back[2] = m[1]
    BY <1>8
  <2>2. t.acc[m[1]] = Kept(s.acc[m[2]])
    <3> HIDE DEF back
    <3>1. QED
      BY <1>7, <2>1
  <2>3. s.acc[m[2]] = Kept(v)
    BY <1>6, <1>8
  <2>4. Kept(Kept(v)) = Kept(v)
    BY ClipTwice
  <2>5. QED
    BY <2>2, <2>3, <2>4
<1>9. PICK k \in 0 .. 2 : todo = Remaining(SwapProgram, 2, k) /\ regs = SwapStates[k + 1]
  BY <1>1 DEF Follows
<1>10. Len(todo) = 2 - k /\ (k # 1 => Len(todo) # 1)
  <2>1. Len(todo) = 2 - k
    BY <1>9 DEF Remaining
  <2>2. k # 1 => 2 - k # 1
    OBVIOUS
  <2>3. QED
    BY <2>1, <2>2
<1>11. SwapStates[1] = start /\ SwapStates[2] = s /\ SwapStates[3] = t
  BY DEF SwapStates, s, t
<1>12. Done => k = 2
  BY <1>10 DEF Done
<1>13. Len(todo) = 1 => regs = s
  <2>1. Len(todo) = 1 => k = 1
    BY <1>10
  <2>2. k = 1 => regs = SwapStates[2]
    BY <1>9
  <2>3. QED
    BY <1>11, <2>1, <2>2
<1>14. ASSUME Done PROVE regs = t
  BY <1>9, <1>11, <1>12, <1>14
<1>15. regs \in {start, s, t}
  BY <1>9, <1>11
<1>16. \A a \in AccName : (\A m \in moves : a # m[2]) => regs.acc[a] = start.acc[a]
  BY <1>6, <1>7, <1>15
<1>17. /\ Len(todo) = 1 => \A m \in moves : regs.acc[m[2]] = Kept(start.acc[m[1]])
       /\ Done /\ (\A m \in moves : <<m[2], m[1]>> \in moves)
            => \A m \in moves : regs.acc[m[1]] = Kept(start.acc[m[1]])
  BY <1>6, <1>8, <1>13, <1>14
<1>18. QED
  BY <1>16, <1>17 DEF SwapKept, moves, table

-----------------------------------------------------------------------------
\* Registers kept in shadows, in banks and in other accumulators come back: after a context
\* switch, also one within another, an exchange of banks and a swap of accumulators.
THEOREM RegistersComeBack == ProgramsSpec => []ContextKept
<1> DEFINE Inv == SwitchInv /\ ExchangeInv /\ BankrInv /\ SwapInv
<1>1. ProgramsInit => Inv
  BY SwitchInit, ExchangeInit, BankrInit, SwapInit
<1>2. Inv /\ [RoutineNext]_routineVars => Inv'
  BY SwitchStep, ExchangeStep, BankrStep, SwapStep
<1>3. Inv => ContextKept
  <2>1. Inv => SwitchKept /\ ExchangeKept /\ BankrKept /\ SwapKept
    BY SwitchEnds, ExchangeEnds, BankrEnds, SwapEnds
  <2>2. SwitchKept /\ ExchangeKept /\ BankrKept /\ SwapKept => ContextKept
    BY DEF ContextKept, SwitchKept, ExchangeKept, BankrKept, SwapKept
  <2>3. QED
    BY <2>1, <2>2
<1> HIDE DEF Inv
<1>4. QED
  BY <1>1, <1>2, <1>3, PTL DEF ProgramsSpec
=============================================================================
