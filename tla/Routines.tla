------------------------------ MODULE Routines ------------------------------
(***************************************************************************)
(* The processor executing a short program, one instruction at a time,     *)
(* without branches (RunLoop has those): what the handlers of the          *)
(* instructions (interpreter.h) do to the registers and the stack.  An     *)
(* instruction is a record of its operands.                                *)
(***************************************************************************)
EXTENDS MemoryOperands

VARIABLES
    regs,           \* the registers
    data,           \* the data memory
    stack,          \* the words on the stack, the last one on top
    todo,           \* the instructions left
    start,          \* history: the registers at the beginning
    routine         \* the routine and its parameters

routineVars == <<regs, data, stack, todo, start, routine>>

Done == todo = <<>>
Is(kind) == routine.kind = kind

RoutineTypeOK ==
    /\ \A n \in AccName : regs.acc[n] \in SignedRange(AccBits)
    /\ \A f \in FlagName : regs[f] \in {0, 1}
    /\ \A k \in 0 .. 1 :
        /\ regs.x[k] \in Word /\ regs.y[k] \in Word
        /\ regs.p[k] \in 0 .. 2^LongBits - 1 /\ regs.pe[k] \in {0, 1}
    /\ \A u \in Unit : regs.r[u] \in Word
    /\ {regs.sv, regs.mixp, regs.vtr0, regs.vtr1, regs.repc, regs.p0h_cbs} \subseteq Word
    /\ ~Is("status") =>                 \* its words are kept as slots
        /\ \A k \in DOMAIN stack : stack[k] \in Word
        /\ \A a \in DOMAIN data : data[a] \in Word

-----------------------------------------------------------------------------
(***************************************************************************)
(* Instructions.                                                           *)
(***************************************************************************)
Load(g, i) == [g EXCEPT !.x[0] = i.x, !.y[0] = i.y]

\* Mul: the multiplication instructions; msu subtracts the product before.
Mul(i) ==
    regs' = IF i.mul = "msu"
            THEN DoMultiplication(Load(SumTo(regs, i.acc, regs.acc[i.acc], ProductToBus40(regs, 0), TRUE), i),
                                  0, TRUE, TRUE)
            ELSE MulGeneric(Load(regs, i), i.mul, i.acc)

\* add and sub of a product to an accumulator.
AddProduct(i) == regs' = SumTo(regs, i.acc, regs.acc[i.acc], ProductToBus40(regs, 0), i.sub)

App(i) == regs' = ProductSum(regs, i.base, i.acc, i.subs, i.aligns)
Alm(i) == regs' = AlmGeneric(regs, i.alm, ExtendOperandForAlm(i.alm, i.operand), i.acc)
Alb(i) == regs' = LET result == GenericAlb(regs, i.alb, i.a, i.b) IN result.regs
OneAcc(i) == regs' = Moda(regs, i.moda, i.acc)
Shfc(i) == regs' = ShiftBus40(regs, regs.acc[i.from], Signed(regs.sv, WordBits), i.to)
Shfi(i) == regs' = ShiftBus40(regs, regs.acc[i.acc], i.sv, i.acc)
ExpOf(i) == regs' = exp(regs, regs.acc[i.acc])
Norm(i) == regs' = norm(regs, i.acc, 0, "increase")
Divs(i) == regs' = divs(regs, i.da, i.acc)
Lim(i) == regs' = lim(regs, i.acc, i.to)

\* max and min with the word at r0.
Select(i) == regs' = MinMax(regs, i.select, i.acc, Signed(i.word, WordBits), "increase")

Modr(i) == regs' = modr(regs, i.unit, i.step, FALSE)
Bitrev(i) == regs' = bitrev(regs, i.unit, 1)

\* mov ##imm16 to a register.
MovImm(i) == regs' = RegFromBus16(regs, i.reg, i.value)

SwitchContext(i) == regs' = IF i.store THEN ContextStore(regs) ELSE ContextRestore(regs)
Banke(i) == regs' = banke(regs, i.units, i.cfgi, i.cfgj)
Bankr(i) == regs' = IF i.arp THEN SwapArp(regs, i.index) ELSE SwapAr(regs, i.index)

Swap(i) == regs' = swap(regs, i.type)
MovAcc(i) == regs' = SatAndSetAccAndFlag(regs, i.to, regs.acc[i.from])

\* movs and movsi: a word shifted by sv or by an immediate number.
Movs(i) == regs' = ShiftBus40(regs, Short(i.word), IF i.imm THEN i.sv ELSE Short(regs.sv), i.acc)
MovrWord(i) == regs' = RoundWord(regs, i.word, i.acc)
MovrAcc(i) == regs' = SumTo(regs, i.acc, regs.acc[i.from], Rounding, FALSE)
CompareAcc(i) == regs' = cmp(regs, i.a, i.b)
SquareLong(i) == regs' = sqr_mpysu_add3a(regs, i.a, i.b)

Pacr1(i) == regs' = pacr1(regs, i.acc)
MovP1(i) == regs' = mov_p1_to(regs, i.acc)
MacX1to0(i) == regs' = mac_x1to0(regs, i.acc)
Clr2(i) == regs' = clr2(regs, i.a, i.b, IF i.rounds THEN Rounding ELSE 0)
Mov(i) == regs' = Moved(regs, i.from, i.to)
LoadField(i) == regs' = load_field(regs, i.field, i.value)
Logic(i) == regs' = logic(regs, i.logic, i.a, i.b, i.to)
Tstb(i) == regs' = tstb(regs, RegToBus16(regs, i.reg, FALSE), i.bit)
VtrMov(i) == regs' = vtrmov(regs, i.acc)

\* Instructions with operands in memory: i.ar chooses a pointer through ar registers,
\* i.arp two pointers through arp registers, and i.ji swaps the two.
Machine == [regs |-> regs, data |-> data]
ArOf(i) == ArPointer(regs, i.ar[1], i.ar[2])
ArpOf(i) ==
    LET ps == ArpPointers(regs, i.arp[1], i.arp[2], i.arp[3]) IN
    IF "ji" \in DOMAIN i /\ i.ji THEN <<ps[2], ps[1]>> ELSE ps

Becomes(m) == regs' = m.regs /\ data' = m.data

Store(i) == Becomes(StoreWordOf(Machine, i.reg, i.place))
LoadTo(i) == Becomes(LoadWordTo(Machine, i.place, i.reg))
Movp(i) == Becomes(movp(Machine, i.from, i.to))
Movd(i) == Becomes(movd(Machine, i.from, i.to))
MovpTo(i) == Becomes(movp_to(Machine, i.acc, i.low, i.reg))
Mova(i) == Becomes(mova(Machine, i.from, ArOf(i)))
MovaLoad(i) == Becomes(mova_load(Machine, ArOf(i), i.to))
Mov2High(i) == Becomes(mov2_high(Machine, i.u, i.v, ArOf(i)))
Mov2(i) == Becomes(mov2_ax(Machine, i.acc, ArpOf(i)[1], ArpOf(i)[2]))
Mov2Load(i) == Becomes(mov2_load(Machine, ArpOf(i)[1], ArpOf(i)[2], i.acc))
ExchangeAcc(i) == Becomes(exchange(Machine, i.acc, ArpOf(i)[1], ArpOf(i)[2], i.rounded))
AddAdd(i) == Becomes(add_add(Machine, ArpOf(i), i.acc, i.subs))
AddSubSv(i) == Becomes(add_sub_sv(Machine, ArOf(i), i.acc, i.sub))
AddSubMov(i) == Becomes(add_sub_mov(Machine, ArpOf(i)[1], ArpOf(i)[2], i.acc))
SubAddMovSv(i) == Becomes(sub_add_mov_sv(Machine, ArpOf(i)[1], ArpOf(i)[2], i.acc))
Factor2(i) ==
    [what |-> i.load, dmod |-> i.dmod,
     ps |-> CASE i.load = "xy" -> ArpOf(i) [] i.load = "none" -> <<>> [] OTHER -> <<ArOf(i)>>]
Mma(i) == Becomes(mma(Machine, Factor2(i), i.acc, i.signs, i.base, i.subs, i.aligns))
MmaMov(i) == Becomes(mma_mov(Machine, i.u, i.v, ArOf(i), i.acc, i.signs, i.base, i.subs, i.aligns))
SqrSqr(i) == Becomes(sqr_sqr_add3(Machine, ArOf(i), i.acc))
Movr(i) == Becomes(movr(Machine, ArOf(i), i.acc))
Mac1(i) == Becomes(mac1(Machine, ArpOf(i), i.acc))
Modr2(i) == Becomes(modr2(Machine, ArpOf(i), i.dmod))
Tst4b(i) == Becomes(tst4b(Machine, ArOf(i), i.acc))
Addhp(i) == Becomes(addhp(Machine, ArOf(i), i.unit, i.acc))
MovSvApp(i) == Becomes(mov_sv_app(Machine, ArOf(i), i.acc, i.base, i.subs, i.aligns))
Loaded(i) == [Machine EXCEPT !.regs = SetAcc(@, "b0", i.value)]
SelectVtr(i) == Becomes(vtr_mov(Loaded(i), "a0", "b0", i.min, ArOf(i), i.high))
SelectVtrBoth(i) ==
    Becomes(vtr_movij(Loaded(i), "a0", "b0", i.min,
                      ArpPointers(regs, i.arp[1], i.arp[2], i.arp[3]), i.ji))
Cbs(i) == Becomes(cbs(Machine, ArpOf(i), i.cond))

\* What a handler or a subroutine leaves behind in the registers it uses.
Other(n) == IF n = "ps" THEN Pair(1) ELSE IF n \in {"m", "br"} THEN PerUnit(1) ELSE 1
Scribbled(g, what) ==
    [n \in DOMAIN g |->
        CASE n \in FlagName /\ "flags" \in what -> 1 - g[n]
          [] n \in SwapName \ {"im", "ar", "arp"} /\ "bank" \in what -> Other(n)
          [] n = "acc" /\ "acc" \in what -> [a \in AccName |-> -5]
          [] n = "repc" /\ "repc" \in what -> 3
          [] n \in {"x", "y", "p", "pe"} /\ "factors" \in what -> Pair(1)
          [] n = "r" /\ "r" \in what -> PerUnit(3)
          [] n = "sv" /\ "factors" \in what -> 3
          [] OTHER -> g[n]]
Scribble(i) == regs' = Scribbled(regs, i.what)

Execute(op, Effect(_)) ==
    /\ ~Done
    /\ todo[1].op = op
    /\ Effect(todo[1])
    /\ todo' = Tail(todo)
    /\ UNCHANGED <<data, stack, start, routine>>

Access(op, Effect(_)) ==
    /\ ~Done
    /\ todo[1].op = op
    /\ Effect(todo[1])
    /\ todo' = Tail(todo)
    /\ UNCHANGED <<stack, start, routine>>

Push ==
    /\ ~Done
    /\ todo[1].op = "push"
    /\ stack' = stack \o Pushed(regs, todo[1].reg)
    /\ regs' = AfterPush(regs, todo[1].reg)
    /\ todo' = Tail(todo)
    /\ UNCHANGED <<data, start, routine>>

Pop ==
    /\ ~Done
    /\ todo[1].op = "pop"
    /\ LET n == Len(stack) - WidthOf(todo[1].reg) IN
        /\ regs' = Popped(regs, todo[1].reg, SubSeq(stack, n + 1, Len(stack)))
        /\ stack' = SubSeq(stack, 1, n)
    /\ todo' = Tail(todo)
    /\ UNCHANGED <<data, start, routine>>

RoutineNext ==
    \/ Execute("mul", Mul) \/ Execute("addp", AddProduct) \/ Execute("app", App)
    \/ Execute("alm", Alm) \/ Execute("alb", Alb) \/ Execute("moda", OneAcc)
    \/ Execute("shfc", Shfc) \/ Execute("shfi", Shfi)
    \/ Execute("exp", ExpOf) \/ Execute("norm", Norm) \/ Execute("divs", Divs)
    \/ Execute("lim", Lim) \/ Execute("select", Select)
    \/ Execute("modr", Modr) \/ Execute("bitrev", Bitrev)
    \/ Execute("cntx", SwitchContext) \/ Execute("banke", Banke) \/ Execute("bankr", Bankr)
    \/ Execute("mov", MovImm) \/ Execute("movacc", MovAcc) \/ Execute("swap", Swap)
    \/ Execute("movs", Movs) \/ Execute("movr_word", MovrWord) \/ Execute("movr_acc", MovrAcc)
    \/ Execute("cmp", CompareAcc) \/ Execute("sqr_mpysu", SquareLong)
    \/ Execute("pacr1", Pacr1) \/ Execute("mov_p1", MovP1) \/ Execute("mac_x1to0", MacX1to0)
    \/ Execute("clr2", Clr2) \/ Execute("vtrmov", VtrMov)
    \/ Execute("movreg", Mov) \/ Execute("load_field", LoadField)
    \/ Execute("logic", Logic) \/ Execute("tstb", Tstb)
    \/ Access("movp", Movp) \/ Access("movd", Movd) \/ Access("movp_to", MovpTo)
    \/ Access("mac1", Mac1) \/ Access("modr2", Modr2)
    \/ Access("movr", Movr) \/ Access("tst4b", Tst4b)
    \/ Execute("scribble", Scribble) \/ Push \/ Pop
    \/ Access("store", Store) \/ Access("load", LoadTo)
    \/ Access("mova", Mova) \/ Access("mova_load", MovaLoad)
    \/ Access("mov2_high", Mov2High) \/ Access("mov2", Mov2) \/ Access("mov2_load", Mov2Load) \/ Access("exchange", ExchangeAcc)
    \/ Access("add_add", AddAdd) \/ Access("add_sub_sv", AddSubSv)
    \/ Access("add_sub_mov", AddSubMov) \/ Access("sub_add_mov_sv", SubAddMovSv)
    \/ Access("mma", Mma) \/ Access("mma_mov", MmaMov) \/ Access("sqr_sqr", SqrSqr)
    \/ Access("addhp", Addhp) \/ Access("mov_sv_app", MovSvApp)
    \/ Access("vtr", SelectVtr) \/ Access("vtr_both", SelectVtrBoth) \/ Access("cbs", Cbs)
=============================================================================
