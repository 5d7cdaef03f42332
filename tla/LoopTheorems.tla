---------------------------- MODULE LoopTheorems ----------------------------
(***************************************************************************)
(* The run loop keeps its registers in range and skips time only before a  *)
(* branch to itself, for every program that finds on the stack what it     *)
(* left there.                                                             *)
(***************************************************************************)
EXTENDS RunLoop, TLAPS

\* The registers are in range, and the blocks on the stack are the program's.
RegistersOK(r) ==
    /\ r \in [pc : Nat, rep : BOOLEAN, repc : Nat, lp : BOOLEAN,
              bcn : 0 .. Depth, bkrep_stack : [0 .. Depth - 1 -> Frame]]
    /\ r.lp <=> r.bcn # 0
    /\ \A j \in 0 .. Depth - 1 : j < r.bcn => IsBlock(r.bkrep_stack[j])

\* What holds between any two steps: an instruction repeats only behind its
\* rep, and the loop is idle only at a branch to itself.
LoopInv ==
    /\ program \in Programs
    /\ RegistersOK(regs)
    /\ regs.pc \in DOMAIN program.code
    /\ regs.rep => regs.pc - 1 \in DOMAIN program.code /\ program.code[regs.pc - 1].op = "rep"
    /\ idle => program.code[regs.pc].op = "brr"
    /\ ie \in BOOLEAN /\ ip \in BOOLEAN /\ idle \in BOOLEAN
    /\ at \in {"execute", "dispatch"} /\ aborted \in BOOLEAN
    /\ raised \in 0 .. MaxInterrupts

\* What the program promises, at each of its addresses.
LEMMA CodeOK ==
    ASSUME program \in Programs, NEW a \in DOMAIN program.code
    PROVE  /\ a \in Nat
           /\ HandlerAddress \in DOMAIN program.code
           /\ program.code[a].op \notin {"brr", "rets", "reti"} => a + 1 \in DOMAIN program.code
           /\ program.code[a].op \in {"br", "call"} => program.code[a].target \in DOMAIN program.code
           /\ program.code[a].op \in {"rep", "bkrep"} => program.code[a].count \in Nat
           /\ program.code[a].op = "rep" => program.code[a + 1].op = "work"
           /\ program.code[a].op = "bkrep" =>
                /\ program.code[a].end \in DOMAIN program.code
                /\ program.code[program.code[a].end].op \notin {"rep", "brr"}
  BY ProgramsAssumption

\* No block ends at a rep or at the branch to itself.
LEMMA BlockEnds ==
    ASSUME program \in Programs, NEW f, IsBlock(f)
    PROVE  /\ f \in Frame /\ f.start \in DOMAIN program.code
           /\ f.end \in DOMAIN program.code
           /\ program.code[f.end].op \notin {"rep", "brr"}
  BY CodeOK DEF IsBlock

\* Leaving the innermost block keeps the registers in range.
LEMMA LeaveOK ==
    ASSUME NEW r, RegistersOK(r), r.lp
    PROVE  /\ RegistersOK(LeaveBlock(r))
           /\ LeaveBlock(r).pc = r.pc /\ LeaveBlock(r).rep = r.rep
<1> DEFINE nested == r.bcn # 1
           q == [r EXCEPT !.bcn = r.bcn - 1, !.lp = nested]
<1>1. LeaveBlock(r) = q
  BY DEF RegistersOK, LeaveBlock
<1>2. r.bcn \in 1 .. Depth /\ Depth = 4
  BY DEF RegistersOK, Depth
<1>3. nested \in BOOLEAN /\ (nested <=> r.bcn # 1)
  OBVIOUS
<1> HIDE DEF nested
<1>4. r.bcn - 1 \in 0 .. Depth /\ (nested <=> r.bcn - 1 # 0)
  BY <1>2, <1>3
<1>5. /\ q.bcn = r.bcn - 1 /\ q.lp = nested /\ q.bkrep_stack = r.bkrep_stack
      /\ q.pc = r.pc /\ q.rep = r.rep
  BY DEF RegistersOK
<1>6. q \in [pc : Nat, rep : BOOLEAN, repc : Nat, lp : BOOLEAN,
             bcn : 0 .. Depth, bkrep_stack : [0 .. Depth - 1 -> Frame]]
  BY <1>3, <1>4 DEF RegistersOK
<1>7. \A j \in 0 .. Depth - 1 : j < q.bcn => IsBlock(q.bkrep_stack[j])
  <2> SUFFICES ASSUME NEW j \in 0 .. Depth - 1, j < r.bcn - 1
               PROVE  IsBlock(r.bkrep_stack[j])
    BY <1>5
  <2>1. j < r.bcn
    BY <1>2
  <2>2. QED
    BY <2>1 DEF RegistersOK
<1>8. RegistersOK(q)
  BY <1>4, <1>5, <1>6, <1>7 DEF RegistersOK
<1>9. QED
  BY <1>1, <1>5, <1>8

\* The innermost block, when there is one.
LEMMA InnermostOK ==
    ASSUME NEW r, RegistersOK(r), r.lp
    PROVE  r.bcn - 1 \in 0 .. Depth - 1 /\ IsBlock(Innermost(r))
  BY DEF RegistersOK, Innermost, Depth

\* A look at the block's end keeps the registers in range, and moves the pc
\* only at an end, to the block's start.
LEMMA LoopedOK ==
    ASSUME program \in Programs, NEW r, RegistersOK(r)
    PROVE  /\ RegistersOK(Looped(r))
           /\ Looped(r).rep = r.rep
           /\ \/ Looped(r).pc = r.pc
              \/ AtBlockEnd(r) /\ Looped(r).pc \in DOMAIN program.code
<1>1. CASE ~AtBlockEnd(r)
  BY <1>1 DEF Looped
<1>2. CASE AtBlockEnd(r) /\ Innermost(r).lc = 0
  BY <1>2, LeaveOK DEF Looped, AtBlockEnd
<1>3. CASE AtBlockEnd(r) /\ Innermost(r).lc # 0
  <2> DEFINE top == r.bcn - 1
             f == Innermost(r)
             g == [f EXCEPT !.lc = @ - 1]
             q == [r EXCEPT !.bkrep_stack = [r.bkrep_stack EXCEPT ![top] = g], !.pc = f.start]
  <2>1. r.lp /\ top \in 0 .. Depth - 1 /\ IsBlock(f)
    BY <1>3, InnermostOK DEF AtBlockEnd
  <2>2. f \in Frame /\ f.start \in DOMAIN program.code /\ f.start \in Nat
    BY <2>1, BlockEnds, CodeOK
  <2>3. IsBlock(g)
    BY <1>3, <2>1, <2>2 DEF IsBlock, Frame
  <2>4. Looped(r) = q
    BY <1>3, <2>1 DEF Looped, Innermost, RegistersOK
  <2>5. RegistersOK(q) /\ q.rep = r.rep /\ q.pc = f.start
    <3>1. g \in Frame
      BY <2>3 DEF IsBlock
    <3>2. QED
      BY <2>1, <2>2, <2>3, <3>1 DEF RegistersOK
  <2>6. QED
    BY <1>3, <2>2, <2>4, <2>5
<1>4. QED
  BY <1>1, <1>2, <1>3

-----------------------------------------------------------------------------
\* The registers when an instruction starts: in range; only work repeats; and
\* the pc is behind a rep or a branch to itself, and on the program's code
\* behind any instruction but a branch to itself or a return.
LEMMA ReadyOK ==
    ASSUME LoopInv
    PROVE  /\ RegistersOK(Ready)
           /\ Operand.op # "work" => ~Ready.rep
           /\ Operand.op \in {"rep", "brr"} => Ready.pc = regs.pc + 1
           /\ Operand.op \notin {"brr", "rets", "reti"} => Ready.pc \in DOMAIN program.code
           /\ Ready.rep => regs.rep /\ Ready.pc = regs.pc
<1> DEFINE f == Fetched(regs)
           r == Repeated(f)
<1>1. regs.pc \in Nat /\ regs.pc \in DOMAIN program.code /\ program \in Programs
  BY CodeOK DEF LoopInv
<1>2. RegistersOK(f) /\ f.pc = regs.pc + 1 /\ f.rep = regs.rep /\ f.repc = regs.repc
  BY <1>1 DEF LoopInv, RegistersOK, Fetched
<1>3. RegistersOK(r)
  <2>1. CASE ~f.rep
    BY <1>2, <2>1 DEF Repeated
  <2>2. CASE f.rep /\ f.repc = 0
    <3>1. r = [f EXCEPT !.rep = FALSE]
      BY <2>2 DEF Repeated
    <3>2. QED
      BY <1>2, <3>1 DEF RegistersOK
  <2>3. CASE f.rep /\ f.repc # 0
    <3>1. r = [f EXCEPT !.repc = @ - 1, !.pc = @ - 1]
      BY <2>3 DEF Repeated
    <3>2. f.pc - 1 \in Nat /\ f.repc - 1 \in Nat
      BY <1>1, <1>2, <2>3 DEF RegistersOK
    <3>3. QED
      BY <1>2, <3>1, <3>2 DEF RegistersOK
  <2>4. QED
    BY <2>1, <2>2, <2>3
<1>4. r.rep => regs.rep /\ r.pc = regs.pc
  BY <1>1, <1>2 DEF RegistersOK, Repeated
<1>5. ~r.rep => r.pc = regs.pc + 1
  BY <1>1, <1>2 DEF RegistersOK, Repeated
<1>6. Ready = Looped(r)
  BY DEF Ready
<1>7. /\ RegistersOK(Ready) /\ Ready.rep = r.rep
      /\ \/ Ready.pc = r.pc
         \/ AtBlockEnd(r) /\ Ready.pc \in DOMAIN program.code
  BY <1>1, <1>3, <1>6, LoopedOK
<1>8. AtBlockEnd(r) => r.pc - 1 \in DOMAIN program.code /\ program.code[r.pc - 1].op \notin {"rep", "brr"}
  <2> SUFFICES ASSUME AtBlockEnd(r)
               PROVE  r.pc - 1 \in DOMAIN program.code /\ program.code[r.pc - 1].op \notin {"rep", "brr"}
    OBVIOUS
  <2>1. IsBlock(Innermost(r)) /\ Innermost(r).end + 1 = r.pc
    BY <1>3, InnermostOK DEF AtBlockEnd
  <2>2. Innermost(r).end \in DOMAIN program.code /\ program.code[Innermost(r).end].op \notin {"rep", "brr"}
    BY <1>1, <2>1, BlockEnds
  <2>3. Innermost(r).end \in Nat
    BY <1>1, <2>2, CodeOK
  <2>4. r.pc - 1 = Innermost(r).end
    BY <2>1, <2>3
  <2>5. QED
    BY <2>2, <2>4
<1>9. regs.rep => Operand.op = "work" /\ regs.pc - 1 \in DOMAIN program.code /\ program.code[regs.pc - 1].op = "rep"
  <2> SUFFICES ASSUME regs.rep
               PROVE  Operand.op = "work" /\ regs.pc - 1 \in DOMAIN program.code /\ program.code[regs.pc - 1].op = "rep"
    OBVIOUS
  <2>1. regs.pc - 1 \in DOMAIN program.code /\ program.code[regs.pc - 1].op = "rep"
    BY DEF LoopInv
  <2>2. program.code[(regs.pc - 1) + 1].op = "work"
    BY <1>1, <2>1, CodeOK
  <2>3. (regs.pc - 1) + 1 = regs.pc
    BY <1>1
  <2>4. QED
    BY <2>1, <2>2, <2>3 DEF Operand
<1>10. Operand.op # "work" => ~Ready.rep
  BY <1>4, <1>7, <1>9
<1>11. Operand.op \in {"rep", "brr"} => Ready.pc = regs.pc + 1
  <2> SUFFICES ASSUME Operand.op \in {"rep", "brr"} PROVE Ready.pc = regs.pc + 1
    OBVIOUS
  <2>1. r.pc = regs.pc + 1
    BY <1>5, <1>7, <1>10
  <2>2. ~AtBlockEnd(r)
    BY <1>1, <1>8, <2>1 DEF Operand
  <2>3. QED
    BY <1>7, <2>1, <2>2
<1>12. Operand.op \notin {"brr", "rets", "reti"} => Ready.pc \in DOMAIN program.code
  <2> SUFFICES ASSUME Operand.op \notin {"brr", "rets", "reti"} PROVE r.pc \in DOMAIN program.code
    BY <1>7
  <2>1. regs.pc + 1 \in DOMAIN program.code
    BY <1>1, CodeOK DEF Operand
  <2>2. QED
    BY <1>1, <1>4, <1>5, <2>1
<1>13. Ready.rep => regs.rep /\ Ready.pc = regs.pc
  <2> SUFFICES ASSUME Ready.rep PROVE regs.rep /\ Ready.pc = regs.pc
    OBVIOUS
  <2>1. r.rep /\ regs.rep /\ r.pc = regs.pc
    BY <1>4, <1>7
  <2>2. ~AtBlockEnd(r)
    BY <1>8, <1>9, <2>1
  <2>3. QED
    BY <1>7, <2>1, <2>2
<1>14. QED
  BY <1>7, <1>10, <1>11, <1>12, <1>13

-----------------------------------------------------------------------------
\* What is left to show of a step that keeps the program.
LEMMA Unprimed ==
    ASSUME program' = program
    PROVE  RegistersOK(regs)' <=> RegistersOK(regs')
  BY DEF RegistersOK, IsBlock

\* An instruction keeps the invariant if it leaves the registers in range and
\* the pc on the code, lets only work repeat, and idles only at a branch to
\* itself.
LEMMA AfterInstruction ==
    ASSUME LoopInv, UNCHANGED <<inputs, ip>>, at' = "dispatch",
           RegistersOK(regs'), regs'.pc \in DOMAIN program.code,
           regs'.rep => \/ Ready.rep /\ regs'.pc = Ready.pc
                        \/ Operand.op = "rep" /\ regs'.pc = regs.pc + 1,
           idle' => Operand.op = "brr" /\ regs'.pc = regs.pc,
           ie' \in BOOLEAN, idle' \in BOOLEAN, aborted' \in BOOLEAN
    PROVE  LoopInv'
<1>1. program' = program /\ raised' = raised /\ ip' = ip
  BY DEF inputs
<1>2. RegistersOK(regs)'
  BY <1>1, Unprimed
<1>3. regs.pc \in DOMAIN program.code /\ regs.pc \in Nat
  BY CodeOK DEF LoopInv
<1>4. regs'.rep => regs'.pc - 1 \in DOMAIN program.code /\ program.code[regs'.pc - 1].op = "rep"
  <2>1. CASE Ready.rep /\ regs'.pc = Ready.pc
    BY <2>1, ReadyOK DEF LoopInv
  <2>2. CASE Operand.op = "rep" /\ regs'.pc = regs.pc + 1
    <3>1. regs'.pc - 1 = regs.pc
      BY <1>3, <2>2
    <3>2. QED
      BY <1>3, <2>2, <3>1 DEF Operand
  <2>3. QED
    BY <2>1, <2>2
<1>5. idle' => program.code[regs'.pc].op = "brr"
  BY DEF Operand
<1>6. QED
  BY <1>1, <1>2, <1>4, <1>5 DEF LoopInv

\* Work, and whatever else leaves the registers as they were fetched.
LEMMA QuietInstruction ==
    ASSUME LoopInv, UNCHANGED <<inputs, ip>>, at' = "dispatch",
           Operand.op # "brr", idle' = idle, ie' \in BOOLEAN, aborted' \in BOOLEAN,
           RegistersOK(regs'), regs'.pc \in DOMAIN program.code,
           regs'.rep => \/ Ready.rep /\ regs'.pc = Ready.pc
                        \/ Operand.op = "rep" /\ regs'.pc = regs.pc + 1
    PROVE  LoopInv'
<1>1. ~idle /\ idle' = FALSE
  BY DEF LoopInv, Operand
<1>2. QED
  BY <1>1, AfterInstruction

\* Starting a block: its start is the next instruction and its end the
\* operand of the bkrep.
LEMMA EnterOK ==
    ASSUME LoopInv, Operand.op = "bkrep", Ready.bcn <= 3,
           NEW r, r = [Ready EXCEPT !.bkrep_stack[Ready.bcn] =
                                        [start |-> Ready.pc, end |-> Operand.end,
                                         lc |-> Operand.count],
                                    !.lp = TRUE, !.bcn = @ + 1]
    PROVE  RegistersOK(r) /\ r.pc = Ready.pc /\ r.rep = Ready.rep
<1> DEFINE f == [start |-> Ready.pc, end |-> Operand.end, lc |-> Operand.count]
           n == Ready.bcn
<1>1. RegistersOK(Ready) /\ Ready.pc \in DOMAIN program.code
  BY ReadyOK
<1>2. regs.pc \in DOMAIN program.code /\ program \in Programs /\ Operand = program.code[regs.pc]
  BY DEF LoopInv, Operand
<1>3. Operand.end \in DOMAIN program.code /\ Operand.count \in Nat
  BY <1>2, CodeOK
<1>4. Operand.end \in Nat /\ Ready.pc \in Nat
  BY <1>1, <1>2, <1>3, CodeOK
<1>5. f \in Frame /\ f.start = Ready.pc /\ f.end = Operand.end
  BY <1>3, <1>4 DEF Frame
<1>6. IsBlock(f)
  BY <1>1, <1>2, <1>5 DEF IsBlock
<1>7. n \in 0 .. Depth - 1 /\ n + 1 \in 0 .. Depth /\ n + 1 # 0
  BY <1>1 DEF RegistersOK, Depth
<1> DEFINE blocks == [Ready.bkrep_stack EXCEPT ![n] = f]
<1>8. r = [Ready EXCEPT !.bkrep_stack = blocks, !.lp = TRUE, !.bcn = n + 1]
  BY <1>1 DEF RegistersOK
<1>9. blocks \in [0 .. Depth - 1 -> Frame]
  BY <1>1, <1>5, <1>7 DEF RegistersOK
<1>10. \A j \in 0 .. Depth - 1 : j < n + 1 => IsBlock(blocks[j])
  <2> SUFFICES ASSUME NEW j \in 0 .. Depth - 1, j < n + 1 PROVE IsBlock(blocks[j])
    OBVIOUS
  <2>1. CASE j = n
    <3>1. blocks[j] = f
      BY <1>1, <1>7, <2>1 DEF RegistersOK
    <3>2. QED
      BY <1>6, <3>1
  <2>2. CASE j # n
    <3>1. blocks[j] = Ready.bkrep_stack[j] /\ j < n
      BY <1>1, <1>7, <2>2 DEF RegistersOK
    <3>2. QED
      BY <1>1, <3>1 DEF RegistersOK
  <2>3. QED
    BY <2>1, <2>2
<1> HIDE DEF blocks
<1>11. /\ r.bkrep_stack = blocks /\ r.lp = TRUE /\ r.bcn = n + 1
       /\ r.pc = Ready.pc /\ r.rep = Ready.rep
       /\ r \in [pc : Nat, rep : BOOLEAN, repc : Nat, lp : BOOLEAN,
                 bcn : 0 .. Depth, bkrep_stack : [0 .. Depth - 1 -> Frame]]
  BY <1>1, <1>7, <1>8, <1>9 DEF RegistersOK
<1>12. QED
  BY <1>7, <1>10, <1>11 DEF RegistersOK

\* Moving the blocks down for bkrepsto keeps those that stay.
LEMMA DownOK ==
    ASSUME NEW r, RegistersOK(r), r.lp
    PROVE  /\ RegistersOK(LeaveBlock(Down(r)))
           /\ LeaveBlock(Down(r)).pc = r.pc /\ LeaveBlock(Down(r)).rep = r.rep
<1> DEFINE blocks == [i \in 0 .. Depth - 1 |->
                        IF i < r.bcn - 1 THEN r.bkrep_stack[i + 1] ELSE r.bkrep_stack[i]]
           q == [r EXCEPT !.bkrep_stack = blocks]
<1>1. r.bcn \in 1 .. Depth /\ Depth = 4 /\ r.bkrep_stack \in [0 .. Depth - 1 -> Frame]
  BY DEF RegistersOK, Depth
<1>2. Down(r) = q
  BY <1>1 DEF Down, RegistersOK
<1>3. blocks \in [0 .. Depth - 1 -> Frame]
  BY <1>1
<1>4. \A j \in 0 .. Depth - 1 : j < r.bcn => IsBlock(blocks[j])
  <2> SUFFICES ASSUME NEW j \in 0 .. Depth - 1, j < r.bcn PROVE IsBlock(blocks[j])
    OBVIOUS
  <2>1. CASE j < r.bcn - 1
    <3>1. j + 1 \in 0 .. Depth - 1 /\ j + 1 < r.bcn
      BY <1>1, <2>1
    <3>2. blocks[j] = r.bkrep_stack[j + 1]
      BY <2>1
    <3>3. QED
      BY <3>1, <3>2 DEF RegistersOK
  <2>2. CASE ~(j < r.bcn - 1)
    <3>1. blocks[j] = r.bkrep_stack[j]
      BY <2>2
    <3>2. QED
      BY <3>1 DEF RegistersOK
  <2>3. QED
    BY <2>1, <2>2
<1> HIDE DEF blocks
<1>5. RegistersOK(q) /\ q.lp /\ q.pc = r.pc /\ q.rep = r.rep
  BY <1>3, <1>4 DEF RegistersOK
<1>6. QED
  BY <1>2, <1>5, LeaveOK

\* Putting a saved block below the others for bkreprst.
LEMMA UnderOK ==
    ASSUME NEW r, RegistersOK(r), r.bcn <= 3, NEW f, IsBlock(f),
           NEW q, q = [[Up(r) EXCEPT !.bcn = @ + 1] EXCEPT !.bkrep_stack[0] = f], r.lp
    PROVE  RegistersOK(q) /\ q.pc = r.pc /\ q.rep = r.rep
<1> DEFINE up == [i \in 0 .. Depth - 1 |->
                    IF 0 < i /\ i <= r.bcn THEN r.bkrep_stack[i - 1] ELSE r.bkrep_stack[i]]
           blocks == [up EXCEPT ![0] = f]
           n == r.bcn + 1
<1>1. /\ r.bcn \in 1 .. 3 /\ n \in 0 .. Depth /\ n # 0 /\ Depth = 4
      /\ r.bkrep_stack \in [0 .. Depth - 1 -> Frame] /\ f \in Frame
  BY DEF RegistersOK, IsBlock, Depth
<1>2. Up(r) = [r EXCEPT !.bkrep_stack = up]
  BY <1>1 DEF Up, RegistersOK
<1>3. up \in [0 .. Depth - 1 -> Frame]
  BY <1>1
<1>4. blocks \in [0 .. Depth - 1 -> Frame]
  BY <1>1, <1>3
<1>5. \A j \in 0 .. Depth - 1 : j < n => IsBlock(blocks[j])
  <2> SUFFICES ASSUME NEW j \in 0 .. Depth - 1, j < n PROVE IsBlock(blocks[j])
    OBVIOUS
  <2>1. CASE j = 0
    <3>1. blocks[j] = f
      BY <1>1, <1>3, <2>1
    <3>2. QED
      BY <3>1
  <2>2. CASE j # 0
    <3>1. j - 1 \in 0 .. Depth - 1 /\ j - 1 < r.bcn /\ 0 < j /\ j <= r.bcn
      BY <1>1, <2>2
    <3>2. blocks[j] = r.bkrep_stack[j - 1]
      BY <1>1, <1>3, <2>2, <3>1
    <3>3. QED
      BY <3>1, <3>2 DEF RegistersOK
  <2>3. QED
    BY <2>1, <2>2
<1>6. r.bkrep_stack = r.bkrep_stack /\ q = [r EXCEPT !.bkrep_stack = blocks, !.bcn = n]
  <2> HIDE DEF up
  <2>1. QED
    BY <1>2, <1>3 DEF RegistersOK
<1> HIDE DEF blocks, n
<1>7. /\ q \in [pc : Nat, rep : BOOLEAN, repc : Nat, lp : BOOLEAN,
                 bcn : 0 .. Depth, bkrep_stack : [0 .. Depth - 1 -> Frame]]
      /\ q.lp = TRUE /\ q.bcn = n /\ q.bkrep_stack = blocks
      /\ q.pc = r.pc /\ q.rep = r.rep
  BY <1>1, <1>4, <1>6 DEF RegistersOK
<1>8. QED
  BY <1>1, <1>5, <1>7 DEF RegistersOK

\* A saved block on an empty stack counts if it is valid.
Bottomed(r, item) ==
    [(IF item.valid THEN [r EXCEPT !.lp = TRUE, !.bcn = 1] ELSE r)
        EXCEPT !.bkrep_stack[0] = item.frame]

\* Putting it there keeps the registers in range.
LEMMA BottomOK ==
    ASSUME NEW r, RegistersOK(r), ~r.lp, NEW item, IsSaved(item),
           NEW q, q = Bottomed(r, item)
    PROVE  RegistersOK(q) /\ q.pc = r.pc /\ q.rep = r.rep
<1> DEFINE blocks == [r.bkrep_stack EXCEPT ![0] = item.frame]
<1>1. /\ r.bcn = 0 /\ Depth = 4 /\ item.frame \in Frame /\ item.valid \in BOOLEAN
      /\ r.bkrep_stack \in [0 .. Depth - 1 -> Frame]
  BY DEF RegistersOK, IsSaved, Depth
<1>1a. 1 \in 0 .. Depth /\ (\A j \in 0 .. Depth - 1 : ~(j < 0))
  BY <1>1
<1>2. blocks \in [0 .. Depth - 1 -> Frame] /\ blocks[0] = item.frame
  BY <1>1
<1> HIDE DEF blocks
<1>3. CASE item.valid
  <2>1. q = [r EXCEPT !.bkrep_stack = blocks, !.lp = TRUE, !.bcn = 1]
    BY <1>3 DEF RegistersOK, blocks, Bottomed
  <2>2. IsBlock(blocks[0])
    BY <1>2, <1>3 DEF IsSaved
  <2>3. \A j \in 0 .. Depth - 1 : j < 1 => j = 0
    BY <1>1
  <2>4. /\ q \in [pc : Nat, rep : BOOLEAN, repc : Nat, lp : BOOLEAN,
                   bcn : 0 .. Depth, bkrep_stack : [0 .. Depth - 1 -> Frame]]
        /\ q.lp = TRUE /\ q.bcn = 1 /\ q.bkrep_stack = blocks
        /\ q.pc = r.pc /\ q.rep = r.rep
    BY <1>1a, <1>2, <2>1 DEF RegistersOK
  <2>5. QED
    BY <2>2, <2>3, <2>4 DEF RegistersOK
<1>4. CASE ~item.valid
  <2>1. q = [r EXCEPT !.bkrep_stack = blocks]
    BY <1>4 DEF RegistersOK, blocks, Bottomed
  <2>2. /\ q \in [pc : Nat, rep : BOOLEAN, repc : Nat, lp : BOOLEAN,
                   bcn : 0 .. Depth, bkrep_stack : [0 .. Depth - 1 -> Frame]]
        /\ q.lp = r.lp /\ q.bcn = 0 /\ q.pc = r.pc /\ q.rep = r.rep
    BY <1>1, <1>2, <2>1 DEF RegistersOK
  <2>3. QED
    BY <1>1a, <2>2 DEF RegistersOK
<1>5. QED
  BY <1>1, <1>3, <1>4

-----------------------------------------------------------------------------
\* Each kind of instruction keeps the invariant: work, repeated or not.
LEMMA WorkKeeps == ASSUME LoopInv, Work PROVE LoopInv'
<1>1. /\ Operand.op = "work" /\ regs' = Ready /\ idle' = idle /\ ie' = ie /\ aborted' = aborted
      /\ at' = "dispatch" /\ UNCHANGED <<inputs, ip>>
  BY DEF Work, Instruction, Operand
<1>2. QED
  BY <1>1, ReadyOK, QuietInstruction DEF LoopInv

\* A rep, behind which only work repeats.
LEMMA RepeatKeeps == ASSUME LoopInv, Repeat PROVE LoopInv'
<1>1. /\ Operand.op = "rep" /\ idle' = idle /\ ie' = ie /\ aborted' = aborted
      /\ regs' = [Ready EXCEPT !.rep = TRUE, !.repc = Operand.count]
      /\ at' = "dispatch" /\ UNCHANGED <<inputs, ip>>
  BY DEF Repeat, Instruction, Operand, Quiet
<1>2. RegistersOK(Ready) /\ Ready.pc = regs.pc + 1 /\ Ready.pc \in DOMAIN program.code
  BY <1>1, ReadyOK
<1>3. Operand.count \in Nat
  BY <1>1, CodeOK DEF LoopInv, Operand
<1>4. RegistersOK(regs') /\ regs'.pc = Ready.pc
  BY <1>1, <1>2, <1>3 DEF RegistersOK
<1>5. QED
  BY <1>1, <1>2, <1>4, QuietInstruction DEF LoopInv

\* A bkrep, which enters a block or aborts.
LEMMA BlockRepeatKeeps == ASSUME LoopInv, BlockRepeat PROVE LoopInv'
<1> DEFINE entered == [Ready EXCEPT !.bkrep_stack[Ready.bcn] =
                                        [start |-> Ready.pc, end |-> Operand.end,
                                         lc |-> Operand.count],
                                    !.lp = TRUE, !.bcn = @ + 1]
<1>1. /\ Operand.op = "bkrep" /\ idle' = idle /\ ie' = ie /\ aborted' \in BOOLEAN
      /\ regs' = IF Ready.bcn <= 3 THEN entered ELSE Ready
      /\ at' = "dispatch" /\ UNCHANGED <<inputs, ip>>
  BY DEF BlockRepeat, Instruction, Operand, Quiet, Asserted
<1>2. RegistersOK(Ready) /\ Ready.pc \in DOMAIN program.code
  BY <1>1, ReadyOK
<1>3. RegistersOK(regs') /\ regs'.pc = Ready.pc /\ regs'.rep = Ready.rep
  <2>1. CASE Ready.bcn <= 3
    BY <1>1, <2>1, EnterOK
  <2>2. CASE ~(Ready.bcn <= 3)
    BY <1>1, <1>2, <2>2
  <2>3. QED
    BY <2>1, <2>2
<1>4. QED
  BY <1>1, <1>2, <1>3, QuietInstruction DEF LoopInv

\* A break, which leaves a block or aborts.
LEMMA BreakKeeps == ASSUME LoopInv, Break PROVE LoopInv'
<1>1. /\ Operand.op = "break" /\ idle' = idle /\ ie' = ie /\ aborted' \in BOOLEAN
      /\ regs' = IF Ready.lp THEN LeaveBlock(Ready) ELSE Ready
      /\ at' = "dispatch" /\ UNCHANGED <<inputs, ip>>
  BY DEF Break, Instruction, Operand, Quiet, Asserted
<1>2. RegistersOK(Ready) /\ Ready.pc \in DOMAIN program.code
  BY <1>1, ReadyOK
<1>3. RegistersOK(regs') /\ regs'.pc = Ready.pc /\ regs'.rep = Ready.rep
  BY <1>1, <1>2, LeaveOK
<1>4. QED
  BY <1>1, <1>2, <1>3, QuietInstruction DEF LoopInv

\* A bkrepsto, which takes the outermost block away.
LEMMA StoreKeeps == ASSUME LoopInv, StoreBlockRepeat PROVE LoopInv'
<1>1. /\ Operand.op = "bkrepsto" /\ idle' = idle /\ ie' = ie /\ aborted' = aborted
      /\ regs' = IF Ready.lp THEN LeaveBlock(Down(Ready)) ELSE Ready
      /\ at' = "dispatch" /\ UNCHANGED <<inputs, ip>>
  BY DEF StoreBlockRepeat, Instruction, Operand, Quiet
<1>2. RegistersOK(Ready) /\ Ready.pc \in DOMAIN program.code
  BY <1>1, ReadyOK
<1>3. RegistersOK(regs') /\ regs'.pc = Ready.pc /\ regs'.rep = Ready.rep
  BY <1>1, <1>2, DownOK
<1>4. QED
  BY <1>1, <1>2, <1>3, QuietInstruction DEF LoopInv

\* A bkreprst, which puts back a block that a bkrepsto saved.
LEMMA RestoreKeeps == ASSUME LoopInv, PopsMatch, RestoreBlockRepeat PROVE LoopInv'
<1> DEFINE saved == Last(stack)
           moved == IF Ready.lp THEN [Up(Ready) EXCEPT !.bcn = @ + 1]
                    ELSE IF saved.valid THEN [Ready EXCEPT !.lp = TRUE, !.bcn = 1]
                    ELSE Ready
           restored == [moved EXCEPT !.bkrep_stack[0] = saved.frame]
<1>1. /\ Operand.op = "bkreprst" /\ idle' = idle /\ ie' = ie /\ aborted' \in BOOLEAN
      /\ regs' = IF Ready.lp => Ready.bcn <= 3 /\ saved.valid THEN restored ELSE Ready
      /\ at' = "dispatch" /\ UNCHANGED <<inputs, ip>>
  BY DEF RestoreBlockRepeat, Instruction, Operand, Quiet, Asserted
<1>2. RegistersOK(Ready) /\ Ready.pc \in DOMAIN program.code
  BY <1>1, ReadyOK
<1>3. IsSaved(saved)
  BY <1>1 DEF PopsMatch, RestoreBlockRepeat, Instruction
<1>4. RegistersOK(regs') /\ regs'.pc = Ready.pc /\ regs'.rep = Ready.rep
  <2>1. CASE Ready.lp /\ Ready.bcn <= 3 /\ saved.valid
    <3>1. regs' = [[Up(Ready) EXCEPT !.bcn = @ + 1] EXCEPT !.bkrep_stack[0] = saved.frame]
      BY <1>1, <2>1
    <3>2. IsBlock(saved.frame)
      BY <1>3, <2>1 DEF IsSaved
    <3>3. QED
      BY <1>2, <2>1, <3>1, <3>2, UnderOK
  <2>2. CASE ~Ready.lp
    <3>1. regs' = Bottomed(Ready, saved)
      BY <1>1, <2>2 DEF Bottomed
    <3> HIDE DEF saved
    <3>2. RegistersOK(regs') /\ regs'.pc = Ready.pc /\ regs'.rep = Ready.rep
      BY <1>2, <1>3, <2>2, <3>1, BottomOK
    <3>3. QED
      BY <3>2
  <2>3. CASE ~(Ready.lp => Ready.bcn <= 3 /\ saved.valid)
    BY <1>1, <1>2, <2>3
  <2>4. QED
    BY <2>1, <2>2, <2>3
<1>5. QED
  BY <1>1, <1>2, <1>4, QuietInstruction DEF LoopInv

\* A jump to an address of the code, by an instruction that does not repeat.
LEMMA Jumps ==
    ASSUME LoopInv, UNCHANGED <<inputs, ip>>, at' = "dispatch",
           Operand.op \notin {"work", "brr"}, idle' = idle, ie' \in BOOLEAN, aborted' \in BOOLEAN,
           NEW target \in DOMAIN program.code, regs' = [Ready EXCEPT !.pc = target]
    PROVE  LoopInv'
<1>1. RegistersOK(Ready) /\ ~Ready.rep /\ target \in Nat
  BY ReadyOK, CodeOK DEF LoopInv
<1>2. RegistersOK(regs') /\ regs'.pc = target /\ ~regs'.rep
  BY <1>1 DEF RegistersOK
<1>3. QED
  BY <1>2, QuietInstruction

\* A branch, taken or not.
LEMMA BranchKeeps == ASSUME LoopInv, Branch PROVE LoopInv'
<1>1. /\ Operand.op = "br" /\ idle' = idle /\ ie' = ie /\ aborted' = aborted
      /\ regs' = IF Operand.taken THEN [Ready EXCEPT !.pc = Operand.target] ELSE Ready
      /\ at' = "dispatch" /\ UNCHANGED <<inputs, ip>>
  BY DEF Branch, Instruction, Operand, Quiet
<1>2. ie' \in BOOLEAN /\ aborted' \in BOOLEAN
  BY <1>1 DEF LoopInv
<1>3. CASE Operand.taken
  <2>1. Operand.target \in DOMAIN program.code
    BY <1>1, CodeOK DEF LoopInv, Operand
  <2>2. QED
    BY <1>1, <1>2, <1>3, <2>1, Jumps
<1>4. CASE ~Operand.taken
  <2>1. regs' = Ready /\ RegistersOK(Ready) /\ Ready.pc \in DOMAIN program.code
    BY <1>1, <1>4, ReadyOK
  <2>2. QED
    BY <1>1, <1>2, <2>1, QuietInstruction
<1>5. QED
  BY <1>3, <1>4

\* A call.
LEMMA CallKeeps == ASSUME LoopInv, Call PROVE LoopInv'
<1>1. /\ Operand.op = "call" /\ idle' = idle /\ ie' = ie /\ aborted' = aborted
      /\ regs' = [Ready EXCEPT !.pc = Operand.target]
      /\ at' = "dispatch" /\ UNCHANGED <<inputs, ip>>
  BY DEF Call, Instruction, Operand, Quiet
<1>2. Operand.target \in DOMAIN program.code
  BY <1>1, CodeOK DEF LoopInv, Operand
<1>3. QED
  BY <1>1, <1>2, Jumps DEF LoopInv

\* A push.
LEMMA PushKeeps == ASSUME LoopInv, Push PROVE LoopInv'
<1>1. /\ Operand.op = "push" /\ regs' = Ready /\ idle' = idle /\ ie' = ie /\ aborted' = aborted
      /\ at' = "dispatch" /\ UNCHANGED <<inputs, ip>>
  BY DEF Push, Instruction, Operand, Quiet
<1>2. QED
  BY <1>1, ReadyOK, QuietInstruction DEF LoopInv

\* A return, to an address that a call left.
LEMMA ReturnKeeps == ASSUME LoopInv, PopsMatch, Return PROVE LoopInv'
<1>1. /\ Operand.op = "rets" /\ idle' = idle /\ ie' = ie /\ aborted' = aborted
      /\ regs' = [Ready EXCEPT !.pc = Last(stack)]
      /\ at' = "dispatch" /\ UNCHANGED <<inputs, ip>>
  BY DEF Return, Instruction, Operand, Quiet
<1>2. Last(stack) \in DOMAIN program.code
  BY <1>1 DEF PopsMatch, Return, Instruction
<1>3. QED
  BY <1>1, <1>2, Jumps DEF LoopInv

\* A return from the handler, which enables interrupts.
LEMMA ReturnFromInterruptKeeps ==
    ASSUME LoopInv, PopsMatch, ReturnFromInterrupt PROVE LoopInv'
<1>1. /\ Operand.op = "reti" /\ idle' = idle /\ ie' = TRUE /\ aborted' = aborted
      /\ regs' = [Ready EXCEPT !.pc = Last(stack)]
      /\ at' = "dispatch" /\ UNCHANGED <<inputs, ip>>
  BY DEF ReturnFromInterrupt, Instruction, Operand
<1>2. Last(stack) \in DOMAIN program.code
  BY <1>1 DEF PopsMatch, ReturnFromInterrupt, Instruction
<1>3. QED
  BY <1>1, <1>2, Jumps DEF LoopInv

\* The branch to itself, which sets idle where it stays.
LEMMA BranchToItselfKeeps == ASSUME LoopInv, BranchToItself PROVE LoopInv'
<1>1. /\ Operand.op = "brr" /\ idle' = TRUE /\ ie' = ie /\ aborted' = aborted
      /\ regs' = [Ready EXCEPT !.pc = @ - 1]
      /\ at' = "dispatch" /\ UNCHANGED <<inputs, ip>>
  BY DEF BranchToItself, Instruction, Operand
<1>2. RegistersOK(Ready) /\ Ready.pc = regs.pc + 1 /\ ~Ready.rep
  BY <1>1, ReadyOK
<1>3. regs.pc \in Nat /\ regs.pc \in DOMAIN program.code
  BY CodeOK DEF LoopInv
<1>4. regs' = [Ready EXCEPT !.pc = regs.pc]
  <2>1. Ready.pc - 1 = regs.pc
    BY <1>2, <1>3
  <2>2. QED
    BY <1>1, <2>1
<1>5. RegistersOK(regs') /\ regs'.pc = regs.pc /\ ~regs'.rep
  BY <1>2, <1>3, <1>4 DEF RegistersOK
<1>6. QED
  BY <1>1, <1>3, <1>5, AfterInstruction DEF LoopInv

-----------------------------------------------------------------------------
\* So do the dispatch of an interrupt and what happens outside the loop.
LEMMA DispatchKeeps == ASSUME LoopInv, Dispatch PROVE LoopInv'
<1>1. /\ program' = program /\ raised' = raised /\ regs' = [regs EXCEPT !.pc = HandlerAddress]
      /\ ~regs.rep /\ ip' = FALSE /\ ie' = FALSE /\ idle' = FALSE /\ at' = "execute"
      /\ aborted' = aborted
  BY DEF Dispatch, inputs
<1>2. HandlerAddress \in DOMAIN program.code /\ HandlerAddress \in Nat
  BY CodeOK DEF LoopInv
<1>3. RegistersOK(regs') /\ regs'.pc = HandlerAddress /\ ~regs'.rep
  BY <1>1, <1>2 DEF LoopInv, RegistersOK
<1>4. RegistersOK(regs)'
  BY <1>1, <1>3, Unprimed
<1>5. QED
  BY <1>1, <1>2, <1>3, <1>4 DEF LoopInv

\* A step that leaves the registers and the program alone.
LEMMA OutsideKeeps ==
    ASSUME LoopInv, UNCHANGED <<program, regs, ie, aborted>>,
           ip' \in BOOLEAN, idle' \in BOOLEAN, idle' => idle, at' \in {"execute", "dispatch"},
           raised' \in 0 .. MaxInterrupts
    PROVE  LoopInv'
<1>1. RegistersOK(regs)'
  BY Unprimed DEF LoopInv
<1>2. program' = program /\ regs' = regs /\ ie' = ie /\ aborted' = aborted
  OBVIOUS
<1>3. idle' => program.code[regs.pc].op = "brr"
  BY DEF LoopInv
<1>4. QED
  BY <1>1, <1>2, <1>3 DEF LoopInv

\* The invariant is inductive for programs that find their own on the stack.
LEMMA LoopInductive == ASSUME LoopInv, PopsMatch, [Next]_vars PROVE LoopInv'
<1>1. CASE Execute
  BY <1>1, WorkKeeps, RepeatKeeps, BlockRepeatKeeps, BreakKeeps, StoreKeeps, RestoreKeeps,
     BranchKeeps, CallKeeps, PushKeeps, ReturnKeeps, ReturnFromInterruptKeeps,
     BranchToItselfKeeps DEF Execute
<1>2. CASE Dispatch
  BY <1>2, DispatchKeeps
<1>3. CASE NoDispatch
  <2>1. /\ UNCHANGED <<program, regs, ie, aborted>> /\ ip' = ip /\ idle' = idle
        /\ at' = "execute" /\ raised' = raised
    BY <1>3 DEF NoDispatch, inputs
  <2>2. QED
    BY <2>1, OutsideKeeps DEF LoopInv
<1>4. CASE Raise
  <2>1. raised' \in 0 .. MaxInterrupts
    BY <1>4, ProgramsAssumption DEF LoopInv, Raise
  <2>2. /\ UNCHANGED <<program, regs, ie, aborted>> /\ ip' = TRUE /\ idle' = idle /\ at' = at
    BY <1>4 DEF Raise
  <2>3. QED
    BY <2>1, <2>2, OutsideKeeps DEF LoopInv
<1>5. CASE NewRun
  <2>1. /\ UNCHANGED <<program, regs, ie, aborted>> /\ ip' = ip /\ idle' = FALSE
        /\ at' = at /\ raised' = raised
    BY <1>5 DEF NewRun, inputs
  <2>2. QED
    BY <2>1, OutsideKeeps DEF LoopInv
<1>6. CASE UNCHANGED vars
  <2>1. /\ UNCHANGED <<program, regs, ie, aborted>> /\ ip' = ip /\ idle' = idle
        /\ at' = at /\ raised' = raised
    BY <1>6 DEF vars
  <2>2. QED
    BY <2>1, OutsideKeeps DEF LoopInv
<1>7. QED
  BY <1>1, <1>2, <1>3, <1>4, <1>5, <1>6 DEF Next, Run

\* It holds at the start: no block, nothing to repeat.
LEMMA LoopInit == ASSUME Init PROVE LoopInv
<1>1. program \in Programs /\ program.start \in DOMAIN program.code /\ program.start \in Nat
  BY ProgramsAssumption DEF Init
<1>2. NoFrame \in Frame
  BY DEF NoFrame, Frame
<1>3. [i \in 0 .. Depth - 1 |-> NoFrame] \in [0 .. Depth - 1 -> Frame]
  BY <1>2
<1>4. 0 \in 0 .. Depth /\ \A j \in 0 .. Depth - 1 : ~(j < 0)
  BY DEF Depth
<1>5. /\ regs \in [pc : Nat, rep : BOOLEAN, repc : Nat, lp : BOOLEAN,
                   bcn : 0 .. Depth, bkrep_stack : [0 .. Depth - 1 -> Frame]]
      /\ regs.bcn = 0 /\ regs.lp = FALSE /\ regs.rep = FALSE /\ regs.pc = program.start
  BY <1>1, <1>3, <1>4 DEF Init
<1>6. RegistersOK(regs)
  BY <1>4, <1>5 DEF RegistersOK
<1>7. 0 \in 0 .. MaxInterrupts
  BY ProgramsAssumption
<1>8. QED
  BY <1>1, <1>5, <1>6, <1>7 DEF Init, LoopInv

-----------------------------------------------------------------------------
\* A program that finds on the stack what it or its caller left there (what
\* bkreprst pops is a block that bkrepsto saved, what a return pops is an
\* address of the code) never drives repc, lc or the nesting counter of
\* Interpreter::Run out of range, whatever its blocks and wherever interrupts
\* fall: the stack of four is never left, and lp and bcn agree.
THEOREM LoopTypes == Spec /\ []PopsMatch => []LoopTypeOK
<1>1. LoopInv => LoopTypeOK
  BY DEF LoopInv, RegistersOK, LoopTypeOK
<1>2. QED
  BY <1>1, LoopInit, LoopInductive, PTL DEF Spec

\* Nor does its loop skip time with work waiting: whenever Run finds idle set,
\* the next instruction is the branch to itself.
THEOREM IdleOnlyWaits == Spec /\ []PopsMatch => []IdleWaits
<1>1. LoopInv => IdleWaits
  BY DEF LoopInv, IdleWaits
<1>2. QED
  BY <1>1, LoopInit, LoopInductive, PTL DEF Spec

=============================================================================
