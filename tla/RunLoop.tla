------------------------------ MODULE RunLoop ------------------------------
(***************************************************************************)
(* Program control in Interpreter::Run of src/src/interpreter.h: repeated  *)
(* instructions, the stack of block repeats, interrupts between any two    *)
(* instructions, and the idle flag that lets the loop skip time.           *)
(*                                                                         *)
(* A program is a record: code maps an address to an instruction (its      *)
(* second word, if it has one, is part of it), start is where it begins    *)
(* and trace the addresses of the work it should do, in order.  The code   *)
(* includes the interrupt handler at HandlerAddress, whose own work is     *)
(* handler.  Latching and masks are in Core: here there is one line, ip is *)
(* its bit, and raised counts how often the outside has set it.            *)
(***************************************************************************)
EXTENDS Integers, Sequences, SequencesExt

CONSTANTS
    Programs,
    HandlerAddress,     \* 0x0006 + i * 8
    MaxInterrupts       \* bound: interrupts raised

(* What the loop takes for granted of a program: it does not run off its    *)
(* code, rep repeats an instruction that only works, and no block ends at  *)
(* a rep or at the branch to itself.                                       *)
ASSUME ProgramsAssumption ==
    /\ MaxInterrupts \in Nat
    /\ \A p \in Programs :
        /\ DOMAIN p.code \subseteq Nat
        /\ {p.start, HandlerAddress} \subseteq DOMAIN p.code
        /\ \A a \in DOMAIN p.code :
            /\ p.code[a].op \notin {"brr", "rets", "reti"} => a + 1 \in DOMAIN p.code
            /\ p.code[a].op \in {"br", "call"} => p.code[a].target \in DOMAIN p.code
            /\ p.code[a].op \in {"rep", "bkrep"} => p.code[a].count \in Nat
            /\ p.code[a].op = "rep" => p.code[a + 1].op = "work"
            /\ p.code[a].op = "bkrep" =>
                /\ p.code[a].end \in DOMAIN p.code
                /\ p.code[p.code[a].end].op \notin {"rep", "brr"}

VARIABLES
    program,    \* the program being run
    regs,       \* pc, rep, repc, lp, bcn and bkrep_stack of RegisterState
    stack,      \* what PushPC, push and bkrepsto have written below sp
    ie, ip,     \* interrupts enabled, interrupt latched
    idle,       \* Interpreter::idle
    at,         \* "execute" or "dispatch": where the loop is
    aborted,    \* an ASSERT has failed
    raised,     \* interrupts raised so far
    done,       \* addresses of the work done by the program
    handled     \* addresses of the work done by the handler since its entry

inputs == <<program, raised>>
vars == <<program, regs, stack, ie, ip, idle, at, aborted, raised, done, handled>>

Frame == [start : Int, end : Int, lc : Nat]
NoFrame == [start |-> 0, end |-> 0, lc |-> 0]
Depth == 4

Init ==
    /\ program \in Programs
    /\ regs = [pc |-> program.start, rep |-> FALSE, repc |-> 0,
               lp |-> FALSE, bcn |-> 0,
               bkrep_stack |-> [i \in 0 .. Depth - 1 |-> NoFrame]]
    /\ stack = <<>>
    /\ ie = TRUE /\ ip = FALSE
    /\ idle = FALSE
    /\ at = "execute"
    /\ aborted = FALSE
    /\ raised = 0
    /\ done = <<>> /\ handled = <<>>

-----------------------------------------------------------------------------
(***************************************************************************)
(* What the loop does to the registers before it calls the instruction.    *)
(***************************************************************************)
Fetched(r) == [r EXCEPT !.pc = @ + 1]

(* Mutant: repc is compared with zero after it went below.                *)
RepeatedPastZero(r) ==
    IF ~r.rep THEN r
    ELSE IF r.repc = -1 THEN [r EXCEPT !.rep = FALSE]
    ELSE [r EXCEPT !.repc = @ - 1, !.pc = @ - 1]

Repeated(r) ==
    IF ~r.rep THEN r
    ELSE IF r.repc = 0 THEN [r EXCEPT !.rep = FALSE]
    ELSE [r EXCEPT !.repc = @ - 1, !.pc = @ - 1]

(* Mutant: leaving a nested block does not count it.                       *)
LeaveBlockKeepsLevel(r) == [r EXCEPT !.lp = r.bcn # 1]

LeaveBlock(r) == [r EXCEPT !.bcn = @ - 1, !.lp = r.bcn # 1]

Innermost(r) == r.bkrep_stack[r.bcn - 1]
AtBlockEnd(r) == r.lp /\ Innermost(r).end + 1 = r.pc

Looped(r) ==
    IF ~AtBlockEnd(r) THEN r
    ELSE IF Innermost(r).lc = 0 THEN LeaveBlock(r)
    ELSE [r EXCEPT !.bkrep_stack[r.bcn - 1].lc = @ - 1,
                   !.pc = Innermost(r).start]

Ready == Looped(Repeated(Fetched(regs)))

(***************************************************************************)
(* An instruction: its fetch, and where its effect starts from.            *)
(***************************************************************************)
Instruction(op) ==
    /\ at = "execute" /\ ~aborted
    /\ program.code[regs.pc].op = op
    /\ at' = "dispatch"
    /\ UNCHANGED <<inputs, ip>>

Operand == program.code[regs.pc]

Asserted(condition, registers) ==
    /\ aborted' = ~condition
    /\ regs' = IF condition THEN registers ELSE Ready

Quiet == UNCHANGED <<ie, idle, done, handled>>

Work ==
    /\ Instruction("work")
    /\ regs' = Ready
    /\ IF ie THEN done' = Append(done, regs.pc) /\ UNCHANGED handled
             ELSE handled' = Append(handled, regs.pc) /\ UNCHANGED done
    /\ UNCHANGED <<stack, ie, idle, aborted>>

Repeat ==
    /\ Instruction("rep")
    /\ regs' = [Ready EXCEPT !.rep = TRUE, !.repc = Operand.count]
    /\ UNCHANGED <<stack, aborted>>
    /\ Quiet

BlockRepeat ==
    /\ Instruction("bkrep")
    /\ Asserted(Ready.bcn <= 3,
              [Ready EXCEPT !.bkrep_stack[Ready.bcn] =
                                [start |-> Ready.pc, end |-> Operand.end,
                                 lc |-> Operand.count],
                            !.lp = TRUE,
                            !.bcn = @ + 1])
    /\ UNCHANGED stack
    /\ Quiet

Break ==
    /\ Instruction("break")
    /\ Asserted(Ready.lp, LeaveBlock(Ready))
    /\ UNCHANGED stack
    /\ Quiet

(***************************************************************************)
(* bkrepsto saves the outermost block and moves the others down;           *)
(* bkreprst moves the blocks up and puts the saved one at the bottom.      *)
(***************************************************************************)
(* Mutant: bkreprst moves the blocks from the bottom up and smears the      *)
(* outermost over the others.                                              *)
UpSmears(r) ==
    [r EXCEPT !.bkrep_stack = [i \in DOMAIN @ |->
                  IF 0 < i /\ i <= r.bcn THEN @[0] ELSE @[i]]]

Down(r) ==
    [r EXCEPT !.bkrep_stack = [i \in DOMAIN @ |->
                  IF i < r.bcn - 1 THEN @[i + 1] ELSE @[i]]]

Up(r) ==
    [r EXCEPT !.bkrep_stack = [i \in DOMAIN @ |->
                  IF 0 < i /\ i <= r.bcn THEN @[i - 1] ELSE @[i]]]

StoreBlockRepeat ==
    /\ Instruction("bkrepsto")
    /\ stack' = Append(stack, [valid |-> Ready.lp,
                               frame |-> Ready.bkrep_stack[0]])
    /\ regs' = IF Ready.lp THEN LeaveBlock(Down(Ready)) ELSE Ready
    /\ UNCHANGED aborted
    /\ Quiet

RestoreBlockRepeat ==
    /\ Instruction("bkreprst")
    /\ LET saved == Last(stack)
           moved == IF Ready.lp THEN [Up(Ready) EXCEPT !.bcn = @ + 1]
                    ELSE IF saved.valid THEN [Ready EXCEPT !.lp = TRUE, !.bcn = 1]
                    ELSE Ready
       IN  Asserted(Ready.lp => Ready.bcn <= 3 /\ saved.valid,
                  [moved EXCEPT !.bkrep_stack[0] = saved.frame])
    /\ stack' = Front(stack)
    /\ Quiet

(***************************************************************************)
(* A branch to itself: the loop is idle until an interrupt.                *)
(***************************************************************************)
BranchToItself ==
    /\ Instruction("brr")
    /\ regs' = [Ready EXCEPT !.pc = @ - 1]
    /\ idle' = TRUE
    /\ UNCHANGED <<stack, ie, aborted, done, handled>>

(***************************************************************************)
(* Branches, and calls with arguments on the stack, which rets drops.      *)
(***************************************************************************)
(* br and brr, with the condition as the program finds it.                 *)
Branch ==
    /\ Instruction("br")
    /\ regs' = IF Operand.taken THEN [Ready EXCEPT !.pc = Operand.target] ELSE Ready
    /\ UNCHANGED <<stack, aborted>>
    /\ Quiet

Call ==
    /\ Instruction("call")
    /\ stack' = Append(stack, Ready.pc)
    /\ regs' = [Ready EXCEPT !.pc = Operand.target]
    /\ UNCHANGED aborted
    /\ Quiet

Push ==
    /\ Instruction("push")
    /\ stack' = Append(stack, Operand.count)
    /\ regs' = Ready
    /\ UNCHANGED aborted
    /\ Quiet

(* ret is rets without arguments.                                          *)
Return ==
    /\ Instruction("rets")
    /\ regs' = [Ready EXCEPT !.pc = Last(stack)]
    /\ stack' = SubSeq(stack, 1, Len(stack) - 1 - Operand.count)
    /\ UNCHANGED aborted
    /\ Quiet

ReturnFromInterrupt ==
    /\ Instruction("reti")
    /\ regs' = [Ready EXCEPT !.pc = Last(stack)]
    /\ stack' = Front(stack)
    /\ ie' = TRUE
    /\ UNCHANGED <<idle, aborted, done, handled>>

-----------------------------------------------------------------------------
(***************************************************************************)
(* After the instruction, an interrupt is dispatched or not.               *)
(***************************************************************************)
(* Mutants: the loop stays idle in the handler, the interrupt's bit stays  *)
(* set.                                                                    *)
DispatchStaysIdle ==
    /\ at = "dispatch" /\ ~aborted
    /\ ie /\ ~regs.rep /\ ip
    /\ ip' = FALSE /\ ie' = FALSE
    /\ stack' = Append(stack, regs.pc)
    /\ regs' = [regs EXCEPT !.pc = HandlerAddress]
    /\ handled' = <<>>
    /\ at' = "execute"
    /\ UNCHANGED <<inputs, idle, aborted, done>>

DispatchKeepsBit ==
    /\ at = "dispatch" /\ ~aborted
    /\ ie /\ ~regs.rep /\ ip
    /\ ie' = FALSE
    /\ stack' = Append(stack, regs.pc)
    /\ regs' = [regs EXCEPT !.pc = HandlerAddress]
    /\ idle' = FALSE
    /\ handled' = <<>>
    /\ at' = "execute"
    /\ UNCHANGED <<inputs, ip, aborted, done>>

Dispatch ==
    /\ at = "dispatch" /\ ~aborted
    /\ ie /\ ~regs.rep /\ ip
    /\ ip' = FALSE /\ ie' = FALSE
    /\ stack' = Append(stack, regs.pc)
    /\ regs' = [regs EXCEPT !.pc = HandlerAddress]
    /\ idle' = FALSE
    /\ handled' = <<>>
    /\ at' = "execute"
    /\ UNCHANGED <<inputs, aborted, done>>

NoDispatch ==
    /\ at = "dispatch" /\ ~aborted
    /\ ~(ie /\ ~regs.rep /\ ip)
    /\ at' = "execute"
    /\ UNCHANGED <<inputs, regs, stack, ie, ip, idle, aborted, done, handled>>

(***************************************************************************)
(* The environment: an interrupt arrives at the loop's latch, and the host *)
(* ends one Run and starts another.                                        *)
(***************************************************************************)
Raise ==
    /\ at = "execute" /\ raised < MaxInterrupts
    /\ raised' = raised + 1
    /\ ip' = TRUE
    /\ UNCHANGED <<program, regs, stack, ie, idle, at, aborted, done, handled>>

NewRun ==
    /\ at = "execute" /\ idle
    /\ idle' = FALSE
    /\ UNCHANGED <<inputs, regs, stack, ie, ip, at, aborted, done, handled>>

Execute ==
    \/ Work \/ Repeat \/ BlockRepeat \/ Break
    \/ StoreBlockRepeat \/ RestoreBlockRepeat
    \/ Branch \/ Call \/ Push \/ Return
    \/ BranchToItself \/ ReturnFromInterrupt

Run == Execute \/ Dispatch \/ NoDispatch

Next == Run \/ Raise \/ NewRun

(***************************************************************************)
(* The host keeps calling Run, so the loop keeps taking steps.             *)
(***************************************************************************)
Spec == Init /\ [][Next]_vars /\ WF_vars(Run)

-----------------------------------------------------------------------------
(* Every register keeps its range: repc and lc never fall below zero, the   *)
(* nesting counter stays within the stack of four, and lp says exactly     *)
(* whether it is positive.                                                 *)
LoopTypeOK ==
    /\ regs \in [pc : Nat, rep : BOOLEAN, repc : Nat, lp : BOOLEAN,
                 bcn : 0 .. Depth, bkrep_stack : [0 .. Depth - 1 -> Frame]]
    /\ regs.lp <=> regs.bcn # 0
    /\ regs.pc \in DOMAIN program.code
    /\ ie \in BOOLEAN /\ ip \in BOOLEAN /\ idle \in BOOLEAN
    /\ at \in {"execute", "dispatch"} /\ aborted \in BOOLEAN
    /\ raised \in 0 .. MaxInterrupts

(* No ASSERT of BlockRepeat, break_ or RestoreBlockRepeat fails in a       *)
(* program that nests properly, though the handler repeats a block of its  *)
(* own above whatever was interrupted: it saves one level first.           *)
NeverAborts == ~aborted

(* A block of the program, and what bkrepsto saves.                        *)
IsBlock(frame) ==
    /\ frame \in Frame
    /\ frame.start \in DOMAIN program.code
    /\ \E a \in DOMAIN program.code :
        program.code[a].op = "bkrep" /\ frame.end = program.code[a].end
IsSaved(item) ==
    /\ item \in [valid : BOOLEAN, frame : Frame]
    /\ item.valid => IsBlock(item.frame)

(* What an instruction pops is what it takes it for.                       *)
PopsMatch ==
    at = "execute" /\ ~aborted =>
        /\ Operand.op = "bkreprst" => stack # <<>> /\ IsSaved(Last(stack))
        /\ Operand.op \in {"rets", "reti"} => stack # <<>> /\ Last(stack) \in DOMAIN program.code

(* The program does the work its structure says, in that order and no      *)
(* more, wherever interrupts fall; each handler does all of its own; and   *)
(* nobody finds what another left on the stack.                            *)
FollowsProgram ==
    /\ IsPrefix(done, program.trace)
    /\ IsPrefix(handled, program.handler)
    /\ ie => handled \in {<<>>, program.handler}
    /\ PopsMatch

(* When Run skips time because idle is set, the next instruction is the    *)
(* branch to itself: no instruction that does work is waiting.             *)
IdleWaits == idle /\ at = "execute" => program.code[regs.pc].op = "brr"

(* Every program gets through all of its work to its idle loop.            *)
Completes == <>(done = program.trace /\ idle)
=============================================================================
