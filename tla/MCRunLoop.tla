----------------------------- MODULE MCRunLoop -----------------------------
(***************************************************************************)
(* RunLoop on programs assembled from nested statements: work, a repeated  *)
(* instruction, a block repeat around a body, a break, a branch over the   *)
(* next statement, a call of the subroutine with its argument.  As the     *)
(* code demands, a body ends in an instruction that is no block, so no two *)
(* blocks end at one address.                                              *)
(***************************************************************************)
EXTENDS RunLoop

W       == [kind |-> "work"]
B       == [kind |-> "break"]
Rep(n)  == [kind |-> "rep", count |-> n]
Call1   == [kind |-> "call"]
Over(taken) == [kind |-> "over", taken |-> taken]
Loop(n, body) == [kind |-> "loop", count |-> n, body |-> body]

Op(op) == [op |-> op, count |-> 0, end |-> 0]

MCHandlerAddress == 6
MCStart == 32
Subroutine == 64

(* The instructions of a block placed at an address, as a sequence.        *)
RECURSIVE Assembled(_, _)
Assembled(block, address) ==
    IF block = <<>> THEN <<>>
    ELSE LET s == Head(block)
             next == Assembled(<<block[2]>>, address + 1)
             first ==
                CASE s.kind = "rep" -> <<[Op("rep") EXCEPT !.count = s.count], Op("work")>>
                  [] s.kind = "loop" ->
                        LET body == Assembled(s.body, address + 1)
                        IN  <<[op |-> "bkrep", count |-> s.count,
                               end |-> address + Len(body)]>> \o body
                  [] s.kind = "over" ->
                        <<[op |-> "br", taken |-> s.taken, target |-> address + 1 + Len(next)]>>
                  [] s.kind = "call" -> <<Op("push"), [op |-> "call", target |-> Subroutine]>>
                  [] OTHER -> <<Op(s.kind)>>
         IN  first \o Assembled(Tail(block), address + Len(first))

Times(n, s) == FlattenSeq([i \in 1 .. n |-> s])

(* The work a block should do, with that of the subroutine: a loop of      *)
(* count n runs its body n + 1 times unless a break makes the first time   *)
(* the last.                                                               *)
RECURSIVE Expected(_, _, _)
Expected(block, address, sub) ==
    IF block = <<>> THEN <<>>
    ELSE LET s == Head(block)
             size == Len(Assembled(<<s>>, address))
             first ==
                CASE s.kind = "work" -> <<address>>
                  [] s.kind = "rep" -> Times(s.count + 1, <<address + 1>>)
                  [] s.kind \in {"break", "over"} -> <<>>
                  [] s.kind = "call" -> sub
                  [] s.kind = "loop" ->
                        LET body == Expected(s.body, address + 1, sub)
                        IN  IF Contains(s.body, B) THEN body
                            ELSE Times(s.count + 1, body)
         IN  IF s.kind = "over"
             THEN LET passed == Expected(<<block[2]>>, address + 1, sub)
                      behind == address + 1 + Len(Assembled(<<block[2]>>, address + 1))
                  IN  (IF s.taken THEN <<>> ELSE passed)
                        \o Expected(Tail(Tail(block)), behind, sub)
             ELSE first \o Expected(Tail(block), address + size, sub)

At(address, s) == [a \in address .. address + Len(s) - 1 |-> s[a - address + 1]]

(* A handler that saves some levels of blocks, and the work it should do.  *)
Saving(levels, body, sub) ==
    [code |-> [i \in 1 .. levels |-> Op("bkrepsto")]
              \o Assembled(body, MCHandlerAddress + levels)
              \o [i \in 1 .. levels |-> Op("bkreprst")] \o <<Op("reti")>>,
     trace |-> Expected(body, MCHandlerAddress + levels, sub)]

(* The block and the handler call one subroutine, with one argument.       *)
Program(block, levels, body, callee) ==
    LET sub     == Expected(callee, Subroutine, <<>>)
        handler == Saving(levels, body, sub)
    IN  [start   |-> MCStart,
         trace   |-> Expected(block, MCStart, sub),
         handler |-> handler.trace,
         code    |-> At(MCHandlerAddress, handler.code)
                     @@ At(MCStart, Assembled(block, MCStart) \o <<Op("brr")>>)
                     @@ At(Subroutine, Assembled(callee, Subroutine)
                                        \o <<[Op("rets") EXCEPT !.count = 1]>>)]

Handlers == {<<0, <<Rep(1)>>>>,
             <<1, <<W, Loop(1, <<Rep(1)>>)>>>>,
             <<2, <<Loop(1, <<Loop(1, <<W>>), W>>)>>>>}

Simple  == {W, Rep(1)}
Bodies  == {<<s>> : s \in Simple} \cup {<<B, s>> : s \in Simple}
Inner   == {Loop(n, b) : n \in 0 .. 1, b \in Bodies}
Outer   == {Loop(1, <<s, W>>) : s \in Inner} \cup {Loop(1, <<B, s, W>>) : s \in Inner}
Deepest == Loop(1, <<Loop(0, <<Loop(1, <<Loop(1, <<W>>), W>>), W>>), Rep(1)>>)
Blocks  == {<<s, t>> : s \in Inner, t \in Inner} \cup {<<W, s>> : s \in Outer}
           \cup {<<Deepest, Rep(2)>>}

(* Bodies that end in a call, that a branch leaves after a break, or that  *)
(* branch over a call.                                                     *)
Calling == {Loop(1, <<W, Call1>>), Loop(1, <<Call1, Loop(1, <<Call1>>), W>>),
            Loop(1, <<B, Over(TRUE), Call1>>)}
           \cup {Loop(1, <<W, Over(taken), Call1, W>>) : taken \in BOOLEAN}
Callees == {<<W>>, <<Loop(1, <<Rep(1)>>)>>, <<Loop(2, <<B, Over(TRUE), W>>), W>>}

MCPrograms ==
    {Program(b, h[1], h[2], <<W>>) : b \in Blocks, h \in Handlers}
    \cup {Program(<<s, W>>, 1, h, c) : s \in Calling, h \in {<<W>>, <<Call1>>}, c \in Callees}
=============================================================================
