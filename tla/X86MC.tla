------------------------------- MODULE X86MC --------------------------------
(***************************************************************************)
(* Four registers, small numbers, programs of up to four instructions,     *)
(* every short text and the canonical text of every short program.         *)
(***************************************************************************)
EXTENDS X86

Sizes     == [op |-> 1, r64 |-> 1, imm64 |-> 2]
RegNames  == <<"rax", "rcx", "rbx", "rsp">>
Numerals  == [n \in {"2", "3"} |-> IF n = "2" THEN 2 ELSE 3]

Mov(a, v)     == [op |-> 1, args |-> <<a, v>>]
Imul(a, b, c) == [op |-> 2, args |-> <<a, b, c>>]
Ret           == [op |-> 3, args |-> <<>>]

Imuls == {Imul(a, b, c) : a \in 1..2, b \in 1..2, c \in 1..2}
Built == << {Mov(1, 2), Mov(2, 1), Mov(3, 2), Imul(1, 2, 2), Ret},
            {Mov(2, 3), Mov(1, 3), Imul(2, 1, 1), Imul(3, 3, 2), Ret},
            Imuls \union {Mov(1, 2), Imul(4, 1, 2), Ret},
            {Mov(2, 2), Imul(1, 2, 1), Ret} >>

\* The canonical text of an instruction and of a program.
Operand(type, v) ==
    IF type = "r64" THEN RegNames[v] ELSE CHOOSE n \in DOMAIN Numerals : Numerals[n] = v
Text(instr) ==
    LET types == X86Opcodes[instr.op].args
        operands == [i \in DOMAIN types |-> <<Operand(types[i], instr.args[i])>>]
    IN <<X86Opcodes[instr.op].base>> \o
        (IF types = <<>> THEN <<>>
         ELSE <<SP>> \o FoldLeft(LAMBDA s, o : s \o <<COMMA, SP>> \o o, Head(operands), Tail(operands)))
TextOf(prog) == FlattenSeq([i \in DOMAIN prog |-> Text(prog[i]) \o <<LF>>])

Programs == {<<Mov(a, 2)>> : a \in 1..2} \union {<<Ret>>}
    \union {<<Mov(a, 3), Imul(1, a, b)>> : a \in 1..2, b \in 1..2}
    \union {<<Mov(1, 2), Imul(1, 1, a), Ret>> : a \in 1..2}

SomeFiles ==
    {[text |-> TextOf(p), want |-> p] : p \in Programs} \union
    {[text |-> <<"ret", SP, LF>> \o TextOf(p), want |-> <<Ret>> \o p] : p \in {<<Mov(1, 2)>>, <<Ret>>}} \union
    {[text |-> t, want |-> NULL] :
        t \in BoundedSeq({"ret", "rax", SP, LF, CR, COMMA, HASH, NUL, FF}, 3)} \union
    {[text |-> <<"mov">> \o t, want |-> NULL] :
        t \in BoundedSeq({"rax", "2", SP, LF, COMMA, HASH}, 4)}
=============================================================================
