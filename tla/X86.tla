-------------------------------- MODULE X86 ---------------------------------
(***************************************************************************)
(* The machine of test/x86.vmdef, run the way src/x86.c does: a program is *)
(* built by calls or from a file, compiled and run on the processor, then  *)
(* interpreted (gen/data/base/interp.dasc, interp.c).                      *)
(*                                                                         *)
(* A register holds a number or, if nothing of the program wrote it, what  *)
(* happened to be there, which a negative number stands for; NULL is some   *)
(* number computed from such contents.                                     *)
(***************************************************************************)
EXTENDS Assembler, TLC

CONSTANTS
    Registers,      \* the names in reg_names: a register is its index
    Number,         \* the value of each numeral
    Modulus,        \* 2^64 in the code
    Instructions    \* bound on the programs: the choices for each instruction

ASSUME RegistersAssumption == Registers \in Seq(STRING) /\ Registers # <<>>

ASSUME NumbersAssumption ==
    /\ Number \in [DOMAIN Number -> Nat]
    /\ Modulus \in Nat \ {0}

\* NULL is neither a number nor what Fetch returns.
ASSUME NullAssumption ==
    /\ NULL \notin Nat
    /\ NULL \notin [op : Nat, args : Seq(Nat), next : Nat]

\* What the types of a builder's parameters admit.
Typed(instr) ==
    /\ instr \in [op : DOMAIN Opcodes, args : Seq(Nat)]
    /\ Len(instr.args) = Len(Opcodes[instr.op].args)
    /\ \A i \in DOMAIN instr.args :
          Opcodes[instr.op].args[i] = "r64" => instr.args[i] \in DOMAIN Registers

ASSUME InstructionsAssumption ==
    \A i \in DOMAIN Instructions : \A instr \in Instructions[i] : Typed(instr)

VARIABLES
    index,          \* of the compiler's or interpreter's loop
    code,           \* the machine code
    regs,           \* the registers of the processor or of the interpreter
    result          \* what the compiled function and the interpreter returned

runVars == <<index, code, regs, result>>
vars == <<bufferVars, pc, asmVars, runVars>>

X86Opcodes == << [base |-> "mov",  args |-> <<"r64", "imm64">>],
                 [base |-> "imul", args |-> <<"r64", "r64", "r64">>],
                 [base |-> "ret",  args |-> <<>>] >>

\* A register parses if the whole string is its name.  sscanf ignores what
\* follows a numeral, and on an empty string it stores nothing yet does not
\* return 0: the operand is whatever the variable held.
X86Parse(type, string) ==
    IF type = "r64" THEN {r \in DOMAIN Registers : string = <<Registers[r]>>}
    ELSE IF string = <<>> THEN {Number[n] : n \in DOMAIN Number}
    ELSE {Number[n] : n \in {string[1]} \intersect DOMAIN Number}

RAX == 1
Fresh == [r \in DOMAIN Registers |-> -r]

\* What a caller relies on after a call (the System V convention): the emitted
\* code has no prologue that would save any of these.
CalleeSaved == {r \in DOMAIN Registers :
                  Registers[r] \in {"rbx", "rsp", "rbp", "r12", "r13", "r14", "r15"}}
Intact(r) == \A s \in CalleeSaved : r[s] = Fresh[s]

Product(x, y) == IF {x, y} \subseteq Nat THEN (x * y) % Modulus
                 ELSE CASE x = 1 -> y
                        [] y = 1 -> x
                        [] 0 \in {x, y} -> 0
                        [] OTHER -> NULL

\* What a caller finds where a function leaves a value: any number, if the
\* program did not compute it.
Outcomes(v) == IF v \in Nat THEN {v} ELSE {Number[n] : n \in DOMAIN Number}

Base(instr) == Opcodes[instr.op].base

\* One case of the interpreter's switch.
Effect(x, r) ==
    IF Base(x) = "ret" THEN r
    ELSE [r EXCEPT ![x.args[1]] = IF Base(x) = "mov" THEN x.args[2]
                                  ELSE Product(r[x.args[2]], r[x.args[3]])]

Init == /\ BufferInit
        /\ AsmInit
        /\ index = 0
        /\ code = <<>>
        /\ regs = Fresh
        /\ result = [jit |-> NULL, int |-> NULL]

-----------------------------------------------------------------------------
\* main calls the builders.
CallBuilder == /\ pc = "build" /\ pending = <<>>
               /\ Len(program) + 1 \in DOMAIN Instructions
               /\ \E instr \in Instructions[Len(program) + 1] : Call(instr)
               /\ UNCHANGED <<pc, asmVars, runVars>>

StartJit == /\ pc \in {"build", "assembled"} /\ pending = <<>>
            /\ pc' = "jit"
            /\ UNCHANGED <<bufferVars, asmVars, runVars>>

\* An interpreter that meets something else than an instruction has no
\* defined behaviour.
Lost == /\ pc \in {"jit", "int"} /\ index < ctx.len
        /\ Fetch(index) = NULL
        /\ pc' = "undefined"
        /\ UNCHANGED <<bufferVars, asmVars, runVars>>

\* The machine code of an instruction: imul has two operands there.
Emitted_Swapped(instr) ==
    LET a == instr.args
    IN CASE Base(instr) = "mov"  -> <<[op |-> "mov64", to |-> a[1], from |-> a[2]]>>
         [] Base(instr) = "imul" -> <<[op |-> "mov",  to |-> a[1], from |-> a[3]],
                                      [op |-> "imul", to |-> a[1], from |-> a[2]]>>
         [] Base(instr) = "ret"  -> <<[op |-> "ret"]>>

Emitted(instr) ==
    LET a == instr.args
    IN CASE Base(instr) = "mov"  -> <<[op |-> "mov64", to |-> a[1], from |-> a[2]]>>
         [] Base(instr) = "imul" -> <<[op |-> "mov",  to |-> a[1], from |-> a[2]],
                                      [op |-> "imul", to |-> a[1], from |-> a[3]]>>
         [] Base(instr) = "ret"  -> <<[op |-> "ret"]>>

Compile == LET instr == Fetch(index)
           IN /\ pc = "jit" /\ index < ctx.len /\ instr # NULL
              /\ code' = code \o Emitted(instr)
              /\ index' = instr.next
              /\ UNCHANGED <<bufferVars, pc, asmVars, regs, result>>

\* The code is linked, made executable and called; index is the processor's
\* program counter from now on.
Export == /\ pc = "jit" /\ index >= ctx.len
          /\ pc' = "cpu"
          /\ index' = 1
          /\ regs' = Fresh
          /\ UNCHANGED <<bufferVars, asmVars, code, result>>

\* The processor, which runs off the code if nothing returns, and returns to
\* nowhere, or into a caller whose registers are gone, if the code wrote one
\* that it had to keep.
Execute == LET instr == code[index]
           IN /\ pc = "cpu" /\ index <= Len(code)
              /\ instr.op # "ret"
              /\ regs' = [regs EXCEPT ![instr.to] =
                            CASE instr.op = "mov64" -> instr.from
                              [] instr.op = "mov"   -> regs[instr.from]
                              [] instr.op = "imul"  -> Product(@, regs[instr.from])]
              /\ index' = index + 1
              /\ UNCHANGED <<bufferVars, pc, asmVars, code, result>>

Crash == /\ pc = "cpu"
         /\ \/ index > Len(code)
            \/ index <= Len(code) /\ code[index].op = "ret" /\ ~Intact(regs)
         /\ pc' = "undefined"
         /\ UNCHANGED <<bufferVars, asmVars, runVars>>

Leave == /\ pc = "cpu" /\ index <= Len(code) /\ code[index].op = "ret"
         /\ Intact(regs)
         /\ \E v \in Outcomes(regs[RAX]) : result' = [result EXCEPT !.jit = v]
         /\ pc' = "int"
         /\ index' = 0
         /\ regs' = Fresh
         /\ UNCHANGED <<bufferVars, asmVars, code>>

\* The interpreter, whose registers are uninitialized too.  It never reaches the
\* end of the buffer: the processor would have run off the code before.
Interpret == LET instr == Fetch(index)
             IN /\ pc = "int" /\ index < ctx.len /\ instr # NULL /\ Base(instr) # "ret"
                /\ regs' = Effect(instr, regs)
                /\ index' = instr.next
                /\ UNCHANGED <<bufferVars, pc, asmVars, code, result>>

Return == LET instr == Fetch(index)
          IN /\ pc = "int" /\ index < ctx.len /\ instr # NULL /\ Base(instr) = "ret"
             /\ \E v \in Outcomes(regs[RAX]) : result' = [result EXCEPT !.int = v]
             /\ pc' = "done"
             /\ UNCHANGED <<bufferVars, asmVars, index, code, regs>>

Next == \/ Assemble /\ UNCHANGED runVars
        \/ CallBuilder \/ StartJit \/ Lost
        \/ Compile \/ Export \/ Execute \/ Crash \/ Leave
        \/ Interpret \/ Return

Spec == Init /\ [][Next]_vars
FairSpec == Spec /\ WF_vars(Next)

-----------------------------------------------------------------------------
\* What a program means by itself: the registers when each instruction is
\* reached, and when the first ret is.
Reached(prog) ==
    LET at[k \in 1..Len(prog) + 1] ==
          IF k = 1 THEN Fresh ELSE Effect(prog[k - 1], at[k - 1])
    IN at
Returns(prog) == {k \in 1..Len(prog) : Base(prog[k]) = "ret"}
Final(prog) == Reached(prog)[Min(Returns(prog))]

\* imul a, b, a as the compiler has it: the move that it emits first destroys
\* the operand, so b is multiplied by itself.
TwoOperand(x) ==
    IF Base(x) = "imul" /\ x.args[1] = x.args[3]
    THEN [x EXCEPT !.args = <<@[1], @[2], @[2]>>] ELSE x
AsCompiled(prog) == [k \in 1..Len(prog) |-> TwoOperand(prog[k])]

Gives(prog, value) == Final(prog)[RAX] \in Nat => value = Final(prog)[RAX]

\* Of a program that computes what it returns, the interpreter returns just that,
\* and so does the compiled code, if for every imul a, b, a one reads
\* imul a, b, b; both are then the same for a program without such an imul.  And
\* the compiled code returns to an intact caller exactly if the program has a ret
\* and leaves there every register alone that a callee has to save: nothing but
\* instructions is read, nothing runs off the code (x86.vmdef:19-29, 44-55,
\* interp.dasc, jitlib.dash:47-57).  Nothing is said of a program that was cut off
\* when memory was exhausted.
BackendsAgree ==
    LET compiled == AsCompiled(program)
    IN ~failed =>
         /\ pc = "done" => /\ Gives(program, result.int)
                           /\ Gives(compiled, result.jit)
                           /\ Intact(Final(compiled))
         /\ pc = "undefined" => Returns(program) = {} \/ ~Intact(Final(compiled))

\* Whatever the text or the program, main comes to an end: each scan of the
\* assembler goes on, and so do the compiler, the processor and the interpreter.
MainEnds == <>(pc \in {"fail", "overrun", "done", "undefined"})

=============================================================================
