----------------------------- MODULE Assembler ------------------------------
(***************************************************************************)
(* The generated assembler (gen/data/syntax.c, Syntax.to of gen/gen/ir.py) *)
(* reading a file that io_read (include/io.h) has loaded.                  *)
(*                                                                         *)
(* A text is a sequence of symbols: separators, the byte 0xFF, NUL, and    *)
(* whole words, within which nothing ends.                                 *)
(***************************************************************************)
EXTENDS Bytecode, FiniteSetsExt

CONSTANTS
    Files,          \* the files to assemble: [text, want], want NULL or what is written
    Parse(_, _)     \* the values a type's parser may give for a string, {} to fail

SP == "SP"  LF == "LF"  CR == "CR"  COMMA == ","  HASH == "#"  NUL == "NUL"  FF == "0xFF"

Separators == {SP, LF, CR, COMMA, HASH, NUL, FF}

\* The text from p up to q is a line for the instruction: mnemonic, space,
\* operands with commas between, line feed.  No opcode before its own has as many
\* operands for this mnemonic, and the operands parse to its own.  Without operands
\* the space is needed unless the text ends, for the assembler reads on in the
\* line below.
WrittenLine(text, p, q, instr) ==
    LET types == Opcodes[instr.op].args
        n     == Len(types)
        place(j) == p + 3 * j - 1
    IN /\ instr.op \in DOMAIN Opcodes
       /\ instr = [op |-> instr.op, args |-> [j \in 1..n |-> instr.args[j]]]
       /\ \A o \in 1..instr.op - 1 :
             Opcodes[o].base # Opcodes[instr.op].base \/ Len(Opcodes[o].args) # n
       /\ IF n = 0 THEN \/ q = p + 3 /\ text[p + 1] = SP /\ text[p + 2] = LF
                        \/ q = p + 2 /\ text[p + 1] = LF /\ q = Len(text) + 1
          ELSE q = p + 3 * n + 1 /\ text[p + 1] = SP
       /\ text[p] = Opcodes[instr.op].base /\ text[p] \notin Separators
       /\ \A j \in 1..n : /\ text[place(j)] \notin Separators
                          /\ Parse(types[j], <<text[place(j)]>>) = {instr.args[j]}
                          /\ IF j = n THEN text[place(j) + 1] = LF
                             ELSE text[place(j) + 1] = COMMA /\ text[place(j) + 2] = SP

WrittenFrom(text, prog, at) ==
    /\ at[1] = 1 /\ at[Len(prog) + 1] = Len(text) + 1
    /\ \A k \in 1..Len(prog) : WrittenLine(text, at[k], at[k + 1], prog[k])

Written(text, prog) ==
    /\ prog \in Seq(ToSet(prog)) /\ FF \notin ToSet(text)
    /\ \E at \in [1..Len(prog) + 1 -> 1..Len(text) + 1] : WrittenFrom(text, prog, at)

ASSUME FilesAssumption ==
    \A f \in Files : /\ f.text \in Seq(ToSet(f.text))
                     /\ f.want # NULL => Written(f.text, f.want)

VARIABLES
    pc,             \* where main and the assembler are
    file,           \* the file being assembled, NULL if none is
    buf,            \* the assembler's copy of the text
    read,           \* the index of the next symbol, from 1
    name, argv      \* where the strings of the current line start

asmVars == <<file, buf, read, name, argv>>

MaxArgs == Max({Len(Opcodes[o].args) : o \in DOMAIN Opcodes})

\* The first index from i on at which one of the symbols is, or the one after
\* the text; and the first one at which none of them is.
Until(symbols, i) == Min({j \in i..Len(buf) : buf[j] \in symbols} \union {Len(buf) + 1})
Past(symbols, i)  == Min({j \in i..Len(buf) : buf[j] \notin symbols} \union {Len(buf) + 1})

String(i) == SubSeq(buf, i, Until({NUL}, i) - 1)

AsmInit == /\ \/ pc = "read" /\ file \in Files
              \/ pc = "build" /\ file = NULL
           /\ buf = <<>>
           /\ read = 1
           /\ name = 0
           /\ argv = <<>>

-----------------------------------------------------------------------------
\* io_read takes the byte 0xFF for the end of the file and appends a NUL; the
\* assembler appends another.
FileBytes(text) ==
    LET eof == SelectInSeq(text, LAMBDA c : c = FF)
    IN IF eof = 0 THEN text ELSE SubSeq(text, 1, eof - 1)

Loaded_Once(text) == FileBytes(text) \o <<NUL>>

Loaded(text) == FileBytes(text) \o <<NUL, NUL>>

ReadFile == /\ pc = "read"
            /\ buf' = Loaded(file.text)
            /\ pc' = "line"
            /\ UNCHANGED <<bufferVars, file, read, name, argv>>

CommentEnd_Not(i) == i

CommentEnd(i) == Until({LF}, i)

\* Between lines: blanks, comments, the end of the text or a mnemonic.
Line ==
    LET i == Past({SP, CR, LF}, read)
    IN /\ pc = "line" /\ pending = <<>>
       /\ \/ /\ i <= Len(buf) /\ buf[i] = NUL
             /\ pc' = "assembled"
             /\ read' = i
             /\ UNCHANGED name
          \/ /\ i <= Len(buf) /\ buf[i] = HASH
             /\ read' = CommentEnd(i)
             /\ pc' = IF read' <= Len(buf) THEN "line" ELSE "overrun"
             /\ UNCHANGED name
          \/ /\ i <= Len(buf) /\ buf[i] \notin {NUL, HASH}
             /\ name' = i
             /\ read' = i
             /\ pc' = "name"
          \/ /\ i > Len(buf)
             /\ pc' = "overrun"
             /\ UNCHANGED <<read, name>>
       /\ UNCHANGED <<bufferVars, file, buf, argv>>

\* The mnemonic.  The symbol that ends it, a line feed too, is overwritten.
NameEnds == {SP, CR, LF, NUL}

Name ==
    LET end == Until(NameEnds, read)
    IN /\ pc = "name"
       /\ buf' = [buf EXCEPT ![end] = NUL]
       /\ read' = Past({SP}, end + 1)
       /\ argv' = <<>>
       /\ pc' = IF read' <= Len(buf) THEN "args" ELSE "overrun"
       /\ UNCHANGED <<bufferVars, file, name>>

\* One operand, up to a comma, a comment sign or the end of the line.
OperandEnds_NoLF == {COMMA, HASH, CR, NUL}

OperandEnds == {COMMA, HASH, CR, LF, NUL}

Argument ==
    LET start == Past({SP}, read)
        end   == Until(OperandEnds, start)
    IN /\ pc = "args" /\ buf[read] \notin {CR, LF, NUL}
       /\ Len(argv) < MaxArgs
       /\ argv' = Append(argv, start)
       /\ buf' = [buf EXCEPT ![end] = NUL]
       /\ read' = end + 1
       /\ pc' = IF buf[end] \in {CR, LF, NUL} THEN "match" ELSE "args"
       /\ UNCHANGED <<bufferVars, file, name>>

TooMany == /\ pc = "args" /\ buf[read] \notin {CR, LF, NUL}
           /\ Len(argv) = MaxArgs
           /\ pc' = "fail"
           /\ UNCHANGED <<bufferVars, asmVars>>

EndArgs == /\ pc = "args" /\ buf[read] \in {CR, LF, NUL}
           /\ pc' = "match"
           /\ UNCHANGED <<bufferVars, asmVars>>

\* The opcodes with this mnemonic and number of operands.  The first one is
\* taken, and the line fails if one of its parsers does.
Fitting == {o \in DOMAIN Opcodes : /\ Len(Opcodes[o].args) = Len(argv)
                                   /\ String(name) = <<Opcodes[o].base>>}

Parsed(o) == [i \in DOMAIN argv |-> Parse(Opcodes[o].args[i], String(argv[i]))]

Build == LET o == Min(Fitting)
         IN /\ pc = "match" /\ Fitting # {}
            /\ \E args \in [DOMAIN argv -> UNION ToSet(Parsed(o))] :
                  /\ \A i \in DOMAIN argv : args[i] \in Parsed(o)[i]
                  /\ Call([op |-> o, args |-> args])
            /\ pc' = "line"
            /\ UNCHANGED asmVars

Reject == /\ pc = "match"
          /\ Fitting # {} => {} \in ToSet(Parsed(Min(Fitting)))
          /\ pc' = "fail"
          /\ UNCHANGED <<bufferVars, asmVars>>

Assemble == \/ ReadFile \/ Line \/ Name \/ Argument \/ TooMany \/ EndArgs
            \/ Build \/ Reject
            \/ PushField /\ UNCHANGED <<pc, asmVars>>

-----------------------------------------------------------------------------
\* The comment in which the text stops, if any: its sign is followed by no
\* line feed.
EndsInComment ==
    LET text == Loaded(file.text)
    IN \E i \in DOMAIN text :
          text[i] = HASH /\ \A j \in i..Len(text) : text[j] # LF

\* The two terminators are enough: reading a file that does not end in a
\* comment, the assembler never looks beyond its copy of the text, although it
\* steps over the symbol that ends a mnemonic or an operand, be it a NUL
\* (syntax.c:59-61, 87-88).
NoOverrun == pc = "overrun" => EndsInComment

\* A file written one instruction per line, mnemonic, space, operands with
\* commas between, assembles to those instructions (syntax.c 22-94, ir.py 224-246; file.want,
\* NULL for any other file, see WrittenLine).
RoundTrip ==
    file # NULL /\ file.want # NULL =>
        /\ pc # "fail"
        /\ pc = "assembled" => program = file.want
=============================================================================
