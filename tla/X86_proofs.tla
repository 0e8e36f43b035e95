----------------------------- MODULE X86_proofs -----------------------------
(***************************************************************************)
(* Theorems about the bytecode buffer and the assembler, for any opcodes,  *)
(* field sizes, parsers, files and programs; and about the compiler and    *)
(* the interpreter of test/x86.vmdef, for any sizes, registers and         *)
(* programs.                                                               *)
(***************************************************************************)
EXTENDS X86, SequenceTheorems, WellFoundedInduction, TLAPS

-----------------------------------------------------------------------------
\* Searching a text.

LEMMA MinOfNats ==
  ASSUME NEW S \in SUBSET Nat, S # {}
  PROVE  Min(S) \in S /\ \A x \in S : Min(S) <= x
  <1>1. \E x \in S : \A y \in S : ~ <<y, x>> \in OpToRel(<, Nat)
    BY NatLessThanWellFounded, WFMin
  <1>2. \E x \in S : \A y \in S : x <= y
    <2>1. PICK x \in S : \A y \in S : ~ <<y, x>> \in OpToRel(<, Nat)
      BY <1>1
    <2>2. ASSUME NEW y \in S PROVE x <= y
      <3>1. x \in Nat /\ y \in Nat
        OBVIOUS
      <3>2. ~(y < x)
        BY <2>1, <3>1 DEF OpToRel
      <3> QED
        BY <3>1, <3>2
    <2> QED
      BY <2>2
  <1> QED
    BY <1>2 DEF Min

\* Until and Past return the first index, from i on, that qualifies.
LEMMA Searches ==
  ASSUME NEW T, buf \in Seq(T), NEW symbols, NEW i \in 1..Len(buf)
  PROVE  /\ Until(symbols, i) \in i..Len(buf) + 1
         /\ Until(symbols, i) <= Len(buf) => buf[Until(symbols, i)] \in symbols
         /\ \A j \in i..Len(buf) : buf[j] \in symbols => Until(symbols, i) <= j
         /\ Past(symbols, i) \in i..Len(buf) + 1
         /\ Past(symbols, i) <= Len(buf) => buf[Past(symbols, i)] \notin symbols
         /\ \A j \in i..Len(buf) : buf[j] \notin symbols => Past(symbols, i) <= j
  <1> DEFINE U == {j \in i..Len(buf) : buf[j] \in symbols} \union {Len(buf) + 1}
             P == {j \in i..Len(buf) : buf[j] \notin symbols} \union {Len(buf) + 1}
  <1>1. Len(buf) \in Nat /\ i \in Nat
    OBVIOUS
  <1>2. U \in SUBSET Nat /\ U # {} /\ P \in SUBSET Nat /\ P # {}
    BY <1>1
  <1>3. Min(U) \in U /\ (\A x \in U : Min(U) <= x) /\ Min(P) \in P /\ \A x \in P : Min(P) <= x
    <2> HIDE DEF U, P
    <2> QED
      BY <1>2, MinOfNats
  <1>4. Until(symbols, i) = Min(U) /\ Past(symbols, i) = Min(P)
    BY DEF Until, Past
  <1> QED
    BY <1>1, <1>3, <1>4

\* What was loaded ends in two NULs.
LEMMA Terminated ==
  ASSUME NEW T, NEW text \in Seq(T)
  PROVE  /\ Loaded(text) \in Seq(T \union {NUL})
         /\ Len(Loaded(text)) \in Nat /\ Len(Loaded(text)) >= 2
         /\ Loaded(text)[Len(Loaded(text))] = NUL
         /\ Loaded(text)[Len(Loaded(text)) - 1] = NUL
  <1> DEFINE eof == SelectInSeq(text, LAMBDA c : c = FF)
             S == T \union {NUL}
  <1>1. eof \in 0..Len(text)
    <2> DEFINE I == {i \in 1..Len(text) : text[i] = FF}
    <2>1. I \in SUBSET Nat
      OBVIOUS
    <2>2. I # {} => Min(I) \in I
      BY <2>1, MinOfNats
    <2>3. eof = IF I # {} THEN Min(I) ELSE 0
      BY DEF SelectInSeq
    <2> QED
      BY <2>2, <2>3
  <1>2. FileBytes(text) \in Seq(T)
    <2>1. FileBytes(text) = IF eof = 0 THEN text ELSE SubSeq(text, 1, eof - 1)
      BY DEF FileBytes
    <2>2. eof # 0 => SubSeq(text, 1, eof - 1) \in Seq(T)
      <3> HIDE DEF eof
      <3> QED
        BY <1>1
    <2> QED
      BY <2>1, <2>2
  <1>3. NUL \in S /\ FileBytes(text) \in Seq(S)
    BY <1>2, SeqMonotonic
  <1> HIDE DEF S
  <1>4. <<NUL, NUL>> \in Seq(S) /\ Len(<<NUL, NUL>>) = 2
    BY <1>3
  <1>5. PICK f \in Seq(S) : f = FileBytes(text)
    BY <1>3
  <1>6. Loaded(text) = f \o <<NUL, NUL>>
    BY <1>5 DEF Loaded
  <1>7. /\ f \o <<NUL, NUL>> \in Seq(S)
        /\ Len(f \o <<NUL, NUL>>) = Len(f) + 2
        /\ Len(f) \in Nat
        /\ \A i \in 1..Len(f) + 2 :
              (f \o <<NUL, NUL>>)[i] = IF i <= Len(f) THEN f[i] ELSE <<NUL, NUL>>[i - Len(f)]
    BY <1>4, ConcatProperties
  <1>8. (f \o <<NUL, NUL>>)[Len(f) + 1] = NUL /\ (f \o <<NUL, NUL>>)[Len(f) + 2] = NUL
    BY <1>7
  <1> QED
    BY <1>6, <1>7, <1>8 DEF S

-----------------------------------------------------------------------------
\* The buffer.

\* What a builder still has to push are fields, of some values V.
FieldsOf(V) == Seq([type : DOMAIN Size, val : V])
PendingOK == \E V : pending \in FieldsOf(V)

\* An instruction whose operands match its opcode's arguments.
WellFormed(instr) ==
    /\ instr.op \in DOMAIN Opcodes
    /\ Len(instr.args) = Len(Opcodes[instr.op].args)

LEMMA OpcodeTypes ==
  ASSUME NEW o \in DOMAIN Opcodes
  PROVE  /\ Opcodes[o].args \in Seq(DOMAIN Size)
         /\ Len(Opcodes[o].args) \in Nat
         /\ \A i \in 1..Len(Opcodes[o].args) : Opcodes[o].args[i] \in DOMAIN Size
         /\ o \in Nat
  <1> DEFINE R == [base : STRING, args : Seq(DOMAIN Size)]
  <1>1. Opcodes \in Seq(R)
    BY OpcodesAssumption
  <1>2. o \in 1..Len(Opcodes) /\ Len(Opcodes) \in Nat /\ Opcodes[o] \in R
    <2> HIDE DEF R
    <2> QED
      BY <1>1, LenProperties, ElementOfSeq
  <1> QED
    BY <1>2

LEMMA CallTypes ==
  ASSUME NEW instr, WellFormed(instr), Call(instr)
  PROVE  PendingOK'
  <1> DEFINE n == Len(instr.args)
             V == {instr.op} \union {instr.args[i] : i \in 1..n}
             F == [type : DOMAIN Size, val : V]
             operands == [i \in 1..n |->
                            [type |-> Opcodes[instr.op].args[i], val |-> instr.args[i]]]
  <1>1. n \in Nat /\ \A i \in 1..n : Opcodes[instr.op].args[i] \in DOMAIN Size
    BY OpcodeTypes DEF WellFormed
  <1>2. [type |-> "op", val |-> instr.op] \in F
    BY SizeAssumption
  <1>3. \A i \in 1..n : [type |-> Opcodes[instr.op].args[i], val |-> instr.args[i]] \in F
    BY <1>1
  <1>4. operands \in Seq(F)
    <2> HIDE DEF F, n
    <2> QED
      BY <1>1, <1>3, IsASeq
  <1>5. <<[type |-> "op", val |-> instr.op]>> \in Seq(F)
    <2> HIDE DEF F
    <2> QED
      BY <1>2
  <1>6. Fields(instr) \in Seq(F)
    <2>1. Fields(instr) = <<[type |-> "op", val |-> instr.op]>> \o operands
      BY DEF Fields
    <2> HIDE DEF F, operands
    <2> QED
      BY <1>4, <1>5, <2>1, ConcatProperties
  <1>7. pending' = Fields(instr)
    BY DEF Call
  <1>8. pending' \in FieldsOf(V)
    BY <1>6, <1>7 DEF FieldsOf
  <1> QED
    BY <1>8 DEF PendingOK

\* A push keeps len within alloc, whether mem is large enough, is enlarged or
\* is lost.
LEMMA PushKeeps ==
  ASSUME BufferOK, PendingOK, PushField
  PROVE  BufferOK' /\ PendingOK'
  <1>1. PICK V : pending \in FieldsOf(V)
    BY DEF PendingOK
  <1> DEFINE field == Head(pending)
  <1>2. field \in [type : DOMAIN Size, val : V] /\ pending' \in FieldsOf(V)
    <2> DEFINE F == [type : DOMAIN Size, val : V]
    <2>1. pending \in Seq(F) /\ pending # <<>> /\ pending' = Tail(pending)
      BY <1>1 DEF PushField, FieldsOf
    <2>2. Head(pending) \in F /\ Tail(pending) \in Seq(F)
      <3> HIDE DEF F
      <3> QED
        BY <2>1
    <2> QED
      BY <2>1, <2>2 DEF FieldsOf
  <1>3. Size[field.type] \in Nat \ {0}
    BY <1>2, SizeAssumption
  <1>4. PICK bytes : bytes = Bytes(field)
    OBVIOUS
  <1>5. Len(bytes) \in Nat \ {0}
    <2>1. DOMAIN bytes = 1..Size[field.type]
      BY <1>4 DEF Bytes
    <2>2. bytes \in [1..Size[field.type] -> {bytes[i] : i \in 1..Size[field.type]}]
      BY <1>4, <2>1 DEF Bytes
    <2> QED
      BY <1>3, <2>2
  <1>6. Push(bytes)
    BY <1>4 DEF PushField
  <1> DEFINE end == ctx.len + Len(bytes)
  <1>7. /\ DOMAIN ctx = {"len", "alloc", "mem"} /\ ctx.len \in Nat /\ ctx.alloc \in Nat
        /\ ctx = Empty \/ (ctx.len <= ctx.alloc /\ DOMAIN ctx.mem = 1..ctx.alloc)
        /\ failed \in BOOLEAN
    BY DEF BufferOK
  <1>8. end \in Nat
    BY <1>5, <1>7
  <1>9. CASE ~TooSmall(Len(bytes))
    <2>1. /\ ctx' = [ctx EXCEPT !.len = end, !.mem = Copied(@, bytes)]
          /\ failed' = failed
      BY <1>6, <1>9 DEF Push
    <2>2. end < ctx.alloc /\ ctx.mem # NULL
      BY <1>5, <1>7, <1>9 DEF TooSmall
    <2>3. DOMAIN ctx.mem = 1..ctx.alloc
      BY <1>7, <2>2 DEF Empty
    <2>4. /\ ctx'.len = end /\ ctx'.alloc = ctx.alloc /\ ctx'.mem = Copied(ctx.mem, bytes)
          /\ DOMAIN ctx' = {"len", "alloc", "mem"}
      BY <1>7, <2>1
    <2>5. DOMAIN ctx'.mem = 1..ctx.alloc
      BY <2>3, <2>4 DEF Copied
    <2> QED
      BY <1>1, <1>2, <1>7, <1>8, <2>1, <2>2, <2>4, <2>5 DEF BufferOK, PendingOK
  <1>10. CASE failed' = failed /\
              ctx' = [len |-> end, alloc |-> 2 * end, mem |-> Copied(Grown(2 * end), bytes)]
    <2>1. DOMAIN ctx'.mem = 1..(2 * end)
      BY <1>10 DEF Copied, Grown
    <2> QED
      BY <1>2, <1>7, <1>8, <1>10, <2>1 DEF BufferOK, PendingOK
  <1>11. CASE ctx' = Empty /\ failed' = TRUE
    BY <1>2, <1>11 DEF BufferOK, PendingOK, Empty
  <1> QED
    BY <1>6, <1>9, <1>10, <1>11 DEF Push

-----------------------------------------------------------------------------
\* The assembler.

Symbols == ToSet(file.text) \union {NUL}

\* What has not been read yet is as it was loaded: the NULs that the assembler
\* writes are behind it.
TextOK ==
    /\ file \in Files
    /\ buf \in Seq(Symbols)
    /\ Len(buf) = Len(Loaded(file.text))
    /\ read \in 1..Len(buf)
    /\ \A j \in read..Len(buf) : buf[j] = Loaded(file.text)[j]

Scanning == {"line", "name", "args", "match"}

AsmInv ==
    /\ argv \in Seq(Nat)
    /\ pc = "read" => file \in Files /\ read = 1
    /\ pc \in Scanning => TextOK
    /\ pc = "name" => buf[read] \notin {SP, CR, LF, NUL}
    /\ NoOverrun

IInv == BufferOK /\ PendingOK /\ AsmInv

\* The unread text ends in NUL, and in two if it is longer than that.
LEMMA TextEnds ==
  ASSUME TextOK
  PROVE  /\ Len(buf) \in Nat /\ Len(buf) >= 2
         /\ buf[Len(buf)] = NUL
         /\ read < Len(buf) => buf[Len(buf) - 1] = NUL
  <1> DEFINE T == ToSet(file.text)
             text == Loaded(file.text)
  <1>1. file.text \in Seq(T)
    BY FilesAssumption DEF TextOK
  <1>2. /\ Len(text) \in Nat /\ Len(text) >= 2
        /\ text[Len(text)] = NUL /\ text[Len(text) - 1] = NUL
    <2> HIDE DEF T
    <2> QED
      BY <1>1, Terminated
  <1> HIDE DEF text
  <1>3. /\ Len(buf) = Len(text) /\ read \in 1..Len(buf)
        /\ \A j \in read..Len(buf) : buf[j] = text[j]
    BY DEF TextOK, text
  <1> QED
    BY <1>2, <1>3

\* Reading on, and writing NULs behind, keeps the text as it was loaded.
LEMMA ReadsOn ==
  ASSUME TextOK, file' = file, read' \in read..Len(buf),
         \/ buf' = buf
         \/ \E i \in read..Len(buf) : i < read' /\ buf' = [buf EXCEPT ![i] = NUL]
  PROVE  TextOK'
  <1> DEFINE text == Loaded(file.text)
  <1>1. /\ file \in Files /\ buf \in Seq(Symbols) /\ Len(buf) = Len(text)
        /\ read \in 1..Len(buf) /\ Len(buf) \in Nat
        /\ \A j \in read..Len(buf) : buf[j] = text[j]
    BY DEF TextOK
  <1>2. file' \in Files /\ Symbols' = Symbols /\ text' = text
    BY <1>1 DEF Symbols
  <1> HIDE DEF text
  <1>3. CASE buf' = buf
    BY <1>1, <1>2, <1>3 DEF TextOK, text
  <1>4. ASSUME NEW i \in read..Len(buf), i < read', buf' = [buf EXCEPT ![i] = NUL]
        PROVE  TextOK'
    <2>1. i \in 1..Len(buf) /\ NUL \in Symbols
      BY <1>1 DEF Symbols
    <2>2. /\ buf' \in Seq(Symbols) /\ Len(buf') = Len(buf)
          /\ \A j \in 1..Len(buf) : buf'[j] = IF j = i THEN NUL ELSE buf[j]
      BY <1>1, <1>4, <2>1, ExceptSeq
    <2>3. \A j \in read'..Len(buf) : buf'[j] = text[j]
      BY <1>1, <1>4, <2>2
    <2> QED
      BY <1>1, <1>2, <2>2, <2>3 DEF TextOK, text
  <1> QED
    BY <1>3, <1>4

LEMMA LineSafe ==
  ASSUME AsmInv, Line
  PROVE  AsmInv'
  <1> DEFINE i == Past({SP, CR, LF}, read)
             text == Loaded(file.text)
  <1>1. TextOK /\ buf \in Seq(Symbols) /\ read \in 1..Len(buf)
    BY DEF AsmInv, Line, Scanning, TextOK
  <1>2. Len(buf) \in Nat /\ Len(buf) >= 2 /\ buf[Len(buf)] = NUL
    BY <1>1, TextEnds
  <1>3. i \in read..Len(buf)
    <2>1. buf[Len(buf)] \notin {SP, CR, LF}
      BY <1>2 DEF NUL, SP, CR, LF
    <2>2. i <= Len(buf)
      BY <1>1, <1>2, <2>1, Searches
    <2> QED
      BY <1>1, <1>2, <2>2, Searches
  <1>4. i \in 1..Len(buf) /\ buf[i] \notin {SP, CR, LF}
    BY <1>1, <1>2, <1>3, Searches
  <1>5. UNCHANGED <<file, buf, argv>> /\ pc = "line"
    BY DEF Line
  <1>6. argv' \in Seq(Nat)
    BY <1>5 DEF AsmInv
  <1> HIDE DEF i, text
  <1>7. CASE buf[i] = NUL /\ pc' = "assembled"
    BY <1>6, <1>7 DEF AsmInv, Scanning, NoOverrun
  <1>8. CASE buf[i] = HASH /\ read' = Until({LF}, i)
             /\ pc' = IF read' <= Len(buf) THEN "line" ELSE "overrun"
    <2>1. /\ read' \in i..Len(buf) + 1
          /\ \A j \in i..Len(buf) : buf[j] \in {LF} => read' <= j
      BY <1>1, <1>4, <1>8, Searches
    <2>2. CASE read' <= Len(buf)
      <3>1. TextOK'
        BY <1>1, <1>2, <1>3, <1>5, <2>1, <2>2, ReadsOn
      <3> QED
        BY <1>6, <1>8, <2>2, <3>1 DEF AsmInv, NoOverrun
    <2>3. CASE ~(read' <= Len(buf))
      <3>1. /\ Len(buf) = Len(text) /\ text = Loaded(file.text)
            /\ \A j \in read..Len(buf) : buf[j] = text[j]
        BY <1>1 DEF TextOK, text
      <3>2. text[i] = HASH
        BY <1>3, <1>8, <3>1
      <3>3. \A j \in i..Len(text) : text[j] # LF
        <4> SUFFICES ASSUME NEW j \in i..Len(text), text[j] = LF PROVE FALSE
          OBVIOUS
        <4>1. j \in read..Len(buf) /\ j \in i..Len(buf)
          BY <1>1, <1>3, <3>1
        <4>2. read' <= j
          BY <2>1, <3>1, <4>1
        <4> QED
          BY <1>2, <2>1, <2>3, <4>1, <4>2
      <3>4. DOMAIN text = 1..Len(text)
        <4>1. file.text \in Seq(ToSet(file.text))
          BY <1>1, FilesAssumption DEF TextOK
        <4>2. Loaded(file.text) \in Seq(ToSet(file.text) \union {NUL})
          BY <4>1, Terminated
        <4> QED
          BY <3>1, <4>2, LenProperties
      <3>5. EndsInComment
        BY <1>4, <3>1, <3>2, <3>3, <3>4 DEF EndsInComment
      <3>6. EndsInComment'
        BY <1>5, <3>5 DEF EndsInComment
      <3> QED
        BY <1>6, <1>8, <2>3, <3>6 DEF AsmInv, NoOverrun, Scanning
    <2> QED
      BY <2>2, <2>3
  <1>9. CASE buf[i] \notin {NUL, HASH} /\ read' = i /\ pc' = "name"
    <2>1. TextOK'
      BY <1>1, <1>3, <1>5, <1>9, ReadsOn
    <2>2. buf'[read'] \notin {SP, CR, LF, NUL}
      BY <1>4, <1>5, <1>9
    <2> QED
      BY <1>6, <1>9, <2>1, <2>2 DEF AsmInv, NoOverrun
  <1> QED
    BY <1>2, <1>3, <1>7, <1>8, <1>9 DEF Line, CommentEnd, i

LEMMA NameSafe ==
  ASSUME AsmInv, Name
  PROVE  AsmInv'
  <1> DEFINE end == Until(NameEnds, read)
  <1>1. /\ TextOK /\ buf \in Seq(Symbols) /\ read \in 1..Len(buf)
        /\ buf[read] \notin {SP, CR, LF, NUL}
    BY DEF AsmInv, Name, Scanning, TextOK
  <1>2. /\ Len(buf) \in Nat /\ Len(buf) >= 2 /\ buf[Len(buf)] = NUL
        /\ read < Len(buf) => buf[Len(buf) - 1] = NUL
    BY <1>1, TextEnds
  <1>3. end \in read..Len(buf) - 1
    <2>1. read < Len(buf) - 1
      BY <1>1, <1>2
    <2>2. Len(buf) - 1 \in read..Len(buf) /\ buf[Len(buf) - 1] \in NameEnds
      BY <1>1, <1>2, <2>1 DEF NameEnds
    <2> QED
      BY <1>1, <1>2, <2>2, Searches
  <1>4. Past({SP}, end + 1) \in end + 1..Len(buf)
    <2>1. end + 1 \in 1..Len(buf) /\ Len(buf) \in end + 1..Len(buf)
      BY <1>1, <1>2, <1>3
    <2>2. buf[Len(buf)] \notin {SP}
      BY <1>2 DEF NUL, SP
    <2> HIDE DEF end
    <2> QED
      BY <1>1, <1>2, <2>1, <2>2, Searches
  <1> HIDE DEF end
  <1>5. Past({SP}, end + 1)  = read'
    BY <1>4 DEF Name, end
  <1>6. /\ buf' = [buf EXCEPT ![end] = NUL]
        /\ pc' = "args" /\ argv' = <<>> /\ file' = file
    BY <1>2, <1>4, <1>5 DEF Name, end
  <1>7. TextOK'
    <2>1. read' \in read..Len(buf) /\ end < read' /\ end \in read..Len(buf)
      BY <1>1, <1>2, <1>3, <1>4, <1>5
    <2> QED
      BY <1>1, <1>6, <2>1, ReadsOn
  <1>8. argv' \in Seq(Nat)
    BY <1>6
  <1> QED
    BY <1>6, <1>7, <1>8 DEF AsmInv, NoOverrun

LEMMA ArgumentSafe ==
  ASSUME AsmInv, Argument
  PROVE  AsmInv'
  <1> DEFINE start == Past({SP}, read)
             end   == Until(OperandEnds, start)
  <1>1. /\ TextOK /\ buf \in Seq(Symbols) /\ read \in 1..Len(buf)
        /\ buf[read] \notin {CR, LF, NUL}
    BY DEF AsmInv, Argument, Scanning, TextOK
  <1>2. /\ Len(buf) \in Nat /\ Len(buf) >= 2 /\ buf[Len(buf)] = NUL
        /\ read < Len(buf) => buf[Len(buf) - 1] = NUL
    BY <1>1, TextEnds
  <1>3. read < Len(buf) - 1 /\ buf[Len(buf) - 1] = NUL
    BY <1>1, <1>2
  <1>4. start \in read..Len(buf) - 1
    <2>1. Len(buf) - 1 \in read..Len(buf) /\ buf[Len(buf) - 1] \notin {SP}
      BY <1>1, <1>2, <1>3 DEF NUL, SP
    <2> QED
      BY <1>1, <1>2, <2>1, Searches
  <1> HIDE DEF start
  <1>5. end \in start..Len(buf) - 1
    <2>1. Len(buf) - 1 \in start..Len(buf) /\ buf[Len(buf) - 1] \in OperandEnds
      BY <1>1, <1>2, <1>3, <1>4 DEF OperandEnds
    <2>2. start \in 1..Len(buf)
      BY <1>1, <1>2, <1>4
    <2> QED
      BY <1>1, <1>2, <2>1, <2>2, Searches
  <1> HIDE DEF end
  <1>6. /\ argv' = Append(argv, start) /\ buf' = [buf EXCEPT ![end] = NUL]
        /\ read' = end + 1 /\ pc' \in {"match", "args"} /\ file' = file
    BY DEF Argument, start, end
  <1>7. TextOK'
    <2>1. read' \in read..Len(buf) /\ end < read' /\ end \in read..Len(buf)
      BY <1>1, <1>2, <1>4, <1>5, <1>6
    <2> QED
      BY <1>1, <1>6, <2>1, ReadsOn
  <1>8. argv' \in Seq(Nat)
    <2>1. start \in Nat
      BY <1>1, <1>2, <1>4
    <2> QED
      BY <1>6, <2>1, AppendProperties DEF AsmInv
  <1> QED
    BY <1>6, <1>7, <1>8 DEF AsmInv, NoOverrun

\* The instruction that a line becomes matches its opcode.
LEMMA BuildTypes ==
  ASSUME AsmInv, Build
  PROVE  PendingOK'
  <1> DEFINE o == Min(Fitting)
  <1>1. Fitting \in SUBSET Nat /\ Fitting # {}
    BY OpcodeTypes DEF Fitting, Build
  <1>2. o \in Fitting
    BY <1>1, MinOfNats
  <1> HIDE DEF o
  <1>3. PICK args : /\ \E S : args \in [DOMAIN argv -> S]
                    /\ Call([op |-> o, args |-> args])
    BY DEF Build, o
  <1>4. Len(args) = Len(argv)
    <2>1. DOMAIN argv = 1..Len(argv) /\ Len(argv) \in Nat
      BY DEF AsmInv
    <2> QED
      BY <1>3, <2>1
  <1>5. WellFormed([op |-> o, args |-> args])
    BY <1>2, <1>4 DEF WellFormed, Fitting
  <1> QED
    BY <1>3, <1>5, CallTypes

LEMMA LoadSafe ==
  ASSUME AsmInv, ReadFile
  PROVE  AsmInv'
  <1> DEFINE T == ToSet(file.text)
  <1>1. file \in Files /\ read = 1 /\ file.text \in Seq(T)
    BY FilesAssumption DEF AsmInv, ReadFile
  <1>2. /\ Loaded(file.text) \in Seq(T \union {NUL})
        /\ Len(Loaded(file.text)) \in Nat /\ Len(Loaded(file.text)) >= 2
    <2> HIDE DEF T
    <2> QED
      BY <1>1, Terminated
  <1>3. /\ buf' = Loaded(file.text) /\ pc' = "line"
        /\ UNCHANGED <<file, read, argv>>
    BY DEF ReadFile
  <1>4. Symbols' = T \union {NUL}
    BY <1>3 DEF Symbols
  <1>5. TextOK'
    <2> HIDE DEF T
    <2> QED
      BY <1>1, <1>2, <1>3, <1>4 DEF TextOK
  <1> QED
    BY <1>3, <1>5 DEF AsmInv, NoOverrun

-----------------------------------------------------------------------------
\* Every other action leaves the assembler where it is or ends it.
LEMMA OutsideSafe ==
  ASSUME AsmInv, UNCHANGED asmVars, pc' = pc \/ pc' \notin Scanning \union {"read", "overrun"}
  PROVE  AsmInv'
  <1>1. UNCHANGED <<file, buf, read, name, argv>>
    BY DEF asmVars
  <1>2. TextOK => TextOK'
    BY <1>1 DEF TextOK, Symbols
  <1>3. EndsInComment => EndsInComment'
    BY <1>1 DEF EndsInComment
  <1> QED
    BY <1>1, <1>2, <1>3 DEF AsmInv, NoOverrun, Scanning

LEMMA MatchedSafe ==
  ASSUME AsmInv, UNCHANGED asmVars, pc \in Scanning, pc' \in {"line", "match"}
  PROVE  AsmInv'
  <1>1. UNCHANGED <<file, buf, read, name, argv>>
    BY DEF asmVars
  <1>2. TextOK'
    BY <1>1 DEF TextOK, Symbols, AsmInv
  <1> QED
    BY <1>1, <1>2 DEF AsmInv, NoOverrun

LEMMA BufferUnchanged ==
  ASSUME BufferOK, PendingOK, UNCHANGED bufferVars
  PROVE  BufferOK' /\ PendingOK'
  <1>1. UNCHANGED <<ctx, pending, program, failed>>
    BY DEF bufferVars
  <1> QED
    BY <1>1 DEF BufferOK, PendingOK, FieldsOf, Empty

LEMMA InitSafe == Init => IInv
  <1> SUFFICES ASSUME Init PROVE IInv
    OBVIOUS
  <1>1. BufferOK
    BY DEF Init, BufferInit, BufferOK, Empty
  <1>2. PendingOK
    <2>1. pending \in FieldsOf({})
      BY DEF Init, BufferInit, FieldsOf
    <2> QED
      BY <2>1 DEF PendingOK
  <1>3. AsmInv
    BY DEF Init, AsmInit, AsmInv, NoOverrun, Scanning
  <1> QED
    BY <1>1, <1>2, <1>3 DEF IInv

LEMMA NextSafe == IInv /\ [Next]_vars => IInv'
  <1> SUFFICES ASSUME IInv, [Next]_vars PROVE IInv'
    OBVIOUS
  <1> USE DEF IInv
  <1>1. CASE ReadFile
    BY <1>1, LoadSafe, BufferUnchanged DEF ReadFile
  <1>2. CASE Line
    BY <1>2, LineSafe, BufferUnchanged DEF Line
  <1>3. CASE Name
    BY <1>3, NameSafe, BufferUnchanged DEF Name
  <1>4. CASE Argument
    BY <1>4, ArgumentSafe, BufferUnchanged DEF Argument
  <1>5. CASE TooMany \/ Reject
    BY <1>5, OutsideSafe, BufferUnchanged DEF TooMany, Reject, Scanning
  <1>6. CASE EndArgs
    BY <1>6, MatchedSafe, BufferUnchanged DEF EndArgs, Scanning
  <1>7. CASE Build
    <2>1. AsmInv'
      BY <1>7, MatchedSafe DEF Build, Scanning
    <2>2. BufferOK'
      BY <1>7 DEF Build, Call, BufferOK, Empty
    <2> QED
      BY <1>7, <2>1, <2>2, BuildTypes
  <1>8. CASE PushField /\ UNCHANGED <<pc, asmVars>>
    BY <1>8, PushKeeps, OutsideSafe
  <1>9. CASE CallBuilder
    <2>1. AsmInv'
      BY <1>9, OutsideSafe DEF CallBuilder
    <2>2. PICK instr \in Instructions[Len(program) + 1] : Call(instr)
      BY <1>9 DEF CallBuilder
    <2>3. Len(program) + 1 \in DOMAIN Instructions
      BY <1>9 DEF CallBuilder
    <2>4. WellFormed(instr)
      BY <2>3, InstructionsAssumption DEF WellFormed, Typed
    <2>5. BufferOK'
      BY <2>2 DEF Call, BufferOK, Empty
    <2> QED
      BY <2>1, <2>2, <2>4, <2>5, CallTypes
  <1>10. CASE StartJit \/ Lost \/ Compile \/ Export \/ Execute
    BY <1>10, OutsideSafe, BufferUnchanged
       DEF StartJit, Lost, Compile, Export, Execute, Scanning
  <1>11. CASE Crash \/ Leave \/ Interpret \/ Return
    BY <1>11, OutsideSafe, BufferUnchanged
       DEF Crash, Leave, Interpret, Return, Scanning
  <1>12. CASE UNCHANGED vars
    BY <1>12, OutsideSafe, BufferUnchanged DEF vars
  <1> QED
    BY <1>1, <1>2, <1>3, <1>4, <1>5, <1>6, <1>7, <1>8, <1>9, <1>10, <1>11, <1>12
       DEF Next, Assemble

\* The buffer's length never exceeds what was allocated, whatever is built and
\* whichever reallocations fail (scope.h:44-59).
THEOREM BufferFits == Spec => []BufferOK
  <1>1. IInv => BufferOK
    BY DEF IInv
  <1> QED
    BY InitSafe, NextSafe, <1>1, PTL DEF Spec

\* Whatever a file holds, the assembler reads beyond its copy of the text only
\* in a comment that no line feed ends (syntax.c:37-40).
THEOREM StaysInText == Spec => []NoOverrun
  <1>1. IInv => NoOverrun
    BY DEF IInv, AsmInv
  <1> QED
    BY InitSafe, NextSafe, <1>1, PTL DEF Spec

-----------------------------------------------------------------------------
(***************************************************************************)
(* What the interpreters read is what the builders wrote, for any opcodes  *)
(* and sizes: the program is laid out in the buffer one instruction after  *)
(* the other, field by field, up to the fields that are still to be pushed.*)
(***************************************************************************)

\* A set that has 0 and goes on has all numbers.
LEMMA UpTo ==
  ASSUME NEW n \in Nat, NEW S \in SUBSET (0..n), 0 \in S,
         \A k \in S : k + 1 <= n => k + 1 \in S
  PROVE  S = 0..n
  <1> DEFINE F == (0..n) \ S
  <1>1. SUFFICES ASSUME F # {} PROVE FALSE
    OBVIOUS
  <1>2. F \in SUBSET Nat
    OBVIOUS
  <1>3. PICK x \in F : \A y \in F : x <= y
    <2> HIDE DEF F
    <2>1. Min(F) \in F /\ \A y \in F : Min(F) <= y
      BY <1>1, <1>2, MinOfNats
    <2> QED
      BY <2>1
  <1>4. x \in Nat /\ x # 0 /\ x <= n /\ x - 1 \in 0..n /\ (x - 1) + 1 = x
    BY <1>3
  <1>5. x - 1 \notin F
    BY <1>2, <1>3, <1>4
  <1> QED
    BY <1>3, <1>4, <1>5

\* f is what end is up to n.
EndsAt(types, a, n, f) ==
    f = [i \in 0..n |-> IF i = 0 THEN a + Size["op"] ELSE f[i - 1] + Size[types[i]]]

LEMMA EndsEquation ==
  ASSUME NEW types, NEW a, NEW n, NEW f, EndsAt(types, a, n, f)
  PROVE  \A i \in 0..n : f[i] = IF i = 0 THEN a + Size["op"] ELSE f[i - 1] + Size[types[i]]
  <1> DEFINE r == [i \in 0..n |-> IF i = 0 THEN a + Size["op"] ELSE f[i - 1] + Size[types[i]]]
  <1>1. \A i \in 0..n : r[i] = IF i = 0 THEN a + Size["op"] ELSE f[i - 1] + Size[types[i]]
    OBVIOUS
  <1>2. f = r
    BY DEF EndsAt
  <1> HIDE DEF r
  <1> QED
    BY <1>1, <1>2

LEMMA EndsExist ==
  ASSUME NEW types, NEW a, NEW n \in Nat
  PROVE  \E f : EndsAt(types, a, n, f)
  <1> DEFINE S == {k \in 0..n : \E f : EndsAt(types, a, k, f)}
  <1>1. 0 \in S
    <2> DEFINE f == [i \in 0..0 |-> a + Size["op"]]
    <2>1. f = [i \in 0..0 |-> IF i = 0 THEN a + Size["op"] ELSE f[i - 1] + Size[types[i]]]
      OBVIOUS
    <2>2. EndsAt(types, a, 0, f)
      BY <2>1 DEF EndsAt
    <2> HIDE DEF f
    <2> QED
      BY <2>2
  <1>2. ASSUME NEW k \in S, k + 1 <= n PROVE k + 1 \in S
    <2>1. k \in Nat /\ k + 1 \in 0..n
      BY <1>2
    <2>2. PICK f : EndsAt(types, a, k, f)
      OBVIOUS
    <2>3. \A i \in 0..k : f[i] = IF i = 0 THEN a + Size["op"] ELSE f[i - 1] + Size[types[i]]
      BY <2>2, EndsEquation
    <2> DEFINE g == [i \in 0..k + 1 |-> IF i <= k THEN f[i] ELSE f[k] + Size[types[k + 1]]]
               h == [i \in 0..k + 1 |-> IF i = 0 THEN a + Size["op"] ELSE g[i - 1] + Size[types[i]]]
    <2>4. ASSUME NEW i \in 0..k + 1
          PROVE  g[i] = IF i = 0 THEN a + Size["op"] ELSE g[i - 1] + Size[types[i]]
      <3>1. CASE i = 0
        BY <2>1, <2>3, <3>1
      <3>2. CASE i # 0 /\ i <= k
        <4>1. g[i] = f[i] /\ g[i - 1] = f[i - 1] /\ i \in 0..k
          BY <2>1, <3>2
        <4> QED
          BY <2>3, <3>2, <4>1
      <3>3. CASE i = k + 1
        <4>1. g[i] = f[k] + Size[types[i]] /\ g[i - 1] = f[k] /\ i # 0
          BY <2>1, <3>3
        <4> QED
          BY <4>1
      <3> QED
        BY <2>1, <3>1, <3>2, <3>3
    <2>5. g = h
      BY <2>4
    <2>6. EndsAt(types, a, k + 1, g)
      BY <2>5 DEF EndsAt
    <2> QED
      BY <2>1, <2>6
  <1> HIDE DEF S
  <1>3. S \in SUBSET (0..n)
    BY DEF S
  <1>4. S = 0..n
    BY <1>1, <1>2, <1>3, UpTo
  <1> QED
    BY <1>4 DEF S

LEMMA EndsAgree ==
  ASSUME NEW types \in Seq(DOMAIN Size), NEW a \in Nat, NEW n \in 0..Len(types), NEW m \in 0..n,
         NEW f, EndsAt(types, a, n, f), NEW g, EndsAt(types, a, m, g)
  PROVE  \A i \in 0..m : f[i] = g[i] /\ f[i] \in Nat
  <1> DEFINE S == {i \in 0..m : f[i] = g[i] /\ f[i] \in Nat}
  <1>1. /\ \A i \in 0..n : f[i] = IF i = 0 THEN a + Size["op"] ELSE f[i - 1] + Size[types[i]]
        /\ \A i \in 0..m : g[i] = IF i = 0 THEN a + Size["op"] ELSE g[i - 1] + Size[types[i]]
    BY EndsEquation
  <1>2. Len(types) \in Nat /\ n \in Nat /\ m \in Nat /\ m <= n /\ n <= Len(types)
    OBVIOUS
  <1>3. 0 \in S
    BY <1>1, <1>2, SizeAssumption
  <1>4. ASSUME NEW k \in S, k + 1 <= m PROVE k + 1 \in S
    <2>1. k \in Nat /\ k + 1 \in 0..m /\ k + 1 \in 0..n /\ k + 1 \in 1..Len(types)
          /\ k + 1 # 0 /\ (k + 1) - 1 = k
      BY <1>2, <1>4
    <2>2. Size[types[k + 1]] \in Nat
      BY <2>1, SizeAssumption
    <2>3. f[k + 1] = f[k] + Size[types[k + 1]] /\ g[k + 1] = g[k] + Size[types[k + 1]]
      BY <1>1, <2>1
    <2> QED
      BY <2>1, <2>2, <2>3
  <1> HIDE DEF S
  <1>5. S \in SUBSET (0..m)
    BY DEF S
  <1>6. S = 0..m
    BY <1>2, <1>3, <1>4, <1>5, UpTo
  <1> QED
    BY <1>6 DEF S

\* The operands follow the opcode one after the other.
LEMMA AfterIs ==
  ASSUME NEW types \in Seq(DOMAIN Size), NEW a \in Nat
  PROVE  /\ After(types, a, 0) = a + Size["op"]
         /\ \A n \in 0..Len(types) : After(types, a, n) \in Nat
         /\ \A n \in 1..Len(types) : After(types, a, n) = After(types, a, n - 1) + Size[types[n]]
  <1> DEFINE End(n) == CHOOSE f : EndsAt(types, a, n, f)
  <1>1. Len(types) \in Nat
    OBVIOUS
  <1>2. \A n : After(types, a, n) = End(n)[n]
    BY DEF After, EndsAt
  <1>3. ASSUME NEW n \in 0..Len(types) PROVE EndsAt(types, a, n, End(n))
    <2>1. n \in Nat
      BY <1>1
    <2>2. \E f : EndsAt(types, a, n, f)
      BY <2>1, EndsExist
    <2> QED
      BY <2>2
  <1> HIDE DEF End
  <1>4. ASSUME NEW n \in 0..Len(types)
        PROVE  \A i \in 0..n : End(n)[i] = IF i = 0 THEN a + Size["op"] ELSE End(n)[i - 1] + Size[types[i]]
    BY <1>3, EndsEquation
  <1>5. After(types, a, 0) = a + Size["op"]
    BY <1>1, <1>2, <1>4
  <1>6. ASSUME NEW n \in 0..Len(types) PROVE After(types, a, n) \in Nat
    <2>1. n \in 0..n
      OBVIOUS
    <2>2. End(n)[n] \in Nat
      BY <1>3, <2>1, EndsAgree
    <2> QED
      BY <1>2, <2>2
  <1>7. ASSUME NEW n \in 1..Len(types)
        PROVE  After(types, a, n) = After(types, a, n - 1) + Size[types[n]]
    <2>1. n \in 0..Len(types) /\ n - 1 \in 0..n /\ n - 1 \in 0..Len(types) /\ n \in 0..n /\ n # 0
          /\ n - 1 \in 0..(n - 1)
      BY <1>1
    <2>2. End(n)[n - 1] = End(n - 1)[n - 1]
      BY <1>3, <2>1, EndsAgree
    <2>3. End(n)[n] = End(n)[n - 1] + Size[types[n]]
      BY <1>4, <2>1
    <2> QED
      BY <1>2, <2>2, <2>3
  <1> QED
    BY <1>5, <1>6, <1>7

-----------------------------------------------------------------------------
\* The fields of an instruction, and where the j-th starts when the instruction
\* starts at a; the one after the last is the next instruction.
Instrs          == {x \in [op : DOMAIN Opcodes, args : Seq(Nat)] : Typed(x)}
Field           == [type : DOMAIN Size, val : Nat]
Count(x)        == Len(x.args) + 1
Width(x, j)     == Size[Fields(x)[j].type]
Start(x, a, j)  == IF j = 1 THEN a ELSE After(Opcodes[x.op].args, a, j - 2)

LEMMA InstrIs ==
  ASSUME NEW x \in Instrs
  PROVE  /\ x.op \in DOMAIN Opcodes /\ x.op \in Nat
         /\ x.args \in Seq(Nat) /\ Len(x.args) \in Nat
         /\ Len(x.args) = Len(Opcodes[x.op].args)
         /\ Opcodes[x.op].args \in Seq(DOMAIN Size)
         /\ \A i \in 1..Len(x.args) : Opcodes[x.op].args[i] \in DOMAIN Size /\ x.args[i] \in Nat
         /\ Count(x) \in Nat \ {0}
         /\ x = [op |-> x.op, args |-> x.args]
  <1>1. x \in [op : DOMAIN Opcodes, args : Seq(Nat)] /\ Len(x.args) = Len(Opcodes[x.op].args)
    BY DEF Instrs, Typed
  <1>2. x.op \in DOMAIN Opcodes /\ x.args \in Seq(Nat) /\ x = [op |-> x.op, args |-> x.args]
    BY <1>1
  <1>3. Len(x.args) \in Nat /\ \A i \in 1..Len(x.args) : x.args[i] \in Nat
    BY <1>2
  <1> QED
    BY <1>1, <1>2, <1>3, OpcodeTypes DEF Count

LEMMA FieldsAre ==
  ASSUME NEW x \in Instrs
  PROVE  /\ Fields(x) \in Seq(Field) /\ Len(Fields(x)) = Count(x)
         /\ Fields(x)[1] = [type |-> "op", val |-> x.op]
         /\ \A i \in 1..Len(x.args) :
               Fields(x)[i + 1] = [type |-> Opcodes[x.op].args[i], val |-> x.args[i]]
         /\ \A j \in 1..Count(x) : Fields(x)[j] \in Field /\ Width(x, j) \in Nat \ {0}
         /\ Width(x, 1) = Size["op"]
         /\ \A i \in 1..Len(x.args) : Width(x, i + 1) = Size[Opcodes[x.op].args[i]]
  <1> DEFINE n == Len(x.args)
             operands == [i \in 1..n |-> [type |-> Opcodes[x.op].args[i], val |-> x.args[i]]]
             head == <<[type |-> "op", val |-> x.op]>>
  <1>1. n \in Nat /\ x.op \in Nat /\ \A i \in 1..n : Opcodes[x.op].args[i] \in DOMAIN Size /\ x.args[i] \in Nat
    BY InstrIs
  <1>2. [type |-> "op", val |-> x.op] \in Field
    BY <1>1, SizeAssumption DEF Field
  <1>3. \A i \in 1..n : [type |-> Opcodes[x.op].args[i], val |-> x.args[i]] \in Field
    BY <1>1 DEF Field
  <1>4. operands \in Seq(Field) /\ Len(operands) = n
    <2> HIDE DEF n
    <2>1. operands \in Seq(Field)
      BY <1>1, <1>3, IsASeq
    <2> QED
      BY <1>1, <2>1
  <1>5. head \in Seq(Field) /\ Len(head) = 1 /\ head[1] = [type |-> "op", val |-> x.op]
    BY <1>2
  <1>6. Fields(x) = head \o operands
    BY DEF Fields
  <1>7. \A i \in 1..n : operands[i] = [type |-> Opcodes[x.op].args[i], val |-> x.args[i]]
    OBVIOUS
  <1> HIDE DEF head, operands
  <1>8. /\ Fields(x) \in Seq(Field) /\ Len(Fields(x)) = 1 + n
        /\ \A i \in 1..1 + n : Fields(x)[i] = IF i <= 1 THEN head[i] ELSE operands[i - 1]
    <2> HIDE DEF n
    <2>1. /\ head \o operands \in Seq(Field)
          /\ Len(head \o operands) = Len(head) + Len(operands)
          /\ \A i \in 1..Len(head) + Len(operands) :
                (head \o operands)[i] = IF i <= Len(head) THEN head[i] ELSE operands[i - Len(head)]
      BY <1>4, <1>5, ConcatProperties
    <2> QED
      BY <1>4, <1>5, <1>6, <2>1
  <1>9. /\ Len(Fields(x)) = Count(x)
        /\ Fields(x)[1] = [type |-> "op", val |-> x.op]
    BY <1>1, <1>5, <1>8 DEF Count
  <1>10. ASSUME NEW i \in 1..n
         PROVE  Fields(x)[i + 1] = [type |-> Opcodes[x.op].args[i], val |-> x.args[i]]
    <2>1. i + 1 \in 1..1 + n /\ ~(i + 1 <= 1) /\ (i + 1) - 1 = i
      BY <1>1
    <2> QED
      BY <1>7, <1>8, <2>1
  <1>11. ASSUME NEW j \in 1..Count(x) PROVE Fields(x)[j] \in Field /\ Width(x, j) \in Nat \ {0}
    <2>1. Fields(x)[j] \in Field
      BY <1>8, <1>9, <1>1, ElementOfSeq DEF Count
    <2>2. Fields(x)[j].type \in DOMAIN Size
      BY <2>1 DEF Field
    <2> QED
      BY <2>1, <2>2, SizeAssumption DEF Width
  <1>12. Width(x, 1) = Size["op"]
    <2>1. Fields(x)[1].type = "op"
      BY <1>9
    <2> QED
      BY <2>1 DEF Width
  <1>13. ASSUME NEW i \in 1..n PROVE Width(x, i + 1) = Size[Opcodes[x.op].args[i]]
    <2> DEFINE t == Opcodes[x.op].args[i]
               v == x.args[i]
    <2>1. Fields(x)[i + 1] = [type |-> t, val |-> v]
      BY <1>10
    <2> HIDE DEF t, v
    <2>2. Fields(x)[i + 1].type = t
      BY <2>1
    <2> QED
      BY <2>2 DEF Width, t
  <1> QED
    BY <1>8, <1>9, <1>10, <1>11, <1>12, <1>13

\* The fields lie one after the other.
LEMMA StartIs ==
  ASSUME NEW x \in Instrs, NEW a \in Nat
  PROVE  /\ Start(x, a, 1) = a
         /\ \A j \in 1..Count(x) + 1 : Start(x, a, j) \in Nat
         /\ \A j \in 1..Count(x) : Start(x, a, j + 1) = Start(x, a, j) + Width(x, j)
  <1> DEFINE types == Opcodes[x.op].args
             n == Len(x.args)
  <1>1. types \in Seq(DOMAIN Size) /\ n = Len(types) /\ n \in Nat /\ Count(x) = n + 1
    BY InstrIs DEF Count
  <1>2. /\ After(types, a, 0) = a + Size["op"]
        /\ \A i \in 0..n : After(types, a, i) \in Nat
        /\ \A i \in 1..n : After(types, a, i) = After(types, a, i - 1) + Size[types[i]]
    <2> HIDE DEF types, n
    <2> QED
      BY <1>1, AfterIs
  <1>3. /\ Width(x, 1) = Size["op"]
        /\ \A i \in 1..n : Width(x, i + 1) = Size[types[i]]
    BY FieldsAre
  <1>4. \A j : Start(x, a, j) = IF j = 1 THEN a ELSE After(types, a, j - 2)
    BY DEF Start
  <1> HIDE DEF types, n
  <1>5. ASSUME NEW j \in 1..Count(x) + 1 PROVE Start(x, a, j) \in Nat
    <2>1. CASE j = 1
      BY <1>4, <2>1
    <2>2. CASE j # 1
      <3>1. j - 2 \in 0..n
        BY <1>1, <2>2
      <3> QED
        BY <1>2, <1>4, <2>2, <3>1
    <2> QED
      BY <2>1, <2>2
  <1>6. ASSUME NEW j \in 1..Count(x) PROVE Start(x, a, j + 1) = Start(x, a, j) + Width(x, j)
    <2>1. CASE j = 1
      <3>1. j + 1 # 1 /\ (j + 1) - 2 = 0
        BY <2>1
      <3> QED
        BY <1>2, <1>3, <1>4, <2>1, <3>1
    <2>2. CASE j # 1
      <3>1. j - 1 \in 1..n /\ j + 1 # 1 /\ (j + 1) - 2 = j - 1 /\ (j - 1) - 1 = j - 2
            /\ (j - 1) + 1 = j
        BY <1>1, <2>2
      <3>2. Start(x, a, j + 1) = After(types, a, j - 1) /\ Start(x, a, j) = After(types, a, j - 2)
        BY <1>4, <2>2, <3>1
      <3>3. After(types, a, j - 1) = After(types, a, j - 2) + Size[types[j - 1]]
        BY <1>2, <3>1
      <3>4. Width(x, j) = Size[types[j - 1]]
        BY <1>3, <3>1
      <3> QED
        BY <3>2, <3>3, <3>4
    <2> QED
      BY <2>1, <2>2
  <1>7. Start(x, a, 1) = a
    BY <1>4
  <1> QED
    BY <1>5, <1>6, <1>7

LEMMA StartGrows ==
  ASSUME NEW x \in Instrs, NEW a \in Nat, NEW q \in 1..Count(x) + 1
  PROVE  \A j \in 1..q : Start(x, a, j) <= Start(x, a, q)
  <1> DEFINE S == {k \in 0..(q - 1) : Start(x, a, q - k) <= Start(x, a, q)}
  <1>1. Count(x) \in Nat \ {0} /\ q \in Nat /\ q - 1 \in Nat
    BY InstrIs
  <1>2. /\ \A j \in 1..Count(x) + 1 : Start(x, a, j) \in Nat
        /\ \A j \in 1..Count(x) : Start(x, a, j + 1) = Start(x, a, j) + Width(x, j)
    BY StartIs
  <1>3. 0 \in S
    BY <1>1, <1>2
  <1>4. ASSUME NEW k \in S, k + 1 <= q - 1 PROVE k + 1 \in S
    <2> DEFINE j == q - (k + 1)
    <2>1. k \in Nat /\ j \in 1..Count(x) /\ j + 1 = q - k /\ j + 1 \in 1..Count(x) + 1
          /\ j \in 1..Count(x) + 1 /\ q \in 1..Count(x) + 1 /\ k + 1 \in 0..(q - 1)
      BY <1>1, <1>4
    <2>2. Width(x, j) \in Nat
      BY <2>1, FieldsAre
    <2>3. Start(x, a, j + 1) <= Start(x, a, q)
      BY <2>1
    <2>4. Start(x, a, j + 1) = Start(x, a, j) + Width(x, j)
      BY <1>2, <2>1
    <2>5. Start(x, a, j) \in Nat /\ Start(x, a, j + 1) \in Nat /\ Start(x, a, q) \in Nat
      BY <1>2, <2>1
    <2>6. Start(x, a, j) <= Start(x, a, q)
      <3> HIDE DEF j
      <3> QED
        BY <2>2, <2>3, <2>4, <2>5
    <2> QED
      BY <2>1, <2>6
  <1> HIDE DEF S
  <1>5. S \in SUBSET (0..(q - 1))
    BY DEF S
  <1>6. S = 0..(q - 1)
    BY <1>1, <1>3, <1>4, <1>5, UpTo
  <1>7. ASSUME NEW j \in 1..q PROVE Start(x, a, j) <= Start(x, a, q)
    <2>1. q - j \in 0..(q - 1) /\ q - (q - j) = j
      BY <1>1
    <2>2. q - j \in S
      BY <1>6, <2>1
    <2> QED
      BY <2>1, <2>2 DEF S
  <1> QED
    BY <1>7

-----------------------------------------------------------------------------
\* In a context c, the j-th field of the instruction that starts at a is in the
\* buffer.
Holds(c, x, a, j) ==
    \A b \in 1..Width(x, j) : c.mem[Start(x, a, j) + b] = Bytes(Fields(x)[j])[b]

Complete(c, x, a) ==
    /\ Start(x, a, Count(x) + 1) <= c.len
    /\ \A j \in 1..Count(x) : Holds(c, x, a, j)

\* All but the fields p of an instruction have been pushed, q of them.
Pushed(c, p, x, a, q) ==
    /\ p = SubSeq(Fields(x), q + 1, Count(x))
    /\ c.len = Start(x, a, q + 1)
    /\ \A j \in 1..q : Holds(c, x, a, j)

\* at[i] is where the i-th instruction starts. The last one may be incomplete.
Layout(c, p, prog, at) ==
    /\ at \in [1..Len(prog) + 1 -> Nat] /\ at[1] = 0
    /\ \A i \in 1..Len(prog) : at[i + 1] = Start(prog[i], at[i], Count(prog[i]) + 1)
    /\ \A i \in 1..Len(prog) - 1 : Complete(c, prog[i], at[i])
    /\ Len(prog) = 0 => p = <<>> /\ c.len = 0
    /\ Len(prog) # 0 =>
          \E q \in 0..Count(prog[Len(prog)]) :
              Pushed(c, p, prog[Len(prog)], at[Len(prog)], q)

\* A push adds its bytes to those that are there, if it is not refused.
LEMMA PushAdds ==
  ASSUME BufferOK, NEW n \in Nat \ {0}, NEW bytes, DOMAIN bytes = 1..n, Len(bytes) = n,
         Push(bytes), ~failed'
  PROVE  /\ ctx'.len = ctx.len + n /\ ctx.len \in Nat
         /\ \A i \in 1..ctx.len : ctx'.mem[i] = ctx.mem[i]
         /\ \A b \in 1..n : ctx'.mem[ctx.len + b] = bytes[b]
         /\ failed' = failed
  <1>1. /\ DOMAIN ctx = {"len", "alloc", "mem"} /\ ctx.len \in Nat /\ ctx.alloc \in Nat
        /\ ctx = Empty \/ (ctx.len <= ctx.alloc /\ DOMAIN ctx.mem = 1..ctx.alloc)
    BY DEF BufferOK
  <1> DEFINE end == ctx.len + n
  <1>2. end \in Nat
    BY <1>1
  <1>3. ASSUME NEW mem, NEW size \in Nat, DOMAIN mem = 1..size, end <= size
        PROVE  /\ \A i \in 1..ctx.len : Copied(mem, bytes)[i] = mem[i]
               /\ \A b \in 1..n : Copied(mem, bytes)[ctx.len + b] = bytes[b]
    <2>1. ASSUME NEW i \in 1..ctx.len PROVE Copied(mem, bytes)[i] = mem[i]
      <3>1. i \in DOMAIN mem /\ i \notin ctx.len + 1 .. ctx.len + n
        BY <1>1, <1>3
      <3> QED
        BY <3>1 DEF Copied
    <2>2. ASSUME NEW b \in 1..n PROVE Copied(mem, bytes)[ctx.len + b] = bytes[b]
      <3>1. ctx.len + b \in DOMAIN mem /\ ctx.len + b \in ctx.len + 1 .. ctx.len + n
            /\ (ctx.len + b) - ctx.len = b
        BY <1>1, <1>3
      <3> QED
        BY <3>1 DEF Copied
    <2> QED
      BY <2>1, <2>2
  <1>4. CASE ~TooSmall(n)
    <2>1. ctx' = [ctx EXCEPT !.len = end, !.mem = Copied(@, bytes)] /\ failed' = failed
      BY <1>4 DEF Push
    <2>2. end < ctx.alloc /\ ctx.mem # NULL
      BY <1>1, <1>4 DEF TooSmall
    <2>3. DOMAIN ctx.mem = 1..ctx.alloc
      BY <1>1, <2>2 DEF Empty
    <2>4. ctx'.len = end /\ ctx'.mem = Copied(ctx.mem, bytes)
      BY <1>1, <2>1
    <2>5. end <= ctx.alloc
      BY <1>1, <1>2, <2>2
    <2>6. /\ \A i \in 1..ctx.len : Copied(ctx.mem, bytes)[i] = ctx.mem[i]
          /\ \A b \in 1..n : Copied(ctx.mem, bytes)[ctx.len + b] = bytes[b]
      <3> HIDE DEF end
      <3> QED
        BY <1>1, <1>3, <2>3, <2>5
    <2> QED
      BY <1>1, <2>1, <2>4, <2>6
  <1>5. CASE failed' = failed /\
             ctx' = [len |-> end, alloc |-> 2 * end, mem |-> Copied(Grown(2 * end), bytes)]
    <2> DEFINE mem == Grown(2 * end)
    <2>1. 2 * end \in Nat /\ end <= 2 * end /\ ctx.len <= 2 * end
      BY <1>1, <1>2
    <2>2. DOMAIN mem = 1..(2 * end) /\ \A i \in 1..ctx.len : mem[i] = ctx.mem[i]
      <3>1. \A i \in 1..ctx.len : i \in 1..(2 * end) /\ i <= ctx.len
        BY <1>1, <2>1
      <3> QED
        BY <3>1 DEF Grown
    <2> HIDE DEF mem
    <2>3. /\ \A i \in 1..ctx.len : Copied(mem, bytes)[i] = mem[i]
          /\ \A b \in 1..n : Copied(mem, bytes)[ctx.len + b] = bytes[b]
      <3> HIDE DEF end
      <3> QED
        BY <1>3, <2>1, <2>2
    <2>4. ctx'.len = end /\ ctx'.mem = Copied(mem, bytes)
      BY <1>5 DEF mem
    <2> QED
      BY <1>1, <1>5, <2>2, <2>3, <2>4
  <1>6. CASE ctx' = Empty /\ failed' = TRUE
    BY <1>6
  <1> QED
    BY <1>4, <1>5, <1>6 DEF Push

LEMMA BytesAre ==
  ASSUME NEW x \in Instrs, NEW j \in 1..Count(x)
  PROVE  /\ DOMAIN Bytes(Fields(x)[j]) = 1..Width(x, j)
         /\ Len(Bytes(Fields(x)[j])) = Width(x, j)
  <1>1. Width(x, j) \in Nat
    BY FieldsAre
  <1>2. DOMAIN Bytes(Fields(x)[j]) = 1..Width(x, j)
    BY DEF Bytes, Width
  <1> QED
    BY <1>1, <1>2

\* What is in the buffer stays there.
LEMMA HoldsOn ==
  ASSUME NEW x \in Instrs, NEW a \in Nat, NEW j \in 1..Count(x), NEW c, NEW d,
         Holds(c, x, a, j), c.len \in Nat, Start(x, a, j + 1) <= c.len,
         \A i \in 1..c.len : d.mem[i] = c.mem[i]
  PROVE  Holds(d, x, a, j)
  <1>1. Start(x, a, j + 1) = Start(x, a, j) + Width(x, j) /\ Start(x, a, j) \in Nat
    <2>1. j \in 1..Count(x) + 1
      BY InstrIs
    <2> QED
      BY <2>1, StartIs
  <1>2. Width(x, j) \in Nat
    BY FieldsAre
  <1>3. SUFFICES ASSUME NEW b \in 1..Width(x, j)
                 PROVE  d.mem[Start(x, a, j) + b] = Bytes(Fields(x)[j])[b]
    BY DEF Holds
  <1>4. Start(x, a, j) + b \in 1..c.len
    BY <1>1, <1>2
  <1> QED
    BY <1>4 DEF Holds

LEMMA CompleteOn ==
  ASSUME NEW x \in Instrs, NEW a \in Nat, NEW c, NEW d, Complete(c, x, a),
         c.len \in Nat, d.len \in Nat, c.len <= d.len,
         \A i \in 1..c.len : d.mem[i] = c.mem[i]
  PROVE  Complete(d, x, a)
  <1>1. Count(x) \in Nat
    BY InstrIs
  <1>2. \A j \in 1..Count(x) + 1 : Start(x, a, j) \in Nat
    BY StartIs
  <1>3. Start(x, a, Count(x) + 1) <= d.len
    BY <1>1, <1>2 DEF Complete
  <1>4. ASSUME NEW j \in 1..Count(x) PROVE Holds(d, x, a, j)
    <2>1. j + 1 \in 1..Count(x) + 1 /\ Count(x) + 1 \in 1..Count(x) + 1
      BY <1>1
    <2>2. Start(x, a, j + 1) <= Start(x, a, Count(x) + 1)
      BY <2>1, StartGrows
    <2>3. Start(x, a, j + 1) <= c.len
      BY <1>2, <2>1, <2>2 DEF Complete
    <2> QED
      BY <2>3, HoldsOn DEF Complete
  <1> QED
    BY <1>3, <1>4 DEF Complete

\* Everything that was pushed is complete when nothing is pending.
LEMMA LayoutDone ==
  ASSUME program \in Seq(Instrs), NEW at, Layout(ctx, pending, program, at), pending = <<>>
  PROVE  /\ \A i \in 1..Len(program) : Complete(ctx, program[i], at[i])
         /\ ctx.len = at[Len(program) + 1]
  <1> DEFINE n == Len(program)
  <1>1. n \in Nat
    OBVIOUS
  <1>2. CASE n = 0
    BY <1>2 DEF Layout
  <1>3. CASE n # 0
    <2>1. n \in 1..n /\ \A i \in 1..n : i = n \/ i \in 1..n - 1
      BY <1>1, <1>3
    <2> DEFINE x == program[n]
    <2>2. x \in Instrs
      BY <2>1, ElementOfSeq
    <2>3. at[n] \in Nat /\ at[n + 1] = Start(x, at[n], Count(x) + 1)
      BY <1>1, <2>1 DEF Layout
    <2>4. PICK q \in 0..Count(x) : Pushed(ctx, pending, x, at[n], q)
      BY <1>3 DEF Layout
    <2> HIDE DEF n, x
    <2>5. Count(x) \in Nat
      BY <2>2, InstrIs
    <2>6. q = Count(x)
      <3>1. CASE q < Count(x)
        <4>1. Fields(x) \in Seq(Field) /\ Len(Fields(x)) = Count(x)
          BY <2>2, FieldsAre
        <4>2. ASSUME NEW i \in q + 1 .. Count(x) PROVE Fields(x)[i] \in Field
          <5>1. i \in 1..Count(x)
            BY <2>5
          <5> QED
            BY <2>2, <5>1, FieldsAre
        <4>3. q + 1 \in Int /\ Count(x) \in Int /\ q + 1 <= Count(x)
          BY <2>5, <3>1
        <4>4. Len(SubSeq(Fields(x), q + 1, Count(x))) = Count(x) - (q + 1) + 1
          BY <4>2, <4>3, SubSeqProperties
        <4>5. Len(pending) = Count(x) - (q + 1) + 1
          BY <2>4, <4>4 DEF Pushed
        <4>6. Len(pending) = 0
          OBVIOUS
        <4> QED
          BY <2>5, <4>3, <4>5, <4>6
      <3> QED
        BY <2>5, <3>1
    <2>7. ctx.len = at[n + 1] /\ Complete(ctx, x, at[n])
      <3>1. at[n + 1] \in Nat
        BY <2>2, <2>3, <2>5, StartIs
      <3> QED
        BY <2>3, <2>4, <2>6, <3>1 DEF Pushed, Complete
    <2> QED
      BY <2>1, <2>7 DEF n, x, Layout
  <1> QED
    BY <1>2, <1>3

\* A builder that is called has all of its fields to push.
LEMMA LayoutCall ==
  ASSUME program \in Seq(Instrs), NEW at, Layout(ctx, pending, program, at), NEW x \in Instrs, Call(x)
  PROVE  program' \in Seq(Instrs) /\ \E new : Layout(ctx', pending', program', new)
  <1> DEFINE n == Len(program)
             new == [i \in 1..n + 2 |-> IF i <= n + 1 THEN at[i]
                                        ELSE Start(x, at[n + 1], Count(x) + 1)]
  <1>1. n \in Nat /\ pending = <<>> /\ pending' = Fields(x) /\ program' = Append(program, x)
        /\ ctx' = ctx
    BY DEF Call
  <1>2. /\ program' \in Seq(Instrs) /\ Len(program') = n + 1
        /\ \A i \in 1..n : program'[i] = program[i]
        /\ program'[n + 1] = x
    BY <1>1
  <1>3. /\ at \in [1..n + 1 -> Nat] /\ at[1] = 0
        /\ \A i \in 1..n : at[i + 1] = Start(program[i], at[i], Count(program[i]) + 1)
    BY DEF Layout
  <1>4. /\ \A i \in 1..n : Complete(ctx, program[i], at[i])
        /\ ctx.len = at[n + 1]
    BY <1>1, LayoutDone
  <1>5. at[n + 1] \in Nat /\ Count(x) \in Nat
    BY <1>1, <1>3, InstrIs
  <1>6. Start(x, at[n + 1], Count(x) + 1) \in Nat
    BY <1>5, StartIs
  <1>7. /\ new \in [1..Len(program') + 1 -> Nat]
        /\ \A i \in 1..n + 1 : new[i] = at[i]
        /\ new[n + 2] = Start(x, at[n + 1], Count(x) + 1)
    <2> HIDE DEF n
    <2>1. \A i \in 1..n + 2 : i <= n + 1 => i \in 1..n + 1
      BY <1>1
    <2>2. (n + 1) + 1 = n + 2
      BY <1>1
    <2> QED
      BY <1>1, <1>2, <1>3, <1>6, <2>1, <2>2
  <1> HIDE DEF new
  <1>8. \A i \in 1..Len(program') :
           new[i + 1] = Start(program'[i], new[i], Count(program'[i]) + 1)
    <2>1. SUFFICES ASSUME NEW i \in 1..n + 1
                   PROVE  new[i + 1] = Start(program'[i], new[i], Count(program'[i]) + 1)
      BY <1>2
    <2>2. CASE i \in 1..n
      <3>1. i + 1 \in 1..n + 1 /\ i \in 1..n + 1
        BY <1>1, <2>2
      <3> QED
        BY <1>2, <1>3, <1>7, <2>2, <3>1
    <2>3. CASE i = n + 1
      <3>1. i + 1 = n + 2
        BY <1>1, <2>3
      <3> QED
        BY <1>2, <1>7, <2>3, <3>1
    <2> QED
      BY <1>1, <2>2, <2>3
  <1>9. \A i \in 1..n : Complete(ctx', program'[i], new[i])
    <2>1. \A i \in 1..n : i \in 1..n + 1
      BY <1>1
    <2> QED
      BY <1>1, <1>2, <1>4, <1>7, <2>1
  <1>10. Pushed(ctx', pending', x, new[n + 1], 0)
    <2>1. n + 1 \in 1..n + 1
      BY <1>1
    <2>2. Start(x, new[n + 1], 0 + 1) = ctx.len
      BY <1>4, <1>7, <2>1 DEF Start
    <2>3. SubSeq(Fields(x), 0 + 1, Count(x)) = Fields(x)
      <3>1. Fields(x) \in Seq(Field) /\ Len(Fields(x)) = Count(x)
        BY FieldsAre
      <3>2. SubSeq(Fields(x), 1, Len(Fields(x))) = Fields(x)
        BY <3>1, SubSeqFull
      <3>3. 0 + 1 = 1
        OBVIOUS
      <3> QED
        BY <3>1, <3>2, <3>3
    <2> QED
      BY <1>1, <2>2, <2>3 DEF Pushed
  <1>11. Layout(ctx', pending', program', new)
    <2>1. Len(program') # 0 /\ Len(program') - 1 = n /\ 0 \in 0..Count(x)
      BY <1>1, <1>2, <1>5
    <2>2. new[1] = 0
      BY <1>1, <1>3, <1>7
    <2>3. Pushed(ctx', pending', program'[Len(program')], new[Len(program')], 0)
      BY <1>2, <1>10
    <2> HIDE DEF n
    <2> QED
      BY <1>2, <1>7, <1>8, <1>9, <2>1, <2>2, <2>3 DEF Layout
  <1> QED
    BY <1>2, <1>11

\* A push moves on by one field.
LEMMA LayoutPush ==
  ASSUME BufferOK, program \in Seq(Instrs), NEW at, Layout(ctx, pending, program, at),
         PushField, ~failed'
  PROVE  Layout(ctx', pending', program', at)
  <1> DEFINE n == Len(program)
             x == program[n]
             a == at[n]
  <1>1. n \in Nat /\ n # 0 /\ n \in 1..n /\ program' = program
    BY DEF PushField, Layout
  <1>2. x \in Instrs
    BY <1>1, ElementOfSeq
  <1>3. /\ at \in [1..n + 1 -> Nat] /\ at[1] = 0
        /\ \A i \in 1..n : at[i + 1] = Start(program[i], at[i], Count(program[i]) + 1)
        /\ \A i \in 1..n - 1 : Complete(ctx, program[i], at[i])
    BY DEF Layout
  <1>4. a \in Nat
    BY <1>1, <1>3
  <1>5. PICK q \in 0..Count(x) : Pushed(ctx, pending, x, a, q)
    BY <1>1 DEF Layout
  <1> HIDE DEF x, a, n
  <1>6. Count(x) \in Nat /\ q \in Nat
    BY <1>2, InstrIs
  <1>7. Fields(x) \in Seq(Field) /\ Len(Fields(x)) = Count(x)
    BY <1>2, FieldsAre
  <1>8. /\ pending = SubSeq(Fields(x), q + 1, Count(x))
        /\ ctx.len = Start(x, a, q + 1)
        /\ \A j \in 1..q : Holds(ctx, x, a, j)
    BY <1>5 DEF Pushed
  <1>9. q + 1 <= Count(x)
    <2>1. CASE Count(x) < q + 1
      <3>1. pending = <<>>
        BY <1>6, <1>8, <2>1, SubSeqEmpty
      <3> QED
        BY <3>1 DEF PushField
    <2> QED
      BY <1>6, <2>1
  <1>10. q + 1 \in 1..Count(x) /\ (q + 1) + 1 = q + 2 /\ Count(x) \in q + 1 .. Count(x)
    BY <1>6, <1>9
  <1>11. Head(pending) = Fields(x)[q + 1] /\ Tail(pending) = SubSeq(Fields(x), q + 2, Count(x))
    BY <1>7, <1>8, <1>10, HeadTailOfSubSeq
  <1> DEFINE bytes == Bytes(Fields(x)[q + 1])
             w == Width(x, q + 1)
  <1>12. w \in Nat \ {0} /\ DOMAIN bytes = 1..w /\ Len(bytes) = w
    BY <1>2, <1>10, FieldsAre, BytesAre
  <1>13. Push(bytes) /\ pending' = SubSeq(Fields(x), q + 2, Count(x))
    BY <1>11 DEF PushField
  <1>14. Start(x, a, q + 2) = Start(x, a, q + 1) + w
    BY <1>2, <1>4, <1>10, StartIs
  <1> HIDE DEF bytes, w
  <1>15. /\ ctx'.len = ctx.len + w /\ ctx.len \in Nat
         /\ \A i \in 1..ctx.len : ctx'.mem[i] = ctx.mem[i]
         /\ \A b \in 1..w : ctx'.mem[ctx.len + b] = bytes[b]
    BY <1>12, <1>13, PushAdds
  <1> DEFINE d == ctx'
  <1>16. d.len \in Nat /\ ctx.len <= d.len /\ d.len = Start(x, a, q + 2)
    BY <1>8, <1>12, <1>14, <1>15
  <1>17. \A i \in 1..ctx.len : d.mem[i] = ctx.mem[i]
    BY <1>15
  <1>18. Holds(d, x, a, q + 1)
    <2>1. \A b \in 1..w : d.mem[Start(x, a, q + 1) + b] = bytes[b]
      BY <1>8, <1>15
    <2> QED
      BY <2>1 DEF Holds, bytes, w
  <1> HIDE DEF d
  <1>19. ASSUME NEW j \in 1..q PROVE Holds(d, x, a, j)
    <2>1. j \in 1..Count(x) /\ j + 1 \in 1..q + 1 /\ q + 1 \in 1..Count(x) + 1
      BY <1>6, <1>9
    <2>2. Start(x, a, j + 1) <= Start(x, a, q + 1)
      BY <1>2, <1>4, <2>1, StartGrows
    <2>3. Holds(ctx, x, a, j)
      BY <1>8
    <2> QED
      BY <1>2, <1>4, <1>8, <1>15, <1>17, <2>1, <2>2, <2>3, HoldsOn
  <1>20. \A j \in 1..q + 1 : Holds(d, x, a, j)
    <2>1. \A j \in 1..q + 1 : j \in 1..q \/ j = q + 1
      BY <1>6
    <2> QED
      BY <1>18, <1>19, <2>1
  <1>21. Pushed(d, pending', x, a, q + 1)
    BY <1>10, <1>13, <1>16, <1>20 DEF Pushed
  <1>22. ASSUME NEW i \in 1..n - 1 PROVE Complete(d, program[i], at[i])
    <2>1. i \in 1..n /\ i \in 1..n + 1
      BY <1>1
    <2>2. program[i] \in Instrs
      BY <2>1, ElementOfSeq DEF n
    <2>3. at[i] \in Nat
      BY <1>3, <2>1
    <2>4. Complete(ctx, program[i], at[i])
      BY <1>3
    <2> QED
      BY <1>15, <1>16, <1>17, <2>2, <2>3, <2>4, CompleteOn
  <1>23. q + 1 \in 0..Count(x)
    BY <1>10
  <1>24. Layout(d, pending', program, at)
    BY <1>1, <1>3, <1>21, <1>22, <1>23 DEF Layout, n, x, a
  <1> QED
    BY <1>1, <1>24 DEF d

-----------------------------------------------------------------------------
\* Reading where a field starts gives its value.
LEMMA ReadIs ==
  ASSUME NEW x \in Instrs, NEW a \in Nat, NEW j \in 1..Count(x), Complete(ctx, x, a),
         ctx.len \in Nat
  PROVE  Read(Fields(x)[j].type, Start(x, a, j)) = Fields(x)[j].val
  <1> DEFINE f == Fields(x)[j]
             w == Size[f.type]
             s == Start(x, a, j)
             bytes == SubSeq(ctx.mem, s + 1, s + w)
             S == {ctx.mem[i] : i \in s + 1 .. s + w}
  <1>1. f \in Field /\ w \in Nat \ {0} /\ w = Width(x, j)
    BY FieldsAre DEF Width
  <1>2. s \in Nat /\ s + w = Start(x, a, j + 1) /\ Count(x) \in Nat
        /\ j + 1 \in 1..Count(x) + 1 /\ Count(x) + 1 \in 1..Count(x) + 1
    <2>1. Count(x) \in Nat /\ j \in 1..Count(x) + 1 /\ j + 1 \in 1..Count(x) + 1
      BY InstrIs
    <2> QED
      BY <1>1, <2>1, StartIs
  <1>3. s + w <= ctx.len
    <2>1. Start(x, a, j + 1) <= Start(x, a, Count(x) + 1)
      BY <1>2, StartGrows
    <2>2. Start(x, a, Count(x) + 1) <= ctx.len /\ Start(x, a, Count(x) + 1) \in Nat
      BY <1>2, StartIs DEF Complete
    <2> QED
      BY <1>1, <1>2, <2>1, <2>2
  <1>4. \A b \in 1..w : ctx.mem[s + b] = Bytes(f)[b]
    BY <1>1 DEF Complete, Holds
  <1>5. f.val = f.val /\ f = [type |-> f.type, val |-> f.val]
    BY <1>1 DEF Field
  <1>6. Bytes(f) = [i \in 1..w |-> [type |-> f.type, val |-> f.val, part |-> i]]
    BY DEF Bytes
  <1> HIDE DEF s, f, w, bytes, S
  <1>7. bytes \in Seq(S) /\ Len(bytes) = w /\ \A b \in 1..w : bytes[b] = ctx.mem[s + b]
    <2>1. s + 1 \in Int /\ s + w \in Int /\ s + 1 <= s + w /\ (s + w) - (s + 1) + 1 = w
      BY <1>1, <1>2
    <2>2. \A i \in s + 1 .. s + w : ctx.mem[i] \in S
      BY DEF S
    <2>3. /\ bytes \in Seq(S) /\ Len(bytes) = (s + w) - (s + 1) + 1
          /\ \A b \in 1..(s + w) - (s + 1) + 1 : bytes[b] = ctx.mem[(s + 1) + b - 1]
      BY <2>1, <2>2, SubSeqProperties DEF bytes
    <2>4. \A b \in 1..w : (s + 1) + b - 1 = s + b
      BY <1>1, <1>2
    <2> QED
      BY <2>1, <2>3, <2>4
  <1>8. bytes = Bytes(f)
    <2>1. DOMAIN bytes = 1..w /\ bytes = [b \in 1..w |-> bytes[b]]
      BY <1>1, <1>7
    <2>2. DOMAIN Bytes(f) = 1..w /\ Bytes(f) = [b \in 1..w |-> Bytes(f)[b]]
      BY <1>6
    <2>3. \A b \in 1..w : bytes[b] = Bytes(f)[b]
      BY <1>4, <1>7
    <2> QED
      BY <2>1, <2>2, <2>3
  <1>9. bytes[1].val = f.val
    <2>1. 1 \in 1..w
      BY <1>1
    <2>2. Bytes(f)[1] = [type |-> f.type, val |-> f.val, part |-> 1]
      BY <1>6, <2>1
    <2> QED
      BY <1>8, <2>2
  <1>10. bytes = Bytes([type |-> f.type, val |-> bytes[1].val])
    BY <1>5, <1>8, <1>9
  <1>11. Read(f.type, s) = bytes[1].val
    BY <1>3, <1>10 DEF Read, bytes, w
  <1> QED
    BY <1>9, <1>11 DEF f, s

\* Fetching where an instruction starts gives it and the index of the next one.
LEMMA FetchIs ==
  ASSUME NEW x \in Instrs, NEW a \in Nat, Complete(ctx, x, a), ctx.len \in Nat
  PROVE  /\ Fetch(a) # NULL
         /\ Fetch(a).op = x.op /\ Fetch(a).args = x.args
         /\ Fetch(a).next = Start(x, a, Count(x) + 1)
  <1> DEFINE types == Opcodes[x.op].args
             n == Len(x.args)
             args == [i \in DOMAIN types |-> Read(types[i], After(types, a, i - 1))]
  <1>1. /\ x.op \in Nat /\ x.args \in Seq(Nat) /\ n \in Nat /\ n = Len(types)
        /\ types \in Seq(DOMAIN Size) /\ Count(x) = n + 1
    BY InstrIs DEF Count
  <1>2. Read("op", a) = x.op
    <2>1. 1 \in 1..Count(x)
      BY <1>1
    <2>2. Read(Fields(x)[1].type, Start(x, a, 1)) = Fields(x)[1].val
      BY <2>1, ReadIs
    <2>3. Start(x, a, 1) = a
      BY DEF Start
    <2> DEFINE v == x.op
    <2>4. Fields(x)[1] = [type |-> "op", val |-> v]
      BY FieldsAre
    <2> HIDE DEF v
    <2>5. Fields(x)[1].type = "op" /\ Fields(x)[1].val = v
      BY <2>4
    <2> QED
      BY <2>2, <2>3, <2>5 DEF v
  <1>3. ASSUME NEW i \in 1..n PROVE Read(types[i], After(types, a, i - 1)) = x.args[i]
    <2> DEFINE t == types[i]
               v == x.args[i]
    <2>1. i + 1 \in 1..Count(x) /\ i + 1 # 1 /\ (i + 1) - 2 = i - 1
      BY <1>1
    <2>2. Read(Fields(x)[i + 1].type, Start(x, a, i + 1)) = Fields(x)[i + 1].val
      BY <2>1, ReadIs
    <2>3. Start(x, a, i + 1) = After(types, a, i - 1)
      BY <2>1 DEF Start
    <2>4. Fields(x)[i + 1] = [type |-> t, val |-> v]
      BY FieldsAre
    <2> HIDE DEF t, v
    <2>5. Fields(x)[i + 1].type = t /\ Fields(x)[i + 1].val = v
      BY <2>4
    <2> QED
      BY <2>2, <2>3, <2>5 DEF t, v
  <1>4. After(types, a, Len(types)) = Start(x, a, Count(x) + 1)
    <2>1. Count(x) + 1 # 1 /\ (Count(x) + 1) - 2 = Len(types)
      BY <1>1
    <2> QED
      BY <2>1 DEF Start
  <1>5. DOMAIN types = 1..n /\ DOMAIN x.args = 1..n
        /\ \A i \in 1..n : x.args[i] \in Nat
    BY <1>1
  <1>6. args = x.args
    <2>1. args = [i \in 1..n |-> x.args[i]]
      BY <1>3, <1>5
    <2>2. x.args = [i \in 1..n |-> x.args[i]]
      BY <1>1
    <2> QED
      BY <2>1, <2>2
  <1>7. x.op # NULL /\ NULL \notin ToSet(args)
    <2>1. \A v \in ToSet(x.args) : v \in Nat
      BY <1>5 DEF ToSet
    <2> QED
      BY <1>1, <1>6, <2>1, NullAssumption
  <1>8. Fetch(a) = [op |-> x.op, args |-> args, next |-> After(types, a, Len(types))]
    BY <1>2, <1>7 DEF Fetch
  <1> DEFINE r == [op |-> x.op, args |-> x.args, next |-> Start(x, a, Count(x) + 1)]
  <1>9. Fetch(a) = r
    BY <1>4, <1>6, <1>8
  <1>10. r # NULL
    <2>1. Start(x, a, Count(x) + 1) \in Nat
      BY <1>1, StartIs
    <2>2. r \in [op : Nat, args : Seq(Nat), next : Nat]
      BY <1>1, <2>1
    <2> QED
      BY <2>2, NullAssumption
  <1> QED
    BY <1>9, <1>10

\* The interpreters find the instructions one after the other, and then the end.
LEMMA LayoutFetch ==
  ASSUME BufferOK, program \in Seq(Instrs), NEW at, Layout(ctx, pending, program, at),
         pending = <<>>, NEW i \in 1..Len(program) + 1
  PROVE  /\ i = Len(program) + 1 => ~(at[i] < ctx.len)
         /\ i \in 1..Len(program) =>
               /\ at[i] < ctx.len /\ Fetch(at[i]) # NULL
               /\ Fetch(at[i]).op = program[i].op /\ Fetch(at[i]).args = program[i].args
               /\ Fetch(at[i]).next = at[i + 1]
  <1>1. /\ \A k \in 1..Len(program) : Complete(ctx, program[k], at[k])
        /\ ctx.len = at[Len(program) + 1]
    BY LayoutDone
  <1>2. ctx.len \in Nat
    BY DEF BufferOK
  <1>3. CASE i = Len(program) + 1
    BY <1>1, <1>2, <1>3
  <1>4. CASE i \in 1..Len(program)
    <2> DEFINE x == program[i]
               a == at[i]
    <2>1. x \in Instrs
      BY <1>4, ElementOfSeq
    <2>2. a \in Nat /\ at[i + 1] = Start(x, a, Count(x) + 1)
      BY <1>4 DEF Layout
    <2>3. Complete(ctx, x, a)
      BY <1>1, <1>4
    <2> HIDE DEF x, a
    <2>4. a < ctx.len
      <3>1. Count(x) \in Nat /\ 1 \in 1..Count(x) /\ 2 \in 1..Count(x) + 1 /\ 1 + 1 = 2
            /\ 1 \in 1..Count(x) + 1 /\ Count(x) + 1 \in 1..Count(x) + 1
        BY <2>1, InstrIs
      <3>2. Start(x, a, 1) = a /\ Start(x, a, 2) = Start(x, a, 1) + Width(x, 1)
        BY <2>1, <2>2, <3>1, StartIs
      <3>3. Width(x, 1) \in Nat \ {0}
        BY <2>1, <3>1, FieldsAre
      <3>4. Start(x, a, 2) <= Start(x, a, Count(x) + 1)
        BY <2>1, <2>2, <3>1, StartGrows
      <3>5. Start(x, a, Count(x) + 1) \in Nat
        BY <2>1, <2>2, <3>1, StartIs
      <3>6. Start(x, a, Count(x) + 1) <= ctx.len
        BY <2>3 DEF Complete
      <3>7. Start(x, a, 2) \in Nat /\ a < Start(x, a, 2)
        BY <2>2, <3>2, <3>3
      <3> HIDE DEF x, a
      <3> QED
        BY <1>2, <2>2, <3>4, <3>5, <3>6, <3>7
    <2>5. /\ Fetch(a) # NULL /\ Fetch(a).op = x.op /\ Fetch(a).args = x.args
          /\ Fetch(a).next = Start(x, a, Count(x) + 1)
      BY <1>2, <2>1, <2>2, <2>3, FetchIs
    <2>6. i # Len(program) + 1
      BY <1>4
    <2> QED
      BY <2>2, <2>4, <2>5, <2>6 DEF x, a
  <1> QED
    BY <1>3, <1>4

-----------------------------------------------------------------------------
(***************************************************************************)
(* The compiler and the interpreter of the x86 machine.                    *)
(***************************************************************************)
X86Machine == /\ Opcodes = X86Opcodes
              /\ \A type, string : Parse(type, string) = X86Parse(type, string)

Register == DOMAIN Registers

LEMMA RegistersAre == Register \in SUBSET Nat /\ RAX \in Register
  <1>1. Registers \in Seq(STRING) /\ Registers # <<>> /\ Len(Registers) \in Nat
    BY RegistersAssumption
  <1>2. Register = 1..Len(Registers) /\ Len(Registers) # 0
    BY <1>1 DEF Register
  <1> QED
    BY <1>1, <1>2 DEF RAX

\* What an instruction of the machine is, by its opcode.
LEMMA MachineIs ==
  ASSUME X86Machine, NEW x \in Instrs
  PROVE  \/ /\ Base(x) = "mov" /\ Len(x.args) = 2
            /\ x.args[1] \in Register /\ x.args[2] \in Nat
         \/ /\ Base(x) = "imul" /\ Len(x.args) = 3
            /\ x.args[1] \in Register /\ x.args[2] \in Register /\ x.args[3] \in Register
         \/ Base(x) = "ret" /\ Len(x.args) = 0
  <1> DEFINE types == Opcodes[x.op].args
             args == x.args
  <1>1. /\ x.op \in DOMAIN X86Opcodes /\ args \in Seq(Nat)
        /\ Len(args) = Len(types)
        /\ \A i \in DOMAIN args : types[i] = "r64" => args[i] \in Register
    BY DEF Instrs, Typed, Register, X86Machine
  <1>2. Opcodes = X86Opcodes
    BY DEF X86Machine
  <1> HIDE DEF args
  <1>3. /\ Len(args) \in Nat /\ DOMAIN args = 1..Len(args)
        /\ \A i \in 1..Len(args) : args[i] \in Nat
    BY <1>1
  <1>4. x.op \in {1, 2, 3}
    BY <1>1 DEF X86Opcodes
  <1>5. CASE x.op = 1
    <2>1. Base(x) = "mov" /\ types = <<"r64", "imm64">>
      BY <1>2, <1>5 DEF Base, X86Opcodes
    <2> HIDE DEF types
    <2>2. Len(types) = 2 /\ types[1] = "r64"
      BY <2>1
    <2>3. args[1] \in Register /\ args[2] \in Nat
      BY <1>1, <1>3, <2>2
    <2> QED
      BY <1>1, <2>1, <2>2, <2>3 DEF args
  <1>6. CASE x.op = 2
    <2>1. Base(x) = "imul" /\ types = <<"r64", "r64", "r64">>
      BY <1>2, <1>6 DEF Base, X86Opcodes
    <2> HIDE DEF types
    <2>2. Len(types) = 3 /\ types[1] = "r64" /\ types[2] = "r64" /\ types[3] = "r64"
      BY <2>1
    <2>3. args[1] \in Register /\ args[2] \in Register /\ args[3] \in Register
      BY <1>1, <1>3, <2>2
    <2> QED
      BY <1>1, <2>1, <2>2, <2>3 DEF args
  <1>7. CASE x.op = 3
    <2>1. Base(x) = "ret" /\ types = <<>>
      BY <1>2, <1>7 DEF Base, X86Opcodes
    <2> QED
      BY <1>1, <2>1 DEF args
  <1> QED
    BY <1>4, <1>5, <1>6, <1>7

\* The machine code of an instruction.
LEMMA SameEmitted ==
  ASSUME NEW x, NEW y, x.op = y.op, x.args = y.args
  PROVE  Base(x) = Base(y) /\ Emitted(x) = Emitted(y)
  BY DEF Base, Emitted

Codes == UNION {ToSet(Emitted(x)) : x \in Instrs}

LEMMA EmittedIs ==
  ASSUME X86Machine, NEW x \in Instrs
  PROVE  /\ Emitted(x) \in Seq(Codes)
         /\ Base(x) = "mov" =>
               /\ Len(Emitted(x)) = 1
               /\ Emitted(x)[1] = [op |-> "mov64", to |-> x.args[1], from |-> x.args[2]]
         /\ Base(x) = "imul" =>
               /\ Len(Emitted(x)) = 2
               /\ Emitted(x)[1] = [op |-> "mov", to |-> x.args[1], from |-> x.args[2]]
               /\ Emitted(x)[2] = [op |-> "imul", to |-> x.args[1], from |-> x.args[3]]
         /\ Base(x) = "ret" => Len(Emitted(x)) = 1 /\ Emitted(x)[1] = [op |-> "ret"]
         /\ Len(Emitted(x)) \in {1, 2}
  <1> DEFINE e == Emitted(x)
             mov == [op |-> "mov64", to |-> x.args[1], from |-> x.args[2]]
             copy == [op |-> "mov",  to |-> x.args[1], from |-> x.args[2]]
             mul == [op |-> "imul", to |-> x.args[1], from |-> x.args[3]]
             ret == [op |-> "ret"]
  <1>1. /\ Base(x) = "mov" => e = <<mov>>
        /\ Base(x) = "imul" => e = <<copy, mul>>
        /\ Base(x) = "ret" => e = <<ret>>
    BY DEF Emitted
  <1>2. Base(x) \in {"mov", "imul", "ret"}
    BY MachineIs
  <1>3. ToSet(e) \subseteq Codes
    BY DEF Codes
  <1> HIDE DEF e, mov, copy, mul, ret
  <1>4. /\ Base(x) = "mov" => Len(e) = 1 /\ e[1] = mov
        /\ Base(x) = "imul" => Len(e) = 2 /\ e[1] = copy /\ e[2] = mul
        /\ Base(x) = "ret" => Len(e) = 1 /\ e[1] = ret
    BY <1>1
  <1>5. e \in Seq(ToSet(e))
    <2>1. CASE Base(x) = "mov"
      <3>1. e = <<mov>> /\ ToSet(<<mov>>) = {mov}
        BY <1>1, <2>1 DEF ToSet
      <3> QED
        BY <3>1
    <2>2. CASE Base(x) = "imul"
      <3>1. e = <<copy, mul>> /\ copy \in ToSet(<<copy, mul>>) /\ mul \in ToSet(<<copy, mul>>)
        BY <1>1, <2>2 DEF ToSet
      <3> QED
        BY <3>1
    <2>3. CASE Base(x) = "ret"
      <3>1. e = <<ret>> /\ ToSet(<<ret>>) = {ret}
        BY <1>1, <2>3 DEF ToSet
      <3> QED
        BY <3>1
    <2> QED
      BY <1>2, <2>1, <2>2, <2>3
  <1>6. e \in Seq(Codes)
    BY <1>3, <1>5, SeqMonotonic
  <1> QED
    BY <1>2, <1>4, <1>6 DEF e, mov, copy, mul, ret

\* The machine code of the first instructions of a program, the k-th of which
\* starts at cp[k].
Coded(prog, c, cp, i) ==
    /\ cp[1] = 1 /\ cp[i] = Len(c) + 1
    /\ \A k \in 1..i : cp[k] \in Nat \ {0}
    /\ \A k \in 1..i - 1 :
          /\ cp[k + 1] = cp[k] + Len(Emitted(prog[k])) /\ cp[k + 1] <= Len(c) + 1
          /\ \A b \in 1..Len(Emitted(prog[k])) : c[cp[k] + b - 1] = Emitted(prog[k])[b]

LEMMA CodedOn ==
  ASSUME X86Machine, NEW prog \in Seq(Instrs), NEW c \in Seq(Codes), NEW i \in 1..Len(prog),
         NEW cp, Coded(prog, c, cp, i)
  PROVE  /\ c \o Emitted(prog[i]) \in Seq(Codes)
         /\ \E new : Coded(prog, c \o Emitted(prog[i]), new, i + 1)
  <1> DEFINE e == Emitted(prog[i])
             d == c \o e
             new == [k \in 1..i + 1 |-> IF k <= i THEN cp[k] ELSE Len(c) + Len(e) + 1]
  <1>1. e \in Seq(Codes) /\ Len(e) \in Nat \ {0} /\ Len(c) \in Nat /\ i \in Nat
    <2>1. prog[i] \in Instrs
      BY ElementOfSeq
    <2>2. e \in Seq(Codes) /\ Len(e) \in {1, 2}
      BY <2>1, EmittedIs
    <2> HIDE DEF e
    <2>3. \A m \in {1, 2} : m \in Nat \ {0}
      OBVIOUS
    <2>4. Len(e) \in Nat \ {0}
      BY <2>2, <2>3
    <2> QED
      BY <2>2, <2>4
  <1> HIDE DEF e
  <1>2. /\ d \in Seq(Codes) /\ Len(d) = Len(c) + Len(e)
        /\ \A k \in 1..Len(c) + Len(e) : d[k] = IF k <= Len(c) THEN c[k] ELSE e[k - Len(c)]
    BY <1>1, ConcatProperties
  <1>3. /\ cp[1] = 1 /\ cp[i] = Len(c) + 1
        /\ \A k \in 1..i : cp[k] \in Nat \ {0}
        /\ \A k \in 1..i - 1 :
              /\ cp[k + 1] = cp[k] + Len(Emitted(prog[k])) /\ cp[k + 1] <= Len(c) + 1
              /\ \A b \in 1..Len(Emitted(prog[k])) : c[cp[k] + b - 1] = Emitted(prog[k])[b]
    BY DEF Coded
  <1>4. /\ \A k \in 1..i : new[k] = cp[k]
        /\ new[i + 1] = Len(c) + Len(e) + 1
    <2>1. \A k \in 1..i : k \in 1..i + 1 /\ k <= i
      BY <1>1
    <2> QED
      BY <1>1, <2>1
  <1> HIDE DEF d, new
  <1>5. new[1] = 1 /\ new[i + 1] = Len(d) + 1
    BY <1>1, <1>2, <1>3, <1>4
  <1>6. \A k \in 1..i + 1 : new[k] \in Nat \ {0}
    <2>1. \A k \in 1..i + 1 : k \in 1..i \/ k = i + 1
      BY <1>1
    <2>2. Len(c) + Len(e) + 1 \in Nat \ {0}
      BY <1>1
    <2>3. \A k \in 1..i : cp[k] \in Nat \ {0}
      BY <1>3
    <2> QED
      BY <1>4, <2>1, <2>2, <2>3
  <1>7. ASSUME NEW k \in 1..i
        PROVE  /\ new[k + 1] = new[k] + Len(Emitted(prog[k])) /\ new[k + 1] <= Len(d) + 1
               /\ \A b \in 1..Len(Emitted(prog[k])) : d[new[k] + b - 1] = Emitted(prog[k])[b]
    <2>1. CASE k = i
      <3>1. new[k] = Len(c) + 1 /\ Emitted(prog[k]) = e
        BY <1>3, <1>4, <2>1 DEF e
      <3>2. \A b \in 1..Len(e) : d[Len(c) + 1 + b - 1] = e[b]
        <4>1. \A b \in 1..Len(e) : /\ Len(c) + 1 + b - 1 = Len(c) + b
                                   /\ Len(c) + b \in 1..Len(c) + Len(e)
                                   /\ ~(Len(c) + b <= Len(c)) /\ (Len(c) + b) - Len(c) = b
          BY <1>1
        <4> QED
          BY <1>2, <4>1
      <3> QED
        BY <1>1, <1>2, <1>4, <2>1, <3>1, <3>2
    <2>2. CASE k # i
      <3>1. k \in 1..i - 1 /\ k + 1 \in 1..i
        BY <1>1, <2>2
      <3>2. new[k] = cp[k] /\ new[k + 1] = cp[k + 1] /\ cp[k] \in Nat \ {0}
        BY <1>3, <1>4, <3>1
      <3> DEFINE f == Emitted(prog[k])
      <3>3. /\ cp[k + 1] = cp[k] + Len(f) /\ cp[k + 1] <= Len(c) + 1
            /\ \A b \in 1..Len(f) : c[cp[k] + b - 1] = f[b]
        BY <1>3, <3>1
      <3>4. Len(f) \in Nat
        <4>1. k \in 1..Len(prog)
          BY <1>1, <3>1
        <4>2. prog[k] \in Instrs
          BY <4>1, ElementOfSeq
        <4>3. Len(Emitted(prog[k])) \in {1, 2}
          BY <4>2, EmittedIs
        <4> QED
          BY <4>3
      <3> HIDE DEF f
      <3>5. ASSUME NEW b \in 1..Len(f) PROVE d[cp[k] + b - 1] = f[b]
        <4>1. cp[k] + b - 1 \in 1..Len(c) /\ cp[k] + b - 1 \in 1..Len(c) + Len(e)
              /\ cp[k] + b - 1 <= Len(c)
          <5> DEFINE q == cp[k]
                     l == Len(f)
                     m == Len(c)
                     t == Len(e)
          <5>1. q \in Nat \ {0} /\ l \in Nat /\ m \in Nat /\ t \in Nat /\ q + l <= m + 1 /\ b \in 1..l
            BY <1>1, <3>2, <3>3, <3>4
          <5> HIDE DEF q, l, m, t
          <5>2. q + b - 1 \in 1..m /\ q + b - 1 \in 1..m + t /\ q + b - 1 <= m
            BY <5>1
          <5> QED
            BY <5>2 DEF q, l, m, t
        <4> QED
          BY <1>2, <3>3, <4>1
      <3>6. new[k + 1] <= Len(d) + 1
        <4>1. cp[k + 1] \in Nat
          BY <1>3, <3>1
        <4> QED
          BY <1>1, <1>2, <3>2, <3>3, <4>1
      <3> QED
        BY <3>2, <3>3, <3>5, <3>6 DEF f
    <2> QED
      BY <2>1, <2>2
  <1>8. (i + 1) - 1 = i
    BY <1>1
  <1>9. Coded(prog, d, new, i + 1)
    BY <1>5, <1>6, <1>7, <1>8 DEF Coded
  <1> QED
    BY <1>2, <1>9 DEF d, e

\* The registers after each of the first instructions of a program.
IsRegs(r) == r = [n \in Register |-> r[n]]

\* After the first of the two machine instructions of an imul.
Halfway(x, r) == [r EXCEPT ![x.args[1]] = r[x.args[2]]]

Trace(prog, R, i) ==
    /\ R[1] = Fresh
    /\ \A k \in 1..i : IsRegs(R[k])
    /\ \A k \in 1..i - 1 : R[k + 1] = Effect(prog[k], R[k])

\* No instruction before the i-th returns.
Straight(prog, i) == \A k \in 1..i - 1 : Base(prog[k]) # "ret"

LEMMA EffectIs ==
  ASSUME NEW x, NEW r, IsRegs(r)
  PROVE  IsRegs(Effect(x, r)) /\ IsRegs(Halfway(x, r))
  <1>1. ASSUME NEW a, NEW v PROVE IsRegs([r EXCEPT ![a] = v])
    <2>1. [r EXCEPT ![a] = v] = [n \in Register |-> IF n = a THEN v ELSE r[n]]
      BY DEF IsRegs
    <2> QED
      BY <2>1 DEF IsRegs
  <1> QED
    BY <1>1 DEF Effect, Halfway

LEMMA TraceStarts == ASSUME NEW prog PROVE \E R : Trace(prog, R, 1)
  <1> DEFINE R == [k \in 1..1 |-> Fresh]
  <1>1. R[1] = Fresh /\ 1..1 = {1} /\ 1..(1 - 1) = {}
    OBVIOUS
  <1>2. IsRegs(Fresh)
    BY DEF IsRegs, Fresh, Register
  <1> HIDE DEF R
  <1>3. Trace(prog, R, 1)
    BY <1>1, <1>2 DEF Trace
  <1> QED
    BY <1>3

LEMMA TraceOn ==
  ASSUME NEW prog, NEW R, NEW i \in Nat \ {0}, Trace(prog, R, i)
  PROVE  \E S : Trace(prog, S, i + 1) /\ S[i + 1] = Effect(prog[i], R[i])
  <1> DEFINE e == Effect(prog[i], R[i])
             S == [k \in 1..i + 1 |-> IF k <= i THEN R[k] ELSE e]
  <1>1. (\A k \in 1..i : S[k] = R[k]) /\ S[i + 1] = e
    <2>1. \A k \in 1..i : k \in 1..i + 1 /\ k <= i
      <3> SUFFICES ASSUME NEW k \in 1..i PROVE k \in 1..i + 1 /\ k <= i
        OBVIOUS
      <3> QED
        OBVIOUS
    <2>2. i + 1 \in 1..i + 1 /\ ~(i + 1 <= i)
      OBVIOUS
    <2> HIDE DEF e
    <2> QED
      BY <2>1, <2>2
  <1>2. IsRegs(e)
    <2>1. i \in 1..i
      OBVIOUS
    <2> QED
      BY <2>1, EffectIs DEF Trace
  <1> HIDE DEF S, e
  <1>3. S[1] = Fresh
    <2>1. 1 \in 1..i
      OBVIOUS
    <2> QED
      BY <1>1, <2>1 DEF Trace
  <1>4. \A k \in 1..i + 1 : IsRegs(S[k])
    <2>1. \A k \in 1..i + 1 : k \in 1..i \/ k = i + 1
      OBVIOUS
    <2> QED
      BY <1>1, <1>2, <2>1 DEF Trace
  <1>5. ASSUME NEW k \in 1..(i + 1) - 1 PROVE S[k + 1] = Effect(prog[k], S[k])
    <2>1. CASE k = i
      <3>1. i \in 1..i
        OBVIOUS
      <3> QED
        BY <1>1, <2>1, <3>1 DEF e
    <2>2. CASE k # i
      <3>1. k \in 1..i - 1 /\ k \in 1..i /\ k + 1 \in 1..i
        BY <2>2
      <3> QED
        BY <1>1, <3>1 DEF Trace
    <2> QED
      BY <2>1, <2>2
  <1> QED
    BY <1>1, <1>3, <1>4, <1>5 DEF Trace, e

\* Reached is such a trace.
ReachedBy(prog, f) ==
    f = [k \in 1..Len(prog) + 1 |-> IF k = 1 THEN Fresh ELSE Effect(prog[k - 1], f[k - 1])]

LEMMA ReachedIs ==
  ASSUME NEW prog, Len(prog) \in Nat
  PROVE  Trace(prog, Reached(prog), Len(prog) + 1)
  <1> DEFINE n == Len(prog)
             K == {k \in 0..n : \E R : Trace(prog, R, k + 1)}
  <1>1. 0 \in K
    <2>1. 0 + 1 = 1 /\ 0 \in 0..n
      OBVIOUS
    <2> QED
      BY <2>1, TraceStarts
  <1>2. ASSUME NEW k \in K, k + 1 <= n PROVE k + 1 \in K
    <2>1. k + 1 \in Nat \ {0} /\ k + 1 \in 0..n
      BY <1>2
    <2>2. \E R : Trace(prog, R, (k + 1) + 1)
      BY <2>1, TraceOn
    <2> QED
      BY <2>1, <2>2
  <1> HIDE DEF K
  <1>3. K = 0..n
    <2>1. K \in SUBSET (0..n)
      BY DEF K
    <2> QED
      BY <1>1, <1>2, <2>1, UpTo
  <1>4. PICK R : Trace(prog, R, n + 1)
    <2>1. n \in K
      BY <1>3
    <2> QED
      BY <2>1 DEF K
  <1> DEFINE f == [k \in 1..n + 1 |-> R[k]]
             g == [k \in 1..n + 1 |-> IF k = 1 THEN Fresh ELSE Effect(prog[k - 1], f[k - 1])]
  <1>5. f = g
    <2>1. ASSUME NEW k \in 1..n + 1
          PROVE  f[k] = IF k = 1 THEN Fresh ELSE Effect(prog[k - 1], f[k - 1])
      <3>1. CASE k = 1
        BY <1>4, <3>1 DEF Trace
      <3>2. CASE k # 1
        <4>1. k - 1 \in 1..(n + 1) - 1 /\ k - 1 \in 1..n + 1 /\ (k - 1) + 1 = k
          BY <3>2
        <4>2. R[(k - 1) + 1] = Effect(prog[k - 1], R[k - 1])
          BY <1>4, <4>1 DEF Trace
        <4>3. f[k - 1] = R[k - 1] /\ f[k] = R[k]
          BY <4>1
        <4> QED
          BY <3>2, <4>1, <4>2, <4>3
      <3> QED
        BY <3>1, <3>2
    <2> HIDE DEF f
    <2>2. f = [k \in 1..n + 1 |-> f[k]]
      BY DEF f
    <2> QED
      BY <2>1, <2>2
  <1>6. ReachedBy(prog, f)
    BY <1>5 DEF ReachedBy
  <1>7. Reached(prog) = CHOOSE h : ReachedBy(prog, h)
    BY DEF Reached, ReachedBy
  <1> DEFINE t == Reached(prog)
  <1>8. ReachedBy(prog, t)
    BY <1>6, <1>7
  <1> HIDE DEF f, g, t
  <1>9. \A k \in 1..n + 1 : t[k] = IF k = 1 THEN Fresh ELSE Effect(prog[k - 1], t[k - 1])
    <2> DEFINE h == [k \in 1..n + 1 |-> IF k = 1 THEN Fresh ELSE Effect(prog[k - 1], t[k - 1])]
    <2>1. \A k \in 1..n + 1 : h[k] = IF k = 1 THEN Fresh ELSE Effect(prog[k - 1], t[k - 1])
      OBVIOUS
    <2>2. t = h
      BY <1>8 DEF ReachedBy
    <2> HIDE DEF h
    <2> QED
      BY <2>1, <2>2
  <1>10. t[1] = Fresh
    <2>1. 1 \in 1..n + 1
      OBVIOUS
    <2> QED
      BY <1>9, <2>1
  <1>11. ASSUME NEW k \in 1..(n + 1) - 1 PROVE t[k + 1] = Effect(prog[k], t[k])
    <2>1. k + 1 \in 1..n + 1 /\ k + 1 # 1 /\ (k + 1) - 1 = k
      OBVIOUS
    <2> QED
      BY <1>9, <2>1
  <1>12. \A k \in 1..n + 1 : IsRegs(t[k])
    <2> DEFINE L == {k \in 0..n : IsRegs(t[k + 1])}
    <2>1. 0 \in L
      <3>1. IsRegs(Fresh)
        BY DEF IsRegs, Fresh, Register
      <3>2. 0 + 1 = 1 /\ 0 \in 0..n
        OBVIOUS
      <3> QED
        BY <1>10, <3>1, <3>2
    <2>2. ASSUME NEW k \in L, k + 1 <= n PROVE k + 1 \in L
      <3>1. k + 1 \in 1..(n + 1) - 1 /\ k + 1 \in 0..n /\ IsRegs(t[k + 1])
        BY <2>2
      <3>2. t[(k + 1) + 1] = Effect(prog[k + 1], t[k + 1])
        BY <1>11, <3>1
      <3> QED
        BY <3>1, <3>2, EffectIs
    <2> HIDE DEF L
    <2>3. L \in SUBSET (0..n)
      BY DEF L
    <2>4. L = 0..n
      BY <2>1, <2>2, <2>3, UpTo
    <2>5. \A k \in 1..n + 1 : k - 1 \in 0..n /\ (k - 1) + 1 = k
      OBVIOUS
    <2>6. ASSUME NEW k \in 1..n + 1 PROVE IsRegs(t[k])
      <3>1. k - 1 \in L /\ (k - 1) + 1 = k
        BY <2>4, <2>5
      <3> QED
        BY <3>1 DEF L
    <2> QED
      BY <2>6
  <1>13. Trace(prog, t, n + 1)
    BY <1>10, <1>11, <1>12 DEF Trace
  <1> QED
    BY <1>13 DEF t

\* What the compiler makes of a program has its length and its rets.
LEMMA AsCompiledIs ==
  ASSUME X86Machine, NEW prog \in Seq(Instrs)
  PROVE  /\ Len(AsCompiled(prog)) = Len(prog)
         /\ \A k \in 1..Len(prog) : /\ AsCompiled(prog)[k] = TwoOperand(prog[k])
                                    /\ Base(AsCompiled(prog)[k]) = Base(prog[k])
         /\ Returns(AsCompiled(prog)) = Returns(prog)
  <1> DEFINE n == Len(prog)
             c == AsCompiled(prog)
             V == {TwoOperand(x) : x \in Instrs}
  <1>1. n \in Nat /\ \A k \in 1..n : prog[k] \in Instrs
    BY ElementOfSeq
  <1>2. c \in [1..n -> V] /\ \A k \in 1..n : c[k] = TwoOperand(prog[k])
    <2>1. c = [k \in 1..n |-> TwoOperand(prog[k])]
      BY DEF AsCompiled
    <2> HIDE DEF c
    <2> QED
      BY <1>1, <2>1
  <1> HIDE DEF V, c
  <1>3. Len(c) = n
    BY <1>1, <1>2
  <1>4. ASSUME NEW k \in 1..n PROVE Base(c[k]) = Base(prog[k])
    <2> DEFINE x == prog[k]
    <2>1. x = [op |-> x.op, args |-> x.args]
      BY <1>1 DEF Instrs
    <2> HIDE DEF x
    <2>2. TwoOperand(x).op = x.op
      BY <2>1 DEF TwoOperand
    <2>3. c[k] = TwoOperand(x)
      BY <1>2 DEF x
    <2> QED
      BY <2>2, <2>3 DEF Base, x
  <1>5. Returns(c) = Returns(prog)
    BY <1>3, <1>4 DEF Returns
  <1> QED
    BY <1>2, <1>3, <1>4, <1>5 DEF c

\* The registers from one instruction to the next, as the program and as the
\* machine code have it.
LEMMA ReachedOn ==
  ASSUME X86Machine, NEW prog \in Seq(Instrs)
  PROVE  /\ Reached(prog)[1] = Fresh /\ Reached(AsCompiled(prog))[1] = Fresh
         /\ \A i \in 1..Len(prog) :
               /\ IsRegs(Reached(AsCompiled(prog))[i])
               /\ Reached(prog)[i + 1] = Effect(prog[i], Reached(prog)[i])
               /\ Reached(AsCompiled(prog))[i + 1]
                      = Effect(TwoOperand(prog[i]), Reached(AsCompiled(prog))[i])
  <1> DEFINE n == Len(prog)
             c == AsCompiled(prog)
  <1>1. n \in Nat /\ Len(c) = n /\ \A k \in 1..n : c[k] = TwoOperand(prog[k])
    BY AsCompiledIs
  <1>2. Trace(prog, Reached(prog), n + 1)
    BY <1>1, ReachedIs
  <1> HIDE DEF n, c
  <1>3. Trace(c, Reached(c), n + 1)
    BY <1>1, ReachedIs
  <1>4. (n + 1) - 1 = n /\ \A i \in 1..n : i \in 1..n + 1
    BY <1>1
  <1>5. ASSUME NEW i \in 1..n
        PROVE  /\ IsRegs(Reached(c)[i])
               /\ Reached(prog)[i + 1] = Effect(prog[i], Reached(prog)[i])
               /\ Reached(c)[i + 1] = Effect(TwoOperand(prog[i]), Reached(c)[i])
    BY <1>1, <1>2, <1>3, <1>4 DEF Trace
  <1>6. Reached(prog)[1] = Fresh /\ Reached(c)[1] = Fresh
    BY <1>2, <1>3 DEF Trace
  <1> QED
    BY <1>5, <1>6 DEF n, c

\* The first ret.
LEMMA FinalIs ==
  ASSUME NEW prog, Len(prog) \in Nat, NEW i \in 1..Len(prog), Base(prog[i]) = "ret", Straight(prog, i)
  PROVE  Final(prog) = Reached(prog)[i]
  <1> DEFINE S == Returns(prog)
  <1>1. S \in SUBSET Nat /\ i \in S
    BY DEF Returns
  <1>2. \A k \in S : ~(k < i)
    <2> SUFFICES ASSUME NEW k \in S, k < i PROVE FALSE
      OBVIOUS
    <2>1. k \in 1..i - 1 /\ Base(prog[k]) = "ret"
      BY DEF Returns
    <2> QED
      BY <2>1 DEF Straight
  <1> HIDE DEF S
  <1>3. Min(S) \in S /\ Min(S) <= i
    BY <1>1, MinOfNats
  <1>4. Min(S) = i
    <2>1. Min(S) \in Nat /\ i \in Nat /\ ~(Min(S) < i)
      BY <1>1, <1>2, <1>3
    <2> QED
      BY <1>3, <2>1
  <1> QED
    BY <1>4 DEF Final, S

LEMMA FinalCompiled ==
  ASSUME X86Machine, NEW prog \in Seq(Instrs), NEW i \in 1..Len(prog), Base(prog[i]) = "ret",
         Straight(prog, i)
  PROVE  Final(AsCompiled(prog)) = Reached(AsCompiled(prog))[i]
  <1> DEFINE c == AsCompiled(prog)
  <1>1. Len(c) = Len(prog) /\ Len(prog) \in Nat /\ \A k \in 1..Len(prog) : Base(c[k]) = Base(prog[k])
    BY AsCompiledIs
  <1>2. \A k \in 1..i - 1 : k \in 1..Len(prog)
    BY <1>1
  <1>3. Straight(c, i) /\ Base(c[i]) = "ret"
    BY <1>1, <1>2 DEF Straight
  <1> HIDE DEF c
  <1>4. Final(c) = Reached(c)[i]
    BY <1>1, <1>3, FinalIs
  <1> QED
    BY <1>4 DEF c

\* What the processor finds where the code of instruction x starts, at p; the next starts at q.
CodeIs(c, x, p, q) ==
  /\ p \in 1..Len(c) /\ p \in Nat
  /\ Base(x) = "mov" =>
        /\ c[p] = [op |-> "mov64", to |-> x.args[1], from |-> x.args[2]]
        /\ p + 1 = q
  /\ Base(x) = "imul" =>
        /\ c[p] = [op |-> "mov", to |-> x.args[1], from |-> x.args[2]]
        /\ p + 1 \in 1..Len(c)
        /\ c[p + 1] = [op |-> "imul", to |-> x.args[1], from |-> x.args[3]]
        /\ (p + 1) + 1 = q
  /\ Base(x) = "ret" => c[p] = [op |-> "ret"]

LEMMA CodeAt ==
  ASSUME X86Machine, NEW prog \in Seq(Instrs), NEW c \in Seq(Codes), NEW cp,
         Coded(prog, c, cp, Len(prog) + 1), NEW i \in 1..Len(prog)
  PROVE  CodeIs(c, prog[i], cp[i], cp[i + 1])
  <1> DEFINE x == prog[i]
             a == cp[i]
             e == Emitted(x)
  <1>1. x \in Instrs /\ i \in 1..(Len(prog) + 1) - 1 /\ i \in 1..Len(prog) + 1 /\ Len(c) \in Nat
    BY ElementOfSeq
  <1>2. /\ a \in Nat \ {0} /\ cp[i + 1] = a + Len(e) /\ cp[i + 1] <= Len(c) + 1
        /\ \A b \in 1..Len(e) : c[a + b - 1] = e[b]
    BY <1>1 DEF Coded
  <1> HIDE DEF x, a, e
  <1>3. Len(e) \in {1, 2}
    BY <1>1, EmittedIs DEF e
  <1> DEFINE n == Len(e)
  <1> HIDE DEF n
  <1>4. c[a] = e[1]
    <2>1. 1 \in 1..Len(e) /\ a + 1 - 1 = a
      <3>1. a \in Nat /\ n \in {1, 2}
        BY <1>2, <1>3 DEF n
      <3>2. 1 \in 1..n /\ a + 1 - 1 = a
        BY <3>1
      <3> QED
        BY <3>2 DEF n
    <2>2. c[a + 1 - 1] = e[1]
      BY <1>2, <2>1
    <2> QED
      BY <2>1, <2>2
  <1>5. Len(e) = 2 => c[a + 1] = e[2]
    <2>1. Len(e) = 2 => 2 \in 1..Len(e) /\ a + 2 - 1 = a + 1
      BY <1>2, <1>3
    <2>2. Len(e) = 2 => c[a + 2 - 1] = e[2]
      BY <1>2, <2>1
    <2> QED
      BY <2>1, <2>2
  <1>6. a \in 1..Len(c) /\ (Len(e) = 2 => a + 1 \in 1..Len(c) /\ (a + 1) + 1 = cp[i + 1])
        /\ (Len(e) = 1 => a + 1 = cp[i + 1])
    <2> DEFINE m == Len(c)
               q == cp[i + 1]
    <2>1. /\ a \in Nat \ {0} /\ n \in {1, 2} /\ m \in Nat
          /\ q = a + n /\ q <= m + 1
      BY <1>1, <1>2, <1>3 DEF n
    <2> HIDE DEF m, q
    <2>2. /\ a \in 1..m /\ (n = 2 => a + 1 \in 1..m /\ (a + 1) + 1 = q)
          /\ (n = 1 => a + 1 = q)
      BY <2>1
    <2> QED
      BY <2>2 DEF n, m, q
  <1>7. /\ Base(x) = "mov" =>
               /\ Len(e) = 1
               /\ e[1] = [op |-> "mov64", to |-> x.args[1], from |-> x.args[2]]
        /\ Base(x) = "imul" =>
               /\ Len(e) = 2
               /\ e[1] = [op |-> "mov", to |-> x.args[1], from |-> x.args[2]]
               /\ e[2] = [op |-> "imul", to |-> x.args[1], from |-> x.args[3]]
        /\ Base(x) = "ret" => Len(e) = 1 /\ e[1] = [op |-> "ret"]
    BY <1>1, EmittedIs DEF e
  <1>8. CodeIs(c, x, a, cp[i + 1])
    BY <1>2, <1>4, <1>5, <1>6, <1>7 DEF CodeIs
  <1> QED
    BY <1>8 DEF x, a

-----------------------------------------------------------------------------
(***************************************************************************)
(* Where the compiler, the processor and the interpreter are, when at[i]   *)
(* is where the i-th instruction is in the buffer: they have dealt with    *)
(* the first instructions of the program and hold what these make of the   *)
(* registers, the processor what the compiled ones do.                     *)
(***************************************************************************)
Starting == {"read", "line", "name", "args", "match", "build", "assembled"}

CompilerAt(at) ==
    /\ code \in Seq(Codes)
    /\ \E i, cp : i \in 1..Len(program) + 1 /\ index = at[i] /\ Coded(program, code, cp, i)

\* The processor is in the code of the i-th instruction.
ProcessorAt(i, cp) ==
    /\ Coded(program, code, cp, Len(program) + 1)
    /\ Straight(program, i)
    /\ \/ index = cp[i] /\ regs = Reached(AsCompiled(program))[i]
       \/ /\ i <= Len(program) /\ Base(program[i]) = "imul"
          /\ index = cp[i] + 1
          /\ regs = Halfway(program[i], Reached(AsCompiled(program))[i])

Processor ==
    /\ code \in Seq(Codes)
    /\ \E i, cp : i \in 1..Len(program) + 1 /\ ProcessorAt(i, cp)

\* The k-th instruction is the first that returns, the compiled code did, and the
\* interpreter is at the j-th.
InterpreterAt(at, k, j) ==
    /\ Base(program[k]) = "ret" /\ Straight(program, k)
    /\ Gives(AsCompiled(program), result.jit) /\ Intact(Final(AsCompiled(program)))
    /\ index = at[j] /\ regs = Reached(program)[j]

Interpreter(at) ==
    \E k, j : k \in 1..Len(program) /\ j \in 1..k /\ InterpreterAt(at, k, j)

PhaseAt(at) ==
    /\ pc = "jit" => CompilerAt(at)
    /\ pc = "cpu" => Processor
    /\ pc = "int" => Interpreter(at)
    /\ pc \in {"jit", "cpu", "int"} => pending = <<>>

MachineInv ==
    /\ X86Machine
    /\ program \in Seq(Instrs)
    /\ result = [jit |-> result.jit, int |-> result.int]
    /\ pc \in Starting => index = 0 /\ code = <<>>
    /\ ~failed => \E at : Layout(ctx, pending, program, at) /\ PhaseAt(at)
    /\ BackendsAgree

\* What is kept when a step does not concern the machine.
LEMMA FailedKeeps ==
  ASSUME MachineInv, failed', program' \in Seq(Instrs),
         result' = [jit |-> result'.jit, int |-> result'.int],
         pc' \in Starting => index' = 0 /\ code' = <<>>
  PROVE  MachineInv'
  <1>1. BackendsAgree'
    BY DEF BackendsAgree
  <1> QED
    BY <1>1 DEF MachineInv

LEMMA StartingKeeps ==
  ASSUME MachineInv, pc \in Starting, pc' \in Starting \union {"fail", "overrun"},
         UNCHANGED runVars, program' \in Seq(Instrs),
         ~failed' => \E at : Layout(ctx', pending', program', at)
  PROVE  MachineInv'
  <1>1. BackendsAgree'
    BY DEF BackendsAgree, Starting
  <1>2. UNCHANGED <<index, code, regs, result>>
    BY DEF runVars
  <1>3. ~failed' => \E at : Layout(ctx', pending', program', at) /\ PhaseAt(at)'
    BY DEF PhaseAt, Starting
  <1> QED
    BY <1>1, <1>2, <1>3 DEF MachineInv

LEMMA MachineMoves ==
  ASSUME MachineInv, UNCHANGED bufferVars, pc' \notin Starting,
         result' = [jit |-> result'.jit, int |-> result'.int],
         NEW at, Layout(ctx, pending, program, at), PhaseAt(at)', BackendsAgree'
  PROVE  MachineInv'
  <1>1. UNCHANGED <<ctx, pending, program, failed>>
    BY DEF bufferVars
  <1> QED
    BY <1>1 DEF MachineInv

\* A builder's step, or that of a line of a file.
LEMMA CallKeeps ==
  ASSUME MachineInv, NEW x \in Instrs, Call(x), pc \in Starting, pc' \in Starting,
         UNCHANGED runVars
  PROVE  MachineInv'
  <1>1. failed' = failed /\ program' = Append(program, x) /\ program \in Seq(Instrs)
    BY DEF Call, MachineInv
  <1>2. program' \in Seq(Instrs)
    BY <1>1
  <1>3. ~failed' => \E at : Layout(ctx', pending', program', at)
    <2>1. ASSUME ~failed' PROVE \E at : Layout(ctx', pending', program', at)
      <3>1. PICK at : Layout(ctx, pending, program, at)
        BY <1>1, <2>1 DEF MachineInv
      <3> QED
        BY <1>1, <3>1, LayoutCall
    <2> QED
      BY <2>1
  <1> QED
    BY <1>2, <1>3, StartingKeeps

LEMMA PushFieldKeeps ==
  ASSUME BufferOK, MachineInv, PushField, UNCHANGED pc, UNCHANGED runVars
  PROVE  MachineInv'
  <1>1. program' = program /\ pending # <<>> /\ UNCHANGED <<index, code, regs, result>>
        /\ program \in Seq(Instrs)
    BY DEF PushField, runVars, MachineInv
  <1>2. CASE failed'
    BY <1>1, <1>2, FailedKeeps DEF MachineInv
  <1>3. CASE ~failed'
    <2>1. failed' = failed /\ ~failed
      <3>1. Push(Bytes(Head(pending)))
        BY DEF PushField
      <3> QED
        BY <1>3, <3>1 DEF Push, BufferOK
    <2>2. PICK at : Layout(ctx, pending, program, at) /\ PhaseAt(at)
      BY <2>1 DEF MachineInv
    <2>3. Layout(ctx', pending', program', at)
      BY <1>1, <1>3, <2>2, LayoutPush
    <2>4. pc \notin {"jit", "cpu", "int"} /\ PhaseAt(at)'
      BY <1>1, <2>2 DEF PhaseAt
    <2>5. BackendsAgree'
      BY <1>1, <2>1 DEF MachineInv, BackendsAgree
    <2> QED
      BY <1>1, <2>3, <2>4, <2>5 DEF MachineInv
  <1> QED
    BY <1>2, <1>3

\* The operands that the parsers give.
LEMMA BuildIs ==
  ASSUME X86Machine, argv \in Seq(Nat), Build
  PROVE  \E x \in Instrs : Call(x)
  <1> DEFINE o == Min(Fitting)
  <1>1. Fitting \in SUBSET Nat /\ Fitting # {}
    BY OpcodeTypes DEF Fitting, Build
  <1>2. o \in Fitting
    BY <1>1, MinOfNats
  <1> HIDE DEF o
  <1>3. PICK args : /\ \E S : args \in [DOMAIN argv -> S]
                    /\ \A i \in DOMAIN argv : args[i] \in Parsed(o)[i]
                    /\ Call([op |-> o, args |-> args])
    BY DEF Build, o
  <1> DEFINE n == Len(argv)
             types == Opcodes[o].args
  <1>4. /\ n \in Nat /\ DOMAIN argv = 1..n /\ o \in DOMAIN Opcodes /\ Len(types) = n
    BY <1>2 DEF Fitting
  <1>5. ASSUME NEW i \in 1..n
        PROVE  args[i] \in Nat /\ (types[i] = "r64" => args[i] \in DOMAIN Registers)
    <2>1. args[i] \in Parse(types[i], String(argv[i]))
      BY <1>3, <1>4 DEF Parsed
    <2>2. args[i] \in X86Parse(types[i], String(argv[i]))
      BY <2>1 DEF X86Machine
    <2>3. CASE types[i] = "r64"
      <3>1. args[i] \in DOMAIN Registers
        BY <2>2, <2>3 DEF X86Parse
      <3> QED
        BY <3>1, RegistersAre DEF Register
    <2>4. CASE types[i] # "r64"
      <3>1. args[i] \in {Number[k] : k \in DOMAIN Number}
        BY <2>2, <2>4 DEF X86Parse
      <3> QED
        BY <2>4, <3>1, NumbersAssumption
    <2> QED
      BY <2>3, <2>4
  <1>6. args \in Seq(Nat) /\ Len(args) = n /\ DOMAIN args = 1..n
    <2> HIDE DEF n, types
    <2>1. args \in [1..n -> Nat]
      BY <1>3, <1>4, <1>5
    <2> QED
      BY <1>4, <2>1
  <1> DEFINE x == [op |-> o, args |-> args]
  <1>7. x.op = o /\ x.args = args /\ x \in [op : DOMAIN Opcodes, args : Seq(Nat)]
    BY <1>4, <1>6
  <1>8. x \in Instrs
    <2> HIDE DEF x, n
    <2>1. Typed(x)
      BY <1>4, <1>5, <1>6, <1>7 DEF Typed
    <2> QED
      BY <1>7, <2>1 DEF Instrs
  <1> QED
    BY <1>3, <1>8

\* Starting to compile.
LEMMA StartJitKeeps ==
  ASSUME MachineInv, ~failed, StartJit
  PROVE  MachineInv'
  <1>1. PICK at : Layout(ctx, pending, program, at)
    BY DEF MachineInv
  <1>2. /\ pending = <<>> /\ pc \in Starting /\ pc' = "jit" /\ UNCHANGED bufferVars
        /\ UNCHANGED <<index, code, regs, result>> /\ program' = program
    BY DEF StartJit, Starting, runVars, bufferVars
  <1>3. index = 0 /\ code = <<>> /\ program \in Seq(Instrs) /\ at[1] = 0
    BY <1>1, <1>2 DEF MachineInv, Layout
  <1>4. Coded(program, <<>>, [k \in 1..1 |-> 1], 1)
    <2> DEFINE cp == [k \in 1..1 |-> 1]
    <2>1. cp[1] = 1 /\ Len(<<>>) + 1 = 1 /\ 1..1 = {1} /\ 1..(1 - 1) = {}
      OBVIOUS
    <2> HIDE DEF cp
    <2>2. Coded(program, <<>>, cp, 1)
      BY <2>1 DEF Coded
    <2> QED
      BY <2>2 DEF cp
  <1>5. CompilerAt(at)'
    <2>1. 1 \in 1..Len(program) + 1 /\ <<>> \in Seq(Codes)
      BY <1>3
    <2> QED
      BY <1>2, <1>3, <1>4, <2>1 DEF CompilerAt
  <1>6. PhaseAt(at)' /\ BackendsAgree' /\ pc' \notin Starting
    BY <1>2, <1>5 DEF PhaseAt, BackendsAgree, Starting, bufferVars
  <1> QED
    BY <1>1, <1>2, <1>6, MachineMoves DEF MachineInv

\* The compiler and the interpreter find an instruction wherever they look.
LEMMA NeverLost ==
  ASSUME BufferOK, MachineInv, ~failed, Lost
  PROVE  FALSE
  <1>1. PICK at : Layout(ctx, pending, program, at) /\ PhaseAt(at)
    BY DEF MachineInv
  <1>2. program \in Seq(Instrs) /\ pending = <<>> /\ index < ctx.len /\ Fetch(index) = NULL
    BY <1>1 DEF MachineInv, PhaseAt, Lost
  <1>3. \E i \in 1..Len(program) + 1 : index = at[i]
    <2>1. CASE pc = "jit"
      BY <1>1, <2>1 DEF PhaseAt, CompilerAt
    <2>2. CASE pc = "int"
      <3>1. PICK k \in 1..Len(program) : \E j \in 1..k : index = at[j]
        BY <1>1, <2>2 DEF PhaseAt, Interpreter, InterpreterAt
      <3>2. \A j \in 1..k : j \in 1..Len(program) + 1
        BY <1>2
      <3> QED
        BY <3>1, <3>2
    <2> QED
      BY <2>1, <2>2 DEF Lost
  <1>4. PICK i \in 1..Len(program) + 1 : index = at[i]
    BY <1>3
  <1>5. i = Len(program) + 1 \/ i \in 1..Len(program)
    BY <1>2
  <1> QED
    BY <1>1, <1>2, <1>4, <1>5, LayoutFetch

LEMMA CompileKeeps ==
  ASSUME BufferOK, MachineInv, ~failed, Compile
  PROVE  MachineInv'
  <1>1. PICK at : Layout(ctx, pending, program, at) /\ PhaseAt(at)
    BY DEF MachineInv
  <1> DEFINE instr == Fetch(index)
  <1>2. /\ pc = "jit" /\ pc' = "jit" /\ index < ctx.len /\ UNCHANGED bufferVars /\ result' = result
        /\ code' = code \o Emitted(instr) /\ index' = instr.next
        /\ program \in Seq(Instrs) /\ pending = <<>> /\ X86Machine
    BY <1>1 DEF Compile, MachineInv, PhaseAt
  <1>3. PICK i, cp : i \in 1..Len(program) + 1 /\ index = at[i] /\ Coded(program, code, cp, i)
    BY <1>1, <1>2 DEF PhaseAt, CompilerAt
  <1>4. i \in 1..Len(program)
    <2>1. i = Len(program) + 1 \/ i \in 1..Len(program)
      BY <1>3, <1>2
    <2> QED
      BY <1>1, <1>2, <1>3, <2>1, LayoutFetch
  <1>5. instr.op = program[i].op /\ instr.args = program[i].args /\ instr.next = at[i + 1]
    BY <1>1, <1>2, <1>3, <1>4, LayoutFetch
  <1>6. code' = code \o Emitted(program[i]) /\ index' = at[i + 1]
    BY <1>2, <1>5, SameEmitted
  <1>7. code \in Seq(Codes)
    BY <1>1, <1>2 DEF PhaseAt, CompilerAt
  <1>8. code' \in Seq(Codes) /\ \E new : Coded(program, code', new, i + 1)
    BY <1>2, <1>3, <1>4, <1>6, <1>7, CodedOn
  <1>9. CompilerAt(at)'
    <2>1. i + 1 \in 1..Len(program) + 1
      BY <1>2, <1>4
    <2>2. program' = program
      BY <1>2 DEF bufferVars
    <2> QED
      BY <1>6, <1>8, <2>1, <2>2 DEF CompilerAt
  <1>10. PhaseAt(at)' /\ BackendsAgree' /\ pc' \notin Starting
    BY <1>2, <1>9 DEF PhaseAt, BackendsAgree, Starting, bufferVars
  <1> QED
    BY <1>1, <1>2, <1>10, MachineMoves DEF MachineInv

LEMMA ExportKeeps ==
  ASSUME BufferOK, MachineInv, ~failed, Export
  PROVE  MachineInv'
  <1>1. PICK at : Layout(ctx, pending, program, at) /\ PhaseAt(at)
    BY DEF MachineInv
  <1>2. /\ pc = "jit" /\ pc' = "cpu" /\ index >= ctx.len /\ UNCHANGED bufferVars
        /\ result' = result /\ code' = code /\ index' = 1 /\ regs' = Fresh
        /\ program \in Seq(Instrs) /\ pending = <<>> /\ X86Machine /\ program' = program
    BY <1>1 DEF Export, MachineInv, PhaseAt, bufferVars
  <1>3. PICK i, cp : i \in 1..Len(program) + 1 /\ index = at[i] /\ Coded(program, code, cp, i)
    BY <1>1, <1>2 DEF PhaseAt, CompilerAt
  <1>4. i = Len(program) + 1
    <2>1. i = Len(program) + 1 \/ i \in 1..Len(program)
      BY <1>3, <1>2
    <2>2. at[i] \in Nat /\ ctx.len \in Nat
      BY <1>3, <1>1 DEF Layout, BufferOK
    <2>3. i \in 1..Len(program) => at[i] < ctx.len
      BY <1>1, <1>2, LayoutFetch
    <2> QED
      BY <1>2, <1>3, <2>1, <2>2, <2>3
  <1>5. code' \in Seq(Codes) /\ cp[1] = 1 /\ 1 \in 1..Len(program) + 1
    BY <1>1, <1>2, <1>3 DEF PhaseAt, CompilerAt, Coded
  <1>6. Processor'
    <2>1. Coded(program', code', cp, Len(program') + 1)
      BY <1>2, <1>3, <1>4
    <2>2. index' = cp[1] /\ regs' = Reached(AsCompiled(program'))[1]
      BY <1>2, <1>5, ReachedOn
    <2>3. Straight(program', 1)
      BY DEF Straight
    <2>4. ProcessorAt(1, cp)'
      BY <2>1, <2>2, <2>3 DEF ProcessorAt
    <2>5. 1 \in 1..Len(program') + 1
      BY <1>2, <1>5
    <2> QED
      BY <1>5, <2>4, <2>5 DEF Processor
  <1>7. PhaseAt(at)' /\ BackendsAgree' /\ pc' \notin Starting
    BY <1>2, <1>6 DEF PhaseAt, BackendsAgree, Starting, bufferVars
  <1> QED
    BY <1>1, <1>2, <1>7, MachineMoves DEF MachineInv

\* What the processor does to the registers.
LEMMA ExecuteIs ==
  ASSUME Execute, NEW t, NEW f
  PROVE  /\ code[index] = [op |-> "mov64", to |-> t, from |-> f] =>
               regs' = [regs EXCEPT ![t] = f]
         /\ code[index] = [op |-> "mov", to |-> t, from |-> f] =>
               regs' = [regs EXCEPT ![t] = regs[f]]
         /\ code[index] = [op |-> "imul", to |-> t, from |-> f] =>
               regs' = [regs EXCEPT ![t] = Product(regs[t], regs[f])]
         /\ code[index] # [op |-> "ret"]
  <1> DEFINE instr == code[index]
  <1>1. /\ instr.op # "ret"
        /\ regs' = [regs EXCEPT ![instr.to] =
                      CASE instr.op = "mov64" -> instr.from
                        [] instr.op = "mov"   -> regs[instr.from]
                        [] instr.op = "imul"  -> Product(regs[instr.to], regs[instr.from])]
    BY DEF Execute
  <1> HIDE DEF instr
  <1>2. CASE instr = [op |-> "mov64", to |-> t, from |-> f]
    <2>1. instr.op = "mov64" /\ instr.to = t /\ instr.from = f
      BY <1>2
    <2> QED
      BY <1>1, <1>2, <2>1 DEF instr
  <1>3. CASE instr = [op |-> "mov", to |-> t, from |-> f]
    <2>1. instr.op = "mov" /\ instr.to = t /\ instr.from = f
      BY <1>3
    <2> QED
      BY <1>1, <1>3, <2>1 DEF instr
  <1>4. CASE instr = [op |-> "imul", to |-> t, from |-> f]
    <2>1. instr.op = "imul" /\ instr.to = t /\ instr.from = f
      BY <1>4
    <2> QED
      BY <1>1, <1>4, <2>1 DEF instr
  <1>5. instr # [op |-> "ret"]
    BY <1>1
  <1> QED
    BY <1>2, <1>3, <1>4, <1>5 DEF instr

\* The two machine instructions of an imul multiply what the compiler makes of
\* its operands.
LEMMA HalvesMultiply ==
  ASSUME X86Machine, NEW x \in Instrs, Base(x) = "imul", NEW r, IsRegs(r),
         NEW h, h = Halfway(x, r)
  PROVE  [h EXCEPT ![x.args[1]] = Product(h[x.args[1]], h[x.args[3]])] = Effect(TwoOperand(x), r)
  <1> DEFINE a == x.args[1]
             b == x.args[2]
             c == x.args[3]
             y == TwoOperand(x)
  <1>1. a \in Register /\ b \in Register /\ c \in Register
    BY MachineIs
  <1>2. /\ Base(y) = "imul" /\ y.args[1] = a /\ y.args[2] = b
        /\ y.args[3] = IF a = c THEN b ELSE c
    <2>1. x = [op |-> x.op, args |-> x.args]
      BY DEF Instrs
    <2>2. CASE a = c
      <3>1. y = [op |-> x.op, args |-> <<a, b, b>>]
        <4>1. y = [x EXCEPT !.args = <<a, b, b>>]
          BY <2>2 DEF TwoOperand
        <4> HIDE DEF y, a, b
        <4> QED
          BY <2>1, <4>1
      <3> HIDE DEF y, a, b
      <3>2. y.op = x.op /\ y.args = <<a, b, b>>
        BY <3>1
      <3>3. Base(y) = "imul"
        BY <3>2 DEF Base
      <3> QED
        BY <2>2, <3>2, <3>3
    <2>3. CASE a # c
      <3>1. y = x
        BY <2>3 DEF TwoOperand
      <3> HIDE DEF y
      <3> QED
        BY <2>3, <3>1
    <2> QED
      BY <2>2, <2>3
  <1>3. h = [r EXCEPT ![a] = r[b]]
    BY DEF Halfway
  <1> DEFINE d == IF a = c THEN b ELSE c
  <1> HIDE DEF a, b, c, y
  <1>4. Effect(y, r) = [r EXCEPT ![a] = Product(r[b], r[d])]
    BY <1>2 DEF Effect
  <1>5. r = [n \in Register |-> r[n]]
    BY DEF IsRegs
  <1>6. h = [n \in Register |-> IF n = a THEN r[b] ELSE r[n]]
    BY <1>3, <1>5
  <1>7. h[a] = r[b] /\ h[c] = r[d]
    BY <1>1, <1>6
  <1> DEFINE p == Product(r[b], r[d])
  <1>8. Product(h[a], h[c]) = p
    BY <1>7
  <1> HIDE DEF p, d
  <1>9. [h EXCEPT ![a] = p] = [n \in Register |-> IF n = a THEN p ELSE r[n]]
    BY <1>6
  <1>10. [r EXCEPT ![a] = p] = [n \in Register |-> IF n = a THEN p ELSE r[n]]
    BY <1>5
  <1>11. [h EXCEPT ![a] = Product(h[a], h[c])] = Effect(y, r)
    BY <1>4, <1>8, <1>9, <1>10 DEF p
  <1> QED
    BY <1>11 DEF a, c, y

\* The processor reaches the next instruction.
LEMMA Advances ==
  ASSUME X86Machine, NEW i \in 1..Len(program), NEW cp, ProcessorAt(i, cp),
         Base(program[i]) # "ret", program \in Seq(Instrs), program' = program, code' = code,
         index' = cp[i + 1],
         regs' = Effect(TwoOperand(program[i]), Reached(AsCompiled(program))[i])
  PROVE  ProcessorAt(i + 1, cp)'
  <1>1. Coded(program, code, cp, Len(program) + 1) /\ Straight(program, i)
    BY DEF ProcessorAt
  <1>2. Straight(program, i + 1)
    <2>1. \A k \in 1..(i + 1) - 1 : k = i \/ k \in 1..i - 1
      OBVIOUS
    <2> QED
      BY <1>1, <2>1 DEF Straight
  <1>3. regs' = Reached(AsCompiled(program))[i + 1]
    BY ReachedOn
  <1> QED
    BY <1>1, <1>2, <1>3 DEF ProcessorAt

LEMMA InCode ==
  ASSUME program \in Seq(Instrs), code \in Seq(Codes), index <= Len(code),
         NEW i \in 1..Len(program) + 1, NEW cp, ProcessorAt(i, cp)
  PROVE  i \in 1..Len(program)
  <1>1. i = Len(program) + 1 \/ i \in 1..Len(program)
    OBVIOUS
  <1>2. CASE i = Len(program) + 1
    <2>1. cp[i] = Len(code) + 1
      BY <1>2 DEF ProcessorAt, Coded
    <2>2. ~(i <= Len(program))
      BY <1>2
    <2>3. index = Len(code) + 1 /\ Len(code) \in Nat
      BY <2>1, <2>2 DEF ProcessorAt
    <2> QED
      BY <2>3
  <1> QED
    BY <1>1, <1>2

LEMMA ExecuteKeeps ==
  ASSUME BufferOK, MachineInv, ~failed, Execute
  PROVE  MachineInv'
  <1>1. PICK at : Layout(ctx, pending, program, at) /\ PhaseAt(at)
    BY DEF MachineInv
  <1>2. /\ pc = "cpu" /\ pc' = "cpu" /\ index <= Len(code) /\ UNCHANGED bufferVars
        /\ index' = index + 1 /\ code' = code /\ result' = result
        /\ program \in Seq(Instrs) /\ pending = <<>> /\ X86Machine /\ program' = program
    BY <1>1 DEF Execute, MachineInv, PhaseAt, bufferVars
  <1>3. /\ code \in Seq(Codes)
        /\ \E i, cp : i \in 1..Len(program) + 1 /\ ProcessorAt(i, cp)
    BY <1>1, <1>2 DEF PhaseAt, Processor
  <1>4. PICK i, cp : i \in 1..Len(program) + 1 /\ ProcessorAt(i, cp)
    BY <1>3
  <1>5. Coded(program, code, cp, Len(program) + 1) /\ Straight(program, i)
    BY <1>4 DEF ProcessorAt
  <1>6. i \in 1..Len(program)
    BY <1>2, <1>3, <1>4, InCode
  <1> DEFINE x == program[i]
             a == x.args[1]
             b == x.args[2]
             c == x.args[3]
             r == Reached(AsCompiled(program))[i]
  <1>7. x \in Instrs /\ IsRegs(r)
    BY <1>2, <1>6, ElementOfSeq, ReachedOn
  <1>8. /\ cp[i] \in 1..Len(code) /\ cp[i] \in Nat
        /\ Base(x) = "mov" =>
              code[cp[i]] = [op |-> "mov64", to |-> a, from |-> b] /\ cp[i] + 1 = cp[i + 1]
        /\ Base(x) = "imul" =>
              /\ code[cp[i]] = [op |-> "mov", to |-> a, from |-> b]
              /\ code[cp[i] + 1] = [op |-> "imul", to |-> a, from |-> c]
              /\ (cp[i] + 1) + 1 = cp[i + 1]
        /\ Base(x) = "ret" => code[cp[i]] = [op |-> "ret"]
    <2>1. i \in 1..Len(program) /\ program \in Seq(Instrs) /\ code \in Seq(Codes) /\ X86Machine
      BY <1>2, <1>3, <1>6
    <2>2. CodeIs(code, x, cp[i], cp[i + 1])
      BY <1>5, <2>1, CodeAt
    <2> HIDE DEF x
    <2> QED
      BY <2>2 DEF CodeIs, a, b, c
  <1>9. SUFFICES \E k : k \in 1..Len(program) + 1 /\ ProcessorAt(k, cp)'
    <2>1. Processor'
      BY <1>2, <1>3, <1>9 DEF Processor
    <2>2. PhaseAt(at)' /\ BackendsAgree' /\ pc' \notin Starting
      BY <1>2, <2>1 DEF PhaseAt, BackendsAgree, Starting, bufferVars
    <2> QED
      BY <1>1, <1>2, <2>2, MachineMoves DEF MachineInv
  <1>10. i + 1 \in 1..Len(program) + 1
    BY <1>2, <1>6
  <1> HIDE DEF x, a, b, c, r
  <1>11. CASE index = cp[i] /\ regs = r
    <2>1. CASE Base(x) = "mov"
      <3>1. regs' = [regs EXCEPT ![a] = b]
        <4>1. code[index] = [op |-> "mov64", to |-> a, from |-> b]
          BY <1>8, <1>11, <2>1
        <4> QED
          BY <4>1, ExecuteIs
      <3>2. regs' = Effect(TwoOperand(x), r)
        <4>1. TwoOperand(x) = x
          BY <2>1 DEF TwoOperand
        <4>2. regs' = Effect(x, r)
          BY <1>11, <2>1, <3>1 DEF Effect, a, b
        <4> QED
          BY <4>1, <4>2
      <3>3. ProcessorAt(i + 1, cp)'
        <4>1. index' = cp[i + 1] /\ Base(x) # "ret"
          BY <1>2, <1>8, <1>11, <2>1
        <4> QED
          BY <1>2, <1>4, <1>6, <3>2, <4>1, Advances DEF x, r
      <3> QED
        BY <1>10, <3>3
    <2>2. CASE Base(x) = "imul"
      <3>1. regs' = [regs EXCEPT ![a] = regs[b]]
        <4>1. code[index] = [op |-> "mov", to |-> a, from |-> b]
          BY <1>8, <1>11, <2>2
        <4> QED
          BY <4>1, ExecuteIs
      <3>2. regs' = Halfway(x, r)
        BY <1>11, <3>1 DEF Halfway, a, b
      <3>3. ProcessorAt(i, cp)'
        <4>1. index' = cp[i] + 1 /\ i <= Len(program) /\ Base(program[i]) = "imul"
          BY <1>2, <1>6, <1>11, <2>2 DEF x
        <4> QED
          BY <1>2, <1>5, <3>2, <4>1 DEF ProcessorAt, x, r
      <3> QED
        BY <1>4, <3>3
    <2>3. CASE Base(x) = "ret"
      <3>1. code[index] = [op |-> "ret"]
        BY <1>8, <1>11, <2>3
      <3> QED
        BY <3>1, ExecuteIs
    <2> QED
      BY <1>2, <1>7, <2>1, <2>2, <2>3, MachineIs
  <1>12. CASE Base(x) = "imul" /\ index = cp[i] + 1 /\ regs = Halfway(x, r)
    <2>1. regs' = [regs EXCEPT ![a] = Product(regs[a], regs[c])]
      <3>1. code[index] = [op |-> "imul", to |-> a, from |-> c]
        BY <1>8, <1>12
      <3> QED
        BY <3>1, ExecuteIs
    <2>2. regs' = Effect(TwoOperand(x), r)
      BY <1>2, <1>7, <1>12, <2>1, HalvesMultiply DEF a, c
    <2>3. ProcessorAt(i + 1, cp)'
      <3>1. index' = cp[i + 1] /\ Base(x) # "ret"
        BY <1>2, <1>8, <1>12
      <3> QED
        BY <1>2, <1>4, <1>6, <2>2, <3>1, Advances DEF x, r
    <2> QED
      BY <1>10, <2>3
  <1> QED
    BY <1>4, <1>11, <1>12 DEF ProcessorAt, x, r

\* At a ret the processor is in the code of the first one, having what the
\* compiled instructions before it make of the registers.
LEMMA AtFirstRet ==
  ASSUME X86Machine, program \in Seq(Instrs), code \in Seq(Codes), index <= Len(code),
         code[index].op = "ret", NEW i \in 1..Len(program) + 1, NEW cp, ProcessorAt(i, cp)
  PROVE  /\ i \in 1..Len(program) /\ Base(program[i]) = "ret" /\ Straight(program, i)
         /\ regs = Final(AsCompiled(program))
  <1>1. Coded(program, code, cp, Len(program) + 1) /\ Straight(program, i)
    BY DEF ProcessorAt
  <1>2. i \in 1..Len(program)
    BY InCode
  <1> DEFINE x == program[i]
             a == x.args[1]
             b == x.args[2]
             c == x.args[3]
  <1>3. x \in Instrs
    BY <1>2, ElementOfSeq
  <1>4. /\ Base(x) = "mov" => code[cp[i]] = [op |-> "mov64", to |-> a, from |-> b]
        /\ Base(x) = "imul" =>
              /\ code[cp[i]] = [op |-> "mov", to |-> a, from |-> b]
              /\ code[cp[i] + 1] = [op |-> "imul", to |-> a, from |-> c]
    <2>1. CodeIs(code, x, cp[i], cp[i + 1])
      BY <1>1, <1>2, CodeAt
    <2> HIDE DEF x
    <2> QED
      BY <2>1 DEF CodeIs, a, b, c
  <1> HIDE DEF x, a, b, c
  <1>5. /\ Base(x) = "mov" => code[cp[i]].op = "mov64"
        /\ Base(x) = "imul" => code[cp[i]].op = "mov" /\ code[cp[i] + 1].op = "imul"
    BY <1>4
  <1>6. Base(x) = "ret" /\ regs = Reached(AsCompiled(program))[i]
    <2>1. Base(x) \in {"mov", "imul", "ret"}
      BY <1>3, MachineIs
    <2>2. \/ index = cp[i] /\ regs = Reached(AsCompiled(program))[i]
          \/ Base(x) = "imul" /\ index = cp[i] + 1
      BY DEF ProcessorAt, x
    <2> QED
      BY <1>5, <2>1, <2>2
  <1>7. regs = Final(AsCompiled(program))
    BY <1>1, <1>2, <1>6, FinalCompiled DEF x
  <1> QED
    BY <1>1, <1>2, <1>6, <1>7 DEF x

\* The processor goes astray only if the program has no ret or leaves a register
\* changed that it had to save.
LEMMA CrashKeeps ==
  ASSUME BufferOK, MachineInv, ~failed, Crash
  PROVE  MachineInv'
  <1>1. PICK at : Layout(ctx, pending, program, at) /\ PhaseAt(at)
    BY DEF MachineInv
  <1>2. /\ pc = "cpu" /\ pc' = "undefined" /\ UNCHANGED bufferVars /\ result' = result
        /\ program \in Seq(Instrs) /\ X86Machine /\ program' = program /\ failed' = failed
        /\ \/ index > Len(code)
           \/ index <= Len(code) /\ code[index].op = "ret" /\ ~Intact(regs)
    BY <1>1 DEF Crash, MachineInv, bufferVars, runVars
  <1>3. /\ code \in Seq(Codes)
        /\ \E i, cp : i \in 1..Len(program) + 1 /\ ProcessorAt(i, cp)
    BY <1>1, <1>2 DEF PhaseAt, Processor
  <1>4. PICK i, cp : i \in 1..Len(program) + 1 /\ ProcessorAt(i, cp)
    BY <1>3
  <1>5. Coded(program, code, cp, Len(program) + 1) /\ Straight(program, i)
    BY <1>4 DEF ProcessorAt
  <1>6. Returns(program) = {} \/ ~Intact(Final(AsCompiled(program)))
    <2>1. CASE i = Len(program) + 1
      <3>1. \A k \in 1..Len(program) : k \in 1..i - 1
        BY <1>2, <2>1
      <3> QED
        BY <1>5, <3>1 DEF Straight, Returns
    <2>2. CASE i \in 1..Len(program)
      <3>1. program[i] \in Instrs
        BY <1>2, <2>2, ElementOfSeq
      <3>2. /\ cp[i] \in 1..Len(code) /\ cp[i] \in Nat
            /\ Base(program[i]) = "imul" => cp[i] + 1 \in 1..Len(code)
        <4>1. CodeIs(code, program[i], cp[i], cp[i + 1])
          BY <1>2, <1>3, <1>5, <2>2, CodeAt
        <4> QED
          BY <4>1 DEF CodeIs
      <3>3. index \in 1..Len(code) /\ Len(code) \in Nat
        BY <1>3, <1>4, <3>2 DEF ProcessorAt
      <3>4. ~(index > Len(code))
        BY <3>3
      <3> QED
        BY <1>2, <1>3, <1>4, <3>4, AtFirstRet
    <2> QED
      BY <1>4, <1>2, <2>1, <2>2
  <1>7. PhaseAt(at)' /\ BackendsAgree' /\ pc' \notin Starting
    BY <1>2, <1>6 DEF PhaseAt, BackendsAgree, Starting
  <1> QED
    BY <1>1, <1>2, <1>7, MachineMoves DEF MachineInv

\* What a caller finds in rax is what the program computed, if it did.
LEMMA OutcomeIs ==
  ASSUME NEW prog, NEW v \in Outcomes(Final(prog)[RAX])
  PROVE  Gives(prog, v)
  BY DEF Outcomes, Gives

\* The processor returns at the first ret, with what the instructions before it
\* make of rax.
LEMMA LeaveKeeps ==
  ASSUME BufferOK, MachineInv, ~failed, Leave
  PROVE  MachineInv'
  <1>1. PICK at : Layout(ctx, pending, program, at) /\ PhaseAt(at)
    BY DEF MachineInv
  <1>2. /\ pc = "cpu" /\ pc' = "int" /\ index <= Len(code) /\ code[index].op = "ret"
        /\ UNCHANGED bufferVars /\ index' = 0 /\ regs' = Fresh /\ Intact(regs)
        /\ \E v \in Outcomes(regs[RAX]) : result' = [result EXCEPT !.jit = v]
        /\ program \in Seq(Instrs) /\ pending = <<>> /\ X86Machine /\ program' = program
    BY <1>1 DEF Leave, MachineInv, PhaseAt, bufferVars
  <1>3. PICK v \in Outcomes(regs[RAX]) : result' = [result EXCEPT !.jit = v]
    BY <1>2
  <1>4. /\ code \in Seq(Codes)
        /\ \E i, cp : i \in 1..Len(program) + 1 /\ ProcessorAt(i, cp)
    BY <1>1, <1>2 DEF PhaseAt, Processor
  <1>5. PICK i, cp : i \in 1..Len(program) + 1 /\ ProcessorAt(i, cp)
    BY <1>4
  <1>6. /\ i \in 1..Len(program) /\ Base(program[i]) = "ret" /\ Straight(program, i)
        /\ regs = Final(AsCompiled(program))
    BY <1>2, <1>4, <1>5, AtFirstRet
  <1>7. result' = [jit |-> v, int |-> result.int]
    <2>1. result = [jit |-> result.jit, int |-> result.int]
      BY DEF MachineInv
    <2> QED
      BY <1>3, <2>1
  <1>8. result'.jit = v /\ result' = [jit |-> result'.jit, int |-> result'.int]
    BY <1>7
  <1>9. Gives(AsCompiled(program), result'.jit) /\ Intact(Final(AsCompiled(program)))
    BY <1>2, <1>3, <1>6, <1>8, OutcomeIs
  <1>10. Interpreter(at)'
    <2>1. index' = at[1] /\ regs' = Reached(program)[1]
      BY <1>1, <1>2, ReachedOn DEF Layout
    <2>2. InterpreterAt(at, i, 1)'
      BY <1>2, <1>6, <1>9, <2>1 DEF InterpreterAt
    <2>3. 1 \in 1..i /\ i \in 1..Len(program)'
      BY <1>2, <1>6
    <2> QED
      BY <2>2, <2>3 DEF Interpreter
  <1>11. PhaseAt(at)' /\ BackendsAgree' /\ pc' \notin Starting
    BY <1>2, <1>10 DEF PhaseAt, BackendsAgree, Starting, bufferVars
  <1> QED
    BY <1>1, <1>2, <1>8, <1>11, MachineMoves

\* What Fetch returns in the interpreter, and where that is.
LEMMA InterpreterFetches ==
  ASSUME BufferOK, MachineInv, ~failed, pc = "int",
         NEW at, Layout(ctx, pending, program, at), PhaseAt(at),
         NEW k \in 1..Len(program), NEW j \in 1..k, InterpreterAt(at, k, j)
  PROVE  /\ program[j] \in Instrs /\ j \in Nat \ {0} /\ j \in 1..Len(program)
         /\ Base(Fetch(index)) = Base(program[j])
         /\ Fetch(index).args = program[j].args /\ Fetch(index).next = at[j + 1]
         /\ Base(program[j]) = "ret" <=> j = k
  <1>1. program \in Seq(Instrs) /\ pending = <<>> /\ index = at[j]
    BY DEF MachineInv, PhaseAt, InterpreterAt
  <1>2. j \in 1..Len(program) /\ j \in 1..Len(program) + 1 /\ j \in Nat \ {0}
    BY <1>1
  <1>3. program[j] \in Instrs
    BY <1>1, <1>2, ElementOfSeq
  <1>4. /\ Fetch(index).op = program[j].op /\ Fetch(index).args = program[j].args
        /\ Fetch(index).next = at[j + 1]
    BY <1>1, <1>2, LayoutFetch
  <1>5. Base(Fetch(index)) = Base(program[j])
    BY <1>4, SameEmitted
  <1>6. Base(program[j]) = "ret" <=> j = k
    <2>1. j = k \/ j \in 1..k - 1
      BY <1>1
    <2>2. \A m \in 1..k - 1 : m # k
      BY <1>1
    <2> QED
      BY <2>1, <2>2 DEF InterpreterAt, Straight
  <1> QED
    BY <1>2, <1>3, <1>4, <1>5, <1>6

LEMMA InterpretKeeps ==
  ASSUME BufferOK, MachineInv, ~failed, Interpret
  PROVE  MachineInv'
  <1>1. PICK at : Layout(ctx, pending, program, at) /\ PhaseAt(at)
    BY DEF MachineInv
  <1> DEFINE instr == Fetch(index)
  <1>2. /\ pc = "int" /\ pc' = "int" /\ Base(instr) # "ret" /\ UNCHANGED bufferVars
        /\ regs' = Effect(instr, regs) /\ index' = instr.next /\ result' = result
        /\ program \in Seq(Instrs) /\ pending = <<>> /\ program' = program /\ X86Machine
    BY <1>1 DEF Interpret, MachineInv, PhaseAt, bufferVars
  <1>3. PICK k, j : k \in 1..Len(program) /\ j \in 1..k /\ InterpreterAt(at, k, j)
    BY <1>1, <1>2 DEF PhaseAt, Interpreter
  <1>4. k \in 1..Len(program) /\ j \in 1..k /\ InterpreterAt(at, k, j)
    BY <1>3
  <1> DEFINE x == program[j]
  <1>5. /\ j \in 1..Len(program) /\ Base(instr) = Base(x) /\ instr.args = x.args
        /\ instr.next = at[j + 1] /\ (Base(x) = "ret" <=> j = k)
    BY <1>1, <1>2, <1>4, InterpreterFetches
  <1> HIDE DEF instr, x
  <1>6. regs' = Reached(program)[j + 1]
    <2>1. regs = Reached(program)[j]
      BY <1>4 DEF InterpreterAt
    <2>2. Effect(instr, regs) = Effect(x, regs)
      BY <1>5 DEF Effect
    <2>3. Reached(program)[j + 1] = Effect(x, Reached(program)[j])
      BY <1>2, <1>5, ReachedOn DEF x
    <2> QED
      BY <1>2, <2>1, <2>2, <2>3
  <1>7. j # k /\ j + 1 \in 1..k
    <2>1. j # k
      BY <1>2, <1>5
    <2> QED
      BY <1>4, <1>2, <2>1
  <1>8. InterpreterAt(at, k, j + 1)'
    BY <1>2, <1>4, <1>5, <1>6 DEF InterpreterAt
  <1>9. Interpreter(at)'
    BY <1>4, <1>2, <1>7, <1>8 DEF Interpreter
  <1>10. PhaseAt(at)' /\ BackendsAgree' /\ pc' \notin Starting
    BY <1>2, <1>9 DEF PhaseAt, BackendsAgree, Starting, bufferVars
  <1> QED
    BY <1>1, <1>2, <1>10, MachineMoves DEF MachineInv

\* The interpreter returns at the first ret.
LEMMA ReturnKeeps ==
  ASSUME BufferOK, MachineInv, ~failed, Return
  PROVE  MachineInv'
  <1>1. PICK at : Layout(ctx, pending, program, at) /\ PhaseAt(at)
    BY DEF MachineInv
  <1> DEFINE instr == Fetch(index)
  <1>2. /\ pc = "int" /\ pc' = "done" /\ Base(instr) = "ret" /\ UNCHANGED bufferVars
        /\ \E v \in Outcomes(regs[RAX]) : result' = [result EXCEPT !.int = v]
        /\ program' = program /\ program \in Seq(Instrs)
    BY <1>1 DEF Return, bufferVars, MachineInv
  <1>3. PICK k, j : k \in 1..Len(program) /\ j \in 1..k /\ InterpreterAt(at, k, j)
    BY <1>1, <1>2 DEF PhaseAt, Interpreter
  <1>4. k \in 1..Len(program) /\ j \in 1..k /\ InterpreterAt(at, k, j)
    BY <1>3
  <1>5. Base(instr) = Base(program[j]) /\ (Base(program[j]) = "ret" <=> j = k)
    BY <1>1, <1>2, <1>4, InterpreterFetches
  <1> HIDE DEF instr
  <1>6. regs = Final(program)
    <2>1. /\ j = k /\ regs = Reached(program)[k]
          /\ Base(program[k]) = "ret" /\ Straight(program, k)
      BY <1>2, <1>4, <1>5 DEF InterpreterAt
    <2>2. Len(program) \in Nat
      BY <1>2
    <2> QED
      BY <1>4, <2>1, <2>2, FinalIs
  <1>7. PICK v \in Outcomes(regs[RAX]) : result' = [result EXCEPT !.int = v]
    BY <1>2
  <1>8. result' = [jit |-> result.jit, int |-> v]
    <2>1. result = [jit |-> result.jit, int |-> result.int]
      BY DEF MachineInv
    <2> QED
      BY <1>7, <2>1
  <1>9. /\ result'.jit = result.jit /\ result'.int = v
        /\ result' = [jit |-> result'.jit, int |-> result'.int]
    BY <1>8
  <1>10. /\ Gives(program, result'.int) /\ Gives(AsCompiled(program), result'.jit)
         /\ Intact(Final(AsCompiled(program)))
    BY <1>4, <1>6, <1>9, OutcomeIs DEF InterpreterAt
  <1>11. PhaseAt(at)' /\ BackendsAgree' /\ pc' \notin Starting
    BY <1>2, <1>10 DEF PhaseAt, BackendsAgree, Starting
  <1> QED
    BY <1>1, <1>2, <1>9, <1>11, MachineMoves

LEMMA MachineInit == X86Machine /\ Init => MachineInv
  <1> SUFFICES ASSUME X86Machine, Init PROVE MachineInv
    OBVIOUS
  <1>1. /\ ctx.len = 0 /\ pending = <<>> /\ program = <<>> /\ ~failed
        /\ index = 0 /\ code = <<>> /\ result = [jit |-> NULL, int |-> NULL]
        /\ pc \in {"read", "build"}
    BY DEF Init, BufferInit, AsmInit, Empty
  <1>2. Layout(ctx, pending, program, [i \in 1..1 |-> 0])
    <2> DEFINE at == [i \in 1..1 |-> 0]
    <2>1. at[1] = 0 /\ at \in [1..1 -> Nat] /\ Len(program) = 0
      BY <1>1
    <2>2. 1..Len(program) + 1 = 1..1 /\ 1..Len(program) = {} /\ 1..Len(program) - 1 = {}
      BY <2>1
    <2> HIDE DEF at
    <2>3. Layout(ctx, pending, program, at)
      BY <1>1, <2>1, <2>2 DEF Layout
    <2> QED
      BY <2>3 DEF at
  <1>3. PhaseAt([i \in 1..1 |-> 0])
    BY <1>1 DEF PhaseAt
  <1>4. result = [jit |-> result.jit, int |-> result.int]
    BY <1>1
  <1>5. BackendsAgree /\ program \in Seq(Instrs)
    BY <1>1 DEF BackendsAgree
  <1> QED
    BY <1>1, <1>2, <1>3, <1>4, <1>5 DEF MachineInv

\* When a reallocation has failed nothing is promised.
LEMMA MachineFailed ==
  ASSUME MachineInv, failed,
         \/ StartJit \/ Lost \/ Compile \/ Export \/ Execute \/ Crash \/ Leave \/ Interpret \/ Return
  PROVE  MachineInv'
  <1>1. failed' /\ program' = program /\ program \in Seq(Instrs) /\ pc' \notin Starting
    BY DEF StartJit, Lost, Compile, Export, Execute, Crash, Leave, Interpret, Return,
           bufferVars, MachineInv, Starting
  <1>2. result = [jit |-> result.jit, int |-> result.int]
    BY DEF MachineInv
  <1>3. \/ result' = result
        \/ \E v : result' = [result EXCEPT !.jit = v]
        \/ \E v : result' = [result EXCEPT !.int = v]
    BY DEF StartJit, Lost, Compile, Export, Execute, Crash, Leave, Interpret, Return, runVars
  <1>4. result' = [jit |-> result'.jit, int |-> result'.int]
    <2>1. CASE result' = result
      BY <1>2, <2>1
    <2>2. ASSUME NEW v, result' = [result EXCEPT !.jit = v]
          PROVE  result' = [jit |-> result'.jit, int |-> result'.int]
      <3>1. result' = [jit |-> v, int |-> result.int]
        BY <1>2, <2>2
      <3> QED
        BY <3>1
    <2>3. ASSUME NEW v, result' = [result EXCEPT !.int = v]
          PROVE  result' = [jit |-> result'.jit, int |-> result'.int]
      <3>1. result' = [jit |-> result.jit, int |-> v]
        BY <1>2, <2>3
      <3> QED
        BY <3>1
    <2> QED
      BY <1>3, <2>1, <2>2, <2>3
  <1> QED
    BY <1>1, <1>4, FailedKeeps

LEMMA MachineNext == IInv /\ MachineInv /\ [Next]_vars => MachineInv'
  <1> SUFFICES ASSUME IInv, MachineInv, [Next]_vars PROVE MachineInv'
    OBVIOUS
  <1>1. BufferOK /\ argv \in Seq(Nat) /\ X86Machine /\ program \in Seq(Instrs)
    BY DEF IInv, AsmInv, MachineInv
  <1>2. ASSUME UNCHANGED bufferVars PROVE program' \in Seq(Instrs) /\
              (~failed' => \E at : Layout(ctx', pending', program', at))
    BY <1>1, <1>2 DEF MachineInv, bufferVars
  <1>3. CASE UNCHANGED runVars /\ (ReadFile \/ Line \/ Name \/ Argument \/ TooMany \/ EndArgs \/ Reject)
    <2>1. UNCHANGED bufferVars /\ pc \in Starting /\ pc' \in Starting \union {"fail", "overrun"}
      BY <1>3 DEF ReadFile, Line, Name, Argument, TooMany, EndArgs, Reject, Starting
    <2> QED
      BY <1>2, <1>3, <2>1, StartingKeeps
  <1>4. CASE UNCHANGED runVars /\ Build
    <2>1. PICK x \in Instrs : Call(x)
      BY <1>1, <1>4, BuildIs
    <2>2. pc \in Starting /\ pc' \in Starting
      BY <1>4 DEF Build, Starting
    <2> QED
      BY <1>4, <2>1, <2>2, CallKeeps
  <1>5. CASE UNCHANGED runVars /\ PushField /\ UNCHANGED <<pc, asmVars>>
    BY <1>1, <1>5, PushFieldKeeps
  <1>6. CASE CallBuilder
    <2>1. PICK x \in Instructions[Len(program) + 1] : Call(x)
      BY <1>6 DEF CallBuilder
    <2>2. /\ Len(program) + 1 \in DOMAIN Instructions
          /\ UNCHANGED runVars /\ pc \in Starting /\ pc' \in Starting
      BY <1>6 DEF CallBuilder, Starting
    <2>3. x \in Instrs
      BY <2>2, InstructionsAssumption DEF Instrs, Typed
    <2> QED
      BY <2>1, <2>2, <2>3, CallKeeps
  <1>7. CASE failed /\ (StartJit \/ Lost \/ Compile \/ Export \/ Execute \/ Crash \/ Leave
                          \/ Interpret \/ Return)
    BY <1>7, MachineFailed
  <1>8. CASE ~failed /\ (StartJit \/ Lost \/ Compile \/ Export)
    BY <1>1, <1>8, StartJitKeeps, NeverLost, CompileKeeps, ExportKeeps
  <1>9. CASE ~failed /\ (Execute \/ Crash \/ Leave \/ Interpret \/ Return)
    BY <1>1, <1>9, ExecuteKeeps, CrashKeeps, LeaveKeeps, InterpretKeeps, ReturnKeeps
  <1>10. CASE UNCHANGED vars
    <2>1. UNCHANGED <<ctx, pending, program, failed, pc, index, code, regs, result>>
      BY <1>10 DEF vars, bufferVars, runVars
    <2>2. BackendsAgree'
      BY <2>1 DEF MachineInv, BackendsAgree
    <2>3. \A at : PhaseAt(at) => PhaseAt(at)'
      BY <2>1 DEF PhaseAt, CompilerAt, Processor, ProcessorAt, Interpreter, InterpreterAt
    <2> QED
      BY <2>1, <2>2, <2>3 DEF MachineInv
  <1> QED
    BY <1>3, <1>4, <1>5, <1>6, <1>7, <1>8, <1>9, <1>10 DEF Next, Assemble

\* On the machine of test/x86.vmdef, whatever the program and the sizes: the
\* interpreter returns what a program computes, the compiled code does for a
\* program that no imul a, b, a is in, and it returns to an intact caller exactly
\* if the program has a ret and leaves there what a callee has to save
\* (x86.vmdef:19-29, 44-55, interp.dasc, jitlib.dash:47-57).
THEOREM CompilerAgrees == X86Machine /\ Spec => []BackendsAgree
  <1>1. MachineInv => BackendsAgree
    BY DEF MachineInv
  <1> QED
    BY InitSafe, NextSafe, MachineInit, MachineNext, <1>1, PTL DEF Spec

(***************************************************************************)
(* What the assembler makes of a written text, for any opcodes, parsers    *)
(* and texts.  The state is put in terms of the lines: at[k] is where the   *)
(* line of the k-th instruction starts.                                    *)
(***************************************************************************)

Text == file.text
Want == file.want
Current == Len(program) + 1
Arity(instr) == Len(Opcodes[instr.op].args)
Place(p, j) == p + 3 * j - 1        \* of the j-th operand of the line at p

Spelt(at) == /\ at \in [1..Len(Want) + 1 -> 1..Len(Text) + 1]
             /\ WrittenFrom(Text, Want, at)

\* Where a line starts, or at the line feed before it.
Arrived(at, k) == read = at[k] \/ (read = at[k] - 1 /\ Text[read] = LF)

\* The mnemonic and the first m operands have been cut out.
Named(p) == name = p /\ buf[p] = Text[p] /\ buf[p + 1] = NUL
Collected(p, m) ==
    /\ Len(argv) = m
    /\ \A j \in 1..m : /\ argv[j] = Place(p, j)
                       /\ buf[Place(p, j)] = Text[Place(p, j)]
                       /\ buf[Place(p, j) + 1] = NUL

\* At the next operand, or at the space before it; or done, if there is none.
Collecting(at, k) ==
    LET n == Arity(Want[k])
        m == Len(argv)
    IN \/ m < n /\ (read = Place(at[k], m + 1) \/ (m > 0 /\ read = Place(at[k], m + 1) - 1))
       \/ n = 0 /\ m = 0 /\ read = at[k] + 2

Following(at) ==
    /\ program \in Seq(ToSet(Want)) /\ Len(program) <= Len(Want)
    /\ \A i \in 1..Len(program) : program[i] = Want[i]
    /\ pc \notin {"build", "fail"}
    /\ pc = "read" => program = <<>>
    /\ pc = "line" => Arrived(at, Current)
    /\ pc \in {"name", "args", "match"} => Current <= Len(Want)
    /\ pc = "name" => read = at[Current] /\ name = at[Current]
    /\ pc \in {"args", "match"} => Named(at[Current]) /\ Collected(at[Current], Len(argv))
    /\ pc = "args" => Collecting(at, Current)
    /\ pc = "match" => Len(argv) = Arity(Want[Current]) /\ Arrived(at, Current + 1)
    /\ pc = "assembled" => Len(program) = Len(Want)

TextWritten == file # NULL /\ file.want # NULL
TripInv == TextWritten => file \in Files /\ \E at : Spelt(at) /\ Following(at)

-----------------------------------------------------------------------------
\* A text that has no byte 0xFF is loaded as it is, with two terminators.
LEMMA LoadedIs ==
  ASSUME NEW T, NEW text \in Seq(T), FF \notin ToSet(text)
  PROVE  /\ Len(Loaded(text)) = Len(text) + 2
         /\ \A j \in 1..Len(text) : Loaded(text)[j] = text[j]
         /\ Loaded(text)[Len(text) + 1] = NUL /\ Loaded(text)[Len(text) + 2] = NUL
  <1>1. FileBytes(text) = text
    <2> DEFINE I == {i \in 1..Len(text) : text[i] = FF}
    <2>1. I = {}
      BY DEF ToSet
    <2>2. SelectInSeq(text, LAMBDA c : c = FF) = 0
      BY <2>1 DEF SelectInSeq
    <2> QED
      BY <2>2 DEF FileBytes
  <1> DEFINE S == T \union {NUL}
  <1>2. text \in Seq(S) /\ <<NUL, NUL>> \in Seq(S) /\ Len(<<NUL, NUL>>) = 2
    BY SeqMonotonic
  <1>3. Loaded(text) = text \o <<NUL, NUL>>
    BY <1>1 DEF Loaded
  <1> HIDE DEF S
  <1>4. /\ Len(text \o <<NUL, NUL>>) = Len(text) + 2 /\ Len(text) \in Nat
        /\ \A i \in 1..Len(text) + 2 :
              (text \o <<NUL, NUL>>)[i] = IF i <= Len(text) THEN text[i] ELSE <<NUL, NUL>>[i - Len(text)]
    BY <1>2, ConcatProperties
  <1> QED
    BY <1>3, <1>4

\* The copy of a written text, from the cursor on.
LEMMA Unread ==
  ASSUME file \in Files, file.want # NULL, TextOK
  PROVE  /\ Len(Text) \in Nat /\ Len(buf) = Len(Text) + 2 /\ buf \in Seq(Symbols)
         /\ read \in 1..Len(buf)
         /\ \A j \in read..Len(Text) : buf[j] = Text[j]
         /\ read <= Len(Text) + 1 => buf[Len(Text) + 1] = NUL
         /\ buf[Len(Text) + 2] = NUL
  <1>1. file.text \in Seq(ToSet(file.text)) /\ FF \notin ToSet(file.text)
    BY FilesAssumption DEF Written
  <1>2. /\ Len(Loaded(Text)) = Len(Text) + 2
        /\ \A j \in 1..Len(Text) : Loaded(Text)[j] = Text[j]
        /\ Loaded(Text)[Len(Text) + 1] = NUL /\ Loaded(Text)[Len(Text) + 2] = NUL
    BY <1>1, LoadedIs DEF Text
  <1>3. Len(Text) \in Nat
    BY <1>1, LenProperties DEF Text
  <1>4. /\ buf \in Seq(Symbols) /\ Len(buf) = Len(Loaded(Text)) /\ read \in 1..Len(buf)
        /\ \A j \in read..Len(buf) : buf[j] = Loaded(Text)[j]
    BY DEF TextOK, Text
  <1> HIDE DEF Text
  <1> QED
    BY <1>2, <1>3, <1>4

\* The scans, from a place where what they look for is at hand.
LEMMA StopsHere ==
  ASSUME NEW T, buf \in Seq(T), NEW symbols, NEW i \in 1..Len(buf)
  PROVE  /\ buf[i] \notin symbols => Past(symbols, i) = i
         /\ buf[i] \in symbols => Until(symbols, i) = i
         /\ i + 1 <= Len(buf) /\ buf[i] \in symbols /\ buf[i + 1] \notin symbols
              => Past(symbols, i) = i + 1
         /\ i + 1 <= Len(buf) /\ buf[i] \notin symbols /\ buf[i + 1] \in symbols
              => Until(symbols, i) = i + 1
  <1> DEFINE u == Until(symbols, i)
             p == Past(symbols, i)
             n == Len(buf)
  <1>1. /\ u \in i..n + 1 /\ (u <= n => buf[u] \in symbols)
        /\ \A j \in i..n : buf[j] \in symbols => u <= j
        /\ p \in i..n + 1 /\ (p <= n => buf[p] \notin symbols)
        /\ \A j \in i..n : buf[j] \notin symbols => p <= j
    BY Searches
  <1>2. n \in Nat /\ i \in 1..n
    OBVIOUS
  <1> HIDE DEF u, p, n
  <1>3. /\ buf[i] \notin symbols => p = i
        /\ buf[i] \in symbols => u = i
    <2>1. i \in i..n
      BY <1>2
    <2> QED
      BY <1>1, <1>2, <2>1
  <1>4. ASSUME i + 1 <= n, buf[i] \in symbols, buf[i + 1] \notin symbols
        PROVE  p = i + 1
    <2>1. i + 1 \in i..n /\ p <= i + 1
      BY <1>1, <1>2, <1>4
    <2>2. p # i
      BY <1>1, <1>2, <1>4
    <2> QED
      BY <1>1, <1>2, <2>1, <2>2
  <1>5. ASSUME i + 1 <= n, buf[i] \notin symbols, buf[i + 1] \in symbols
        PROVE  u = i + 1
    <2>1. i + 1 \in i..n /\ u <= i + 1
      BY <1>1, <1>2, <1>5
    <2>2. u # i
      BY <1>1, <1>2, <1>5
    <2> QED
      BY <1>1, <1>2, <2>1, <2>2
  <1> QED
    BY <1>3, <1>4, <1>5 DEF u, p, n

\* A string of one symbol.
LEMMA OneSymbol ==
  ASSUME NEW T, buf \in Seq(T), NEW i \in 1..Len(buf), i + 1 <= Len(buf),
         buf[i] # NUL, buf[i + 1] = NUL
  PROVE  String(i) = <<buf[i]>>
  <1>1. Until({NUL}, i) = i + 1
    BY StopsHere
  <1>2. i \in Nat /\ (i + 1) - 1 = i
    OBVIOUS
  <1>3. SubSeq(buf, i, i) = <<buf[i]>>
    <2>1. SubSeq(buf, i, i) = [j \in 1..i - i + 1 |-> buf[i + j - 1]]
      OBVIOUS
    <2>2. 1..i - i + 1 = {1} /\ i + 1 - 1 = i
      BY <1>2
    <2> QED
      BY <2>1, <2>2
  <1> QED
    BY <1>1, <1>2, <1>3 DEF String

-----------------------------------------------------------------------------
\* What is written where.
LEMMA LineIs ==
  ASSUME file \in Files, file.want # NULL, NEW at, Spelt(at), NEW k \in 1..Len(Want)
  PROVE  /\ WrittenLine(Text, at[k], at[k + 1], Want[k])
         /\ Want[k].op \in DOMAIN Opcodes /\ Arity(Want[k]) \in Nat
         /\ at[k] \in 1..Len(Text) /\ at[k + 1] \in 1..Len(Text) + 1
         /\ Text[at[k]] \notin Separators /\ Text[at[k]] = Opcodes[Want[k].op].base
         /\ Len(Text) \in Nat /\ at[k] + 2 <= at[k + 1]
  <1>1. Len(Want) \in Nat /\ Len(Text) \in Nat
    <2>1. file.text \in Seq(ToSet(file.text)) /\ file.want \in Seq(ToSet(file.want))
      BY FilesAssumption DEF Written
    <2> QED
      BY <2>1, LenProperties DEF Want, Text
  <1> DEFINE p == at[k]
             q == at[k + 1]
             n == Arity(Want[k])
             l == Len(Text)
  <1>2. /\ p \in 1..l + 1 /\ q \in 1..l + 1
        /\ WrittenLine(Text, p, q, Want[k])
    <2>1. k \in 1..Len(Want) + 1 /\ k + 1 \in 1..Len(Want) + 1
      BY <1>1
    <2> QED
      BY <2>1 DEF Spelt, WrittenFrom
  <1>3. Want[k].op \in DOMAIN Opcodes
    BY <1>2 DEF WrittenLine
  <1>4. n \in Nat
    BY <1>3, OpcodeTypes DEF Arity
  <1> HIDE DEF p, q, n, l
  <1>5. q = p + 3 \/ q = p + 2 \/ (n # 0 /\ q = p + 3 * n + 1)
    BY <1>2 DEF WrittenLine, n, Arity
  <1>6. p + 2 <= q /\ p \in 1..l
    BY <1>1, <1>2, <1>4, <1>5 DEF l
  <1>7. Text[p] \notin Separators /\ Text[p] = Opcodes[Want[k].op].base
    BY <1>2 DEF WrittenLine
  <1> QED
    BY <1>1, <1>2, <1>3, <1>4, <1>6, <1>7 DEF p, q, n, l

LEMMA PlaceIs ==
  ASSUME NEW p \in Nat, NEW n \in Nat, NEW j \in 1..n
  PROVE  /\ Place(p, j) \in Nat /\ p + 2 <= Place(p, j) /\ Place(p, j) + 2 <= p + 3 * n + 1
         /\ j = n => Place(p, j) + 2 = p + 3 * n + 1
         /\ Place(p, j) + 3 = Place(p, j + 1)
  BY DEF Place

\* A line from p up to q with n operands, and what comes before and after each.
Shape(text, p, q, n) ==
    /\ p \in 1..Len(text) /\ q \in 1..Len(text) + 1 /\ n \in Nat /\ p + 2 <= q
    /\ text[p] \notin Separators
    /\ n = 0 => \/ q = p + 3 /\ text[p + 1] = SP /\ text[p + 2] = LF
                \/ q = p + 2 /\ text[p + 1] = LF /\ q = Len(text) + 1
    /\ n # 0 => text[p + 1] = SP /\ text[p + 2] \notin Separators
    /\ \A j \in 1..n :
          /\ Place(p, j) \in Nat /\ p + 2 <= Place(p, j) /\ Place(p, j) + 2 <= q
          /\ text[Place(p, j)] \notin Separators
          /\ j = n => text[Place(p, j) + 1] = LF /\ Place(p, j) + 2 = q
          /\ j # n => /\ text[Place(p, j) + 1] = COMMA
                      /\ text[Place(p, j) + 2] = SP
                      /\ Place(p, j) + 3 = Place(p, j + 1)

LEMMA OperandIs ==
  ASSUME NEW text, Len(text) \in Nat, NEW p \in 1..Len(text), NEW q \in 1..Len(text) + 1,
         p + 2 <= q, NEW x, WrittenLine(text, p, q, x), Arity(x) \in Nat
  PROVE  Shape(text, p, q, Arity(x))
  <1>1. PICK n \in Nat : n = Arity(x)
    OBVIOUS
  <1>2. /\ n = 0 => \/ q = p + 3 /\ text[p + 1] = SP /\ text[p + 2] = LF
                    \/ q = p + 2 /\ text[p + 1] = LF /\ q = Len(text) + 1
        /\ n # 0 => q = p + 3 * n + 1 /\ text[p + 1] = SP
        /\ text[p] \notin Separators
    BY <1>1 DEF WrittenLine, Arity
  <1>3. \A j \in 1..n :
            /\ text[Place(p, j)] \notin Separators
            /\ IF j = n THEN text[Place(p, j) + 1] = LF
               ELSE text[Place(p, j) + 1] = COMMA /\ text[Place(p, j) + 2] = SP
    BY <1>1 DEF WrittenLine, Arity, Place
  <1>4. ASSUME NEW j \in 1..n
        PROVE  /\ Place(p, j) \in Nat /\ p + 2 <= Place(p, j) /\ Place(p, j) + 2 <= q
               /\ j = n => Place(p, j) + 2 = q
               /\ Place(p, j) + 3 = Place(p, j + 1)
    <2>1. q = p + 3 * n + 1 /\ p \in Nat
      BY <1>2
    <2> QED
      BY <2>1, PlaceIs
  <1>5. n # 0 => text[p + 2] \notin Separators
    <2>1. n # 0 => 1 \in 1..n /\ Place(p, 1) = p + 2
      BY DEF Place
    <2> QED
      BY <1>3, <2>1
  <1>6. Shape(text, p, q, n)
    BY <1>2, <1>3, <1>4, <1>5 DEF Shape
  <1> QED
    BY <1>1, <1>6

\* An instruction is its opcode and its operands.
LEMMA WantIs ==
  ASSUME file \in Files, file.want # NULL, NEW at, Spelt(at), NEW k \in 1..Len(Want)
  PROVE  /\ Want[k] = [op |-> Want[k].op, args |-> [j \in 1..Arity(Want[k]) |-> Want[k].args[j]]]
         /\ Want[k].op \in Nat
         /\ \A o \in 1..Want[k].op - 1 :
               \/ Opcodes[o].base # Opcodes[Want[k].op].base
               \/ Len(Opcodes[o].args) # Arity(Want[k])
         /\ Want[k] \in ToSet(Want)
         /\ \A j \in 1..Arity(Want[k]) :
               Parse(Opcodes[Want[k].op].args[j], <<Text[Place(at[k], j)]>>) = {Want[k].args[j]}
  <1>1. WrittenLine(Text, at[k], at[k + 1], Want[k]) /\ Want[k].op \in DOMAIN Opcodes
    BY LineIs
  <1>2. Want[k].op \in Nat
    BY <1>1, OpcodeTypes
  <1>3. k \in DOMAIN Want
    <2>1. file.want \in Seq(ToSet(file.want))
      BY FilesAssumption DEF Written
    <2> QED
      BY <2>1, LenProperties DEF Want
  <1> QED
    BY <1>1, <1>2, <1>3 DEF WrittenLine, Arity, Place, ToSet

LEMMA Separates ==
  /\ {SP, CR, LF} \subseteq Separators /\ NameEnds \subseteq Separators
  /\ OperandEnds \subseteq Separators /\ NUL \in Separators /\ HASH \in Separators
  /\ NUL \notin {SP, CR, LF} /\ NUL \notin {SP} /\ LF \notin {SP} /\ COMMA \notin {SP}
  /\ SP \in NameEnds /\ LF \in NameEnds /\ COMMA \in OperandEnds /\ LF \in OperandEnds
  /\ NUL # LF /\ NUL # SP /\ COMMA \notin {CR, LF, NUL} /\ SP \notin {CR, LF, NUL}
  BY DEF Separators, SP, CR, LF, NUL, HASH, COMMA, FF, NameEnds, OperandEnds

-----------------------------------------------------------------------------
\* The steps of the assembler.
LEMMA SameText ==
  ASSUME file' = file, NEW at
  PROVE  Text' = Text /\ Want' = Want /\ Spelt(at)' = Spelt(at) /\ TextWritten' = TextWritten
  <1>1. Text' = Text /\ Want' = Want
    BY DEF Text, Want
  <1> QED
    BY <1>1 DEF Spelt, TextWritten

LEMMA FollowsIs ==
  ASSUME file \in Files, file.want # NULL, NEW at, Spelt(at), Following(at)
  PROVE  /\ Len(program) \in Nat /\ Current \in Nat \ {0} /\ Current = Len(program) + 1
         /\ Len(Want) \in Nat /\ Len(Text) \in Nat
         /\ Current \in 1..Len(Want) + 1 /\ at[Current] \in 1..Len(Text) + 1
         /\ Current = Len(Want) + 1 => at[Current] = Len(Text) + 1
         /\ Current <= Len(Want) => Current \in 1..Len(Want) /\ Current + 1 \in 1..Len(Want) + 1
  <1>1. Len(Want) \in Nat /\ Len(Text) \in Nat
    <2>1. file.text \in Seq(ToSet(file.text)) /\ file.want \in Seq(ToSet(file.want))
      BY FilesAssumption DEF Written
    <2> QED
      BY <2>1, LenProperties DEF Want, Text
  <1>2. Len(program) \in Nat /\ Len(program) <= Len(Want)
    BY LenProperties DEF Following
  <1>3. /\ Current \in Nat \ {0} /\ Current = Len(program) + 1 /\ Current \in 1..Len(Want) + 1
        /\ Current <= Len(Want) => Current \in 1..Len(Want) /\ Current + 1 \in 1..Len(Want) + 1
    BY <1>1, <1>2 DEF Current
  <1>4. at[Current] \in 1..Len(Text) + 1 /\ (Current = Len(Want) + 1 => at[Current] = Len(Text) + 1)
    BY <1>3 DEF Spelt, WrittenFrom
  <1> QED
    BY <1>1, <1>2, <1>3, <1>4

\* What the assembler finds where a line starts, or the text ends.
LEMMA ArrivedIs ==
  ASSUME file \in Files, file.want # NULL, TextOK, NEW at, Spelt(at),
         NEW k \in 1..Len(Want) + 1, Arrived(at, k), Len(Want) \in Nat
  PROVE  /\ at[k] \in 1..Len(Text) + 1 /\ read \in 1..Len(buf) /\ at[k] \in 1..Len(buf)
         /\ Past({SP, CR, LF}, read) = at[k]
         /\ k <= Len(Want) => buf[at[k]] = Text[at[k]] /\ buf[at[k]] \notin Separators
         /\ k = Len(Want) + 1 => buf[at[k]] = NUL
  <1> DEFINE s == at[k]
             l == Len(Text)
  <1>1. /\ l \in Nat /\ Len(buf) = l + 2 /\ buf \in Seq(Symbols)
        /\ read \in 1..Len(buf)
        /\ \A j \in read..l : buf[j] = Text[j]
        /\ read <= l + 1 => buf[l + 1] = NUL
    BY Unread
  <1>2. s \in 1..l + 1 /\ (k = Len(Want) + 1 => s = l + 1)
    BY DEF Spelt, WrittenFrom
  <1>3. read = s \/ (read = s - 1 /\ Text[read] = LF)
    BY DEF Arrived
  <1>4. k <= Len(Want) => s \in 1..l /\ Text[s] \notin Separators
    <2>1. k <= Len(Want) => k \in 1..Len(Want)
      OBVIOUS
    <2> QED
      BY <2>1, LineIs
  <1> HIDE DEF s, l
  <1>5. k <= Len(Want) => buf[s] = Text[s] /\ buf[s] \notin Separators
    BY <1>1, <1>2, <1>3, <1>4
  <1>6. k = Len(Want) + 1 => buf[s] = NUL
    BY <1>1, <1>2, <1>3
  <1>7. buf[s] \notin {SP, CR, LF} /\ s \in 1..Len(buf)
    <2>1. k <= Len(Want) \/ k = Len(Want) + 1
      OBVIOUS
    <2> QED
      BY <1>1, <1>2, <1>5, <1>6, <2>1, Separates
  <1>8. Past({SP, CR, LF}, read) = s
    <2>1. CASE read = s
      BY <1>1, <1>7, <2>1, StopsHere
    <2>2. CASE read = s - 1 /\ Text[read] = LF
      <3>1. read + 1 = s /\ read + 1 <= Len(buf)
        BY <1>1, <1>2, <1>7, <2>2
      <3>2. buf[read] \in {SP, CR, LF}
        BY <1>1, <1>2, <2>2
      <3> QED
        BY <1>1, <1>7, <3>1, <3>2, StopsHere
    <2> QED
      BY <1>3, <2>1, <2>2
  <1> QED
    BY <1>1, <1>2, <1>5, <1>6, <1>7, <1>8 DEF s, l

LEMMA LineFollows ==
  ASSUME AsmInv, file \in Files, file.want # NULL, NEW at, Spelt(at), Following(at), Line
  PROVE  Following(at)'
  <1> DEFINE k == Current
             s == at[k]
  <1>1. TextOK /\ pc = "line"
    BY DEF AsmInv, Line, Scanning
  <1>2. /\ Len(program) \in Nat /\ k \in Nat \ {0} /\ k = Len(program) + 1
        /\ Len(Want) \in Nat /\ k \in 1..Len(Want) + 1
    BY FollowsIs
  <1>3. Arrived(at, k)
    BY <1>1 DEF Following
  <1> HIDE DEF k
  <1>4. /\ s \in 1..Len(buf) /\ Past({SP, CR, LF}, read) = s
        /\ k <= Len(Want) => buf[s] \notin Separators
        /\ k = Len(Want) + 1 => buf[s] = NUL
    <2>1. Len(Want) \in Nat /\ k \in 1..Len(Want) + 1
      BY <1>2
    <2> QED
      BY <1>1, <1>3, <2>1, ArrivedIs
  <1>5. /\ UNCHANGED <<file, buf, argv, program>>
        /\ \/ buf[s] = NUL /\ pc' = "assembled"
           \/ buf[s] = HASH
           \/ buf[s] \notin {NUL, HASH} /\ name' = s /\ read' = s /\ pc' = "name"
    <2>1. Len(buf) \in Nat
      BY <1>1, TextEnds
    <2>2. s <= Len(buf) /\ ~(s > Len(buf))
      BY <1>4, <2>1
    <2> QED
      BY <1>4, <2>2 DEF Line, bufferVars
  <1>6. Text' = Text /\ Want' = Want /\ Current' = Current /\ k = Current
    BY <1>5, SameText DEF Current, k
  <1>7. /\ program' \in Seq(ToSet(Want))' /\ (Len(program) <= Len(Want))'
        /\ \A i \in 1..Len(program') : program'[i] = Want'[i]
    BY <1>5, <1>6 DEF Following
  <1>8. CASE k <= Len(Want)
    <2>1. name' = s /\ read' = s /\ pc' = "name"
      BY <1>4, <1>5, <1>8, Separates
    <2> QED
      BY <1>6, <1>7, <1>8, <2>1 DEF Following
  <1>9. CASE k = Len(Want) + 1
    <2>1. pc' = "assembled"
      <3>1. buf[s] # HASH
        BY <1>4, <1>9 DEF NUL, HASH
      <3> QED
        BY <1>4, <1>5, <1>9, <3>1
    <2>2. Len(program) = Len(Want)
      BY <1>2, <1>9
    <2> QED
      BY <1>5, <1>6, <1>7, <2>1, <2>2 DEF Following
  <1> QED
    BY <1>2, <1>8, <1>9

\* The line that is read: its instruction, its ends and the number of operands.
OnLine(at, k, p, q, n) ==
    /\ k = Current /\ p = at[Current] /\ q = at[Current + 1] /\ n = Arity(Want[Current])
    /\ k \in 1..Len(Want) /\ Shape(Text, p, q, n)

LEMMA OnALine ==
  ASSUME file \in Files, file.want # NULL, NEW at, Spelt(at), Following(at), Current <= Len(Want)
  PROVE  \E k, p, q, n : OnLine(at, k, p, q, n)
  <1> DEFINE k == Current
             p == at[k]
             q == at[k + 1]
             n == Arity(Want[k])
  <1>1. k \in 1..Len(Want)
    BY FollowsIs
  <1> HIDE DEF k
  <1>2. /\ WrittenLine(Text, p, q, Want[k])
        /\ n \in Nat /\ p \in 1..Len(Text) /\ q \in 1..Len(Text) + 1
        /\ Text[p] \notin Separators /\ Len(Text) \in Nat /\ p + 2 <= q
    BY <1>1, LineIs
  <1> HIDE DEF p, q
  <1>3. Shape(Text, p, q, Arity(Want[k]))
    BY <1>2, OperandIs
  <1>7. OnLine(at, k, p, q, n)
    BY <1>1, <1>3 DEF OnLine, k, p, q, n
  <1> QED
    BY <1>7

\* A step that reads on in the line.
LEMMA SameLine ==
  ASSUME file' = file, program' = program, NEW at, Following(at), pc' \in {"name", "args", "match"},
         NEW k, NEW p, NEW q, NEW n, OnLine(at, k, p, q, n),
         pc' = "name" => read' = p /\ name' = p,
         pc' \in {"args", "match"} =>
            /\ name' = p /\ buf'[p] = Text[p] /\ buf'[p + 1] = NUL
            /\ \A j \in 1..Len(argv') : /\ argv'[j] = Place(p, j)
                                        /\ buf'[Place(p, j)] = Text[Place(p, j)]
                                        /\ buf'[Place(p, j) + 1] = NUL,
         pc' = "args" =>
            \/ /\ Len(argv') < n
               /\ \/ read' = Place(p, Len(argv') + 1)
                  \/ Len(argv') > 0 /\ read' = Place(p, Len(argv') + 1) - 1
            \/ n = 0 /\ Len(argv') = 0 /\ read' = p + 2,
         pc' = "match" => Len(argv') = n /\ (read' = q \/ (read' = q - 1 /\ Text[read'] = LF))
  PROVE  Following(at)'
  <1>1. Text' = Text /\ Want' = Want /\ Current' = Current
    BY SameText DEF Current
  <1>2. /\ p = at[Current] /\ q = at[Current + 1] /\ n = Arity(Want[Current])
        /\ Current <= Len(Want)
    BY DEF OnLine
  <1>3. Arity(Want[Current])' = Arity(Want[Current])
    BY <1>1 DEF Arity
  <1>4. /\ program' \in Seq(ToSet(Want))' /\ (Len(program) <= Len(Want))'
        /\ \A i \in 1..Len(program') : program'[i] = Want'[i]
    BY <1>1 DEF Following
  <1>5. pc' = "name" => read' = at[Current'] /\ name' = at[Current']
    BY <1>1, <1>2
  <1>6. pc' \in {"args", "match"} => Named(at[Current])' /\ Collected(at[Current], Len(argv))'
    BY <1>1, <1>2 DEF Named, Collected
  <1>7. pc' = "args" => Collecting(at, Current)'
    BY <1>1, <1>2, <1>3 DEF Collecting
  <1>8. pc' = "match" => Len(argv') = Arity(Want[Current])' /\ Arrived(at, Current + 1)'
    BY <1>1, <1>2, <1>3 DEF Arrived
  <1>9. (Current <= Len(Want))'
    BY <1>1, <1>2
  <1> QED
    BY <1>4, <1>5, <1>6, <1>7, <1>8, <1>9 DEF Following

LEMMA NameFollows ==
  ASSUME AsmInv, file \in Files, file.want # NULL, NEW at, Spelt(at), Following(at), Name
  PROVE  Following(at)'
  <1>1. TextOK /\ pc = "name" /\ Current <= Len(Want) /\ read = at[Current] /\ name = at[Current]
    BY DEF AsmInv, Name, Scanning, Following
  <1>2. PICK k, p, q, n : OnLine(at, k, p, q, n)
    BY <1>1, OnALine
  <1>3. read = p /\ name = p /\ Shape(Text, p, q, n)
    BY <1>1, <1>2 DEF OnLine
  <1>4. PICK l \in Nat : l = Len(Text)
    BY <1>1, Unread
  <1>5. /\ Len(buf) = l + 2 /\ buf \in Seq(Symbols)
        /\ \A j \in p..l : buf[j] = Text[j]
        /\ p <= l + 1 => buf[l + 1] = NUL
    BY <1>1, <1>3, <1>4, Unread
  <1>6. /\ p \in 1..l /\ q \in 1..l + 1 /\ p + 2 <= q /\ n \in Nat
        /\ Text[p] \notin Separators
        /\ n = 0 => \/ q = p + 3 /\ Text[p + 1] = SP /\ Text[p + 2] = LF
                    \/ q = p + 2 /\ Text[p + 1] = LF /\ q = l + 1
        /\ n # 0 => Text[p + 1] = SP /\ Text[p + 2] \notin Separators
    BY <1>3, <1>4 DEF Shape
  <1>7. p + 1 \in 1..l /\ p + 2 \in 1..l + 1 /\ p \in 1..Len(buf) /\ p + 2 \in 1..Len(buf)
        /\ p + 1 \in 1..Len(buf) /\ p + 1 <= Len(buf) /\ p + 1 # p
    BY <1>5, <1>6
  <1>8. buf[p] = Text[p] /\ buf[p + 1] = Text[p + 1]
    BY <1>5, <1>6, <1>7
  <1>9. Until(NameEnds, p) = p + 1
    <2>1. buf[p] \notin NameEnds /\ buf[p + 1] \in NameEnds
      BY <1>6, <1>8, Separates
    <2> QED
      BY <1>5, <1>7, <2>1, StopsHere
  <1>10. Past({SP}, p + 2) = p + 2
    <2>1. buf[p + 2] \notin {SP}
      <3>1. CASE p + 2 = l + 1
        BY <1>5, <1>6, <3>1, Separates
      <3>2. CASE p + 2 <= l
        <4>1. buf[p + 2] = Text[p + 2]
          BY <1>5, <1>6, <1>7, <3>2
        <4>2. Text[p + 2] \notin Separators \/ Text[p + 2] = LF
          BY <1>6, <3>2
        <4> QED
          BY <4>1, <4>2, Separates DEF Separators
      <3> QED
        BY <1>6, <1>7, <3>1, <3>2
    <2> QED
      BY <1>5, <1>7, <2>1, StopsHere
  <1>11. /\ buf' = [buf EXCEPT ![p + 1] = NUL] /\ read' = p + 2
         /\ argv' = <<>> /\ pc' = "args" /\ UNCHANGED <<file, name, program>>
    <2>1. (p + 1) + 1 = p + 2
      BY <1>6
    <2>2. p + 2 <= Len(buf)
      BY <1>5, <1>6, <1>7
    <2> QED
      BY <1>3, <1>9, <1>10, <2>1, <2>2 DEF Name, bufferVars
  <1>12. name' = p /\ buf'[p] = Text[p] /\ buf'[p + 1] = NUL
    BY <1>3, <1>5, <1>7, <1>8, <1>11
  <1>13. Len(argv') = 0 /\ 1..Len(argv') = {}
    BY <1>11
  <1>14. \/ Len(argv') < n /\ read' = Place(p, Len(argv') + 1)
         \/ n = 0 /\ Len(argv') = 0 /\ read' = p + 2
    <2>1. Place(p, 0 + 1) = p + 2
      BY <1>6 DEF Place
    <2> QED
      BY <1>6, <1>11, <1>13, <2>1
  <1>15. /\ pc' # "name" /\ pc' # "match"
         /\ \A j \in 1..Len(argv') : /\ argv'[j] = Place(p, j)
                                     /\ buf'[Place(p, j)] = Text[Place(p, j)]
                                     /\ buf'[Place(p, j) + 1] = NUL
    BY <1>11, <1>13
  <1> QED
    BY <1>2, <1>11, <1>12, <1>14, <1>15, SameLine

\* Where the assembler is while it collects operands.
LEMMA CollectingIs ==
  ASSUME AsmInv, file \in Files, file.want # NULL, NEW at, Spelt(at), Following(at), pc = "args",
         NEW k, NEW p, NEW q, NEW n, OnLine(at, k, p, q, n)
  PROVE  /\ TextOK /\ Shape(Text, p, q, n) /\ Len(argv) \in Nat
         /\ name = p /\ buf[p] = Text[p] /\ buf[p + 1] = NUL
         /\ \A j \in 1..Len(argv) : /\ argv[j] = Place(p, j)
                                    /\ buf[Place(p, j)] = Text[Place(p, j)]
                                    /\ buf[Place(p, j) + 1] = NUL
         /\ \/ /\ Len(argv) < n
               /\ \/ read = Place(p, Len(argv) + 1)
                  \/ read = Place(p, Len(argv) + 1) - 1 /\ buf[read] = SP
               /\ buf[Place(p, Len(argv) + 1)] \notin Separators
               /\ buf[Place(p, Len(argv) + 1) + 1] = Text[Place(p, Len(argv) + 1) + 1]
               /\ buf[Place(p, Len(argv) + 1)] = Text[Place(p, Len(argv) + 1)]
               /\ buf[read] \notin {CR, LF, NUL}
            \/ /\ n = 0 /\ Len(argv) = 0 /\ read = p + 2
               /\ buf[read] \in {CR, LF, NUL}
               /\ read = q \/ (read = q - 1 /\ Text[read] = LF)
  <1>1. TextOK /\ Named(at[Current]) /\ Collected(at[Current], Len(argv)) /\ Collecting(at, Current)
    BY DEF AsmInv, Scanning, Following
  <1>2. Len(argv) \in Nat
    BY LenProperties DEF AsmInv
  <1>3. /\ Shape(Text, p, q, n)
        /\ name = p /\ buf[p] = Text[p] /\ buf[p + 1] = NUL
        /\ \A j \in 1..Len(argv) : /\ argv[j] = Place(p, j)
                                   /\ buf[Place(p, j)] = Text[Place(p, j)]
                                   /\ buf[Place(p, j) + 1] = NUL
    BY <1>1 DEF OnLine, Named, Collected
  <1>4. \/ /\ Len(argv) < n
           /\ \/ read = Place(p, Len(argv) + 1)
              \/ Len(argv) > 0 /\ read = Place(p, Len(argv) + 1) - 1
        \/ n = 0 /\ Len(argv) = 0 /\ read = p + 2
    BY <1>1 DEF OnLine, Collecting
  <1>5. PICK l \in Nat : l = Len(Text)
    BY <1>1, Unread
  <1>6. /\ \A j \in read..l : buf[j] = Text[j]
        /\ read <= l + 1 => buf[l + 1] = NUL
    BY <1>1, <1>5, Unread
  <1>7. /\ p \in 1..l /\ q \in 1..l + 1 /\ p + 2 <= q /\ n \in Nat
        /\ n = 0 => \/ q = p + 3 /\ Text[p + 1] = SP /\ Text[p + 2] = LF
                    \/ q = p + 2 /\ Text[p + 1] = LF /\ q = l + 1
        /\ \A j \in 1..n :
              /\ Place(p, j) \in Nat /\ p + 2 <= Place(p, j) /\ Place(p, j) + 2 <= q
              /\ Text[Place(p, j)] \notin Separators
              /\ j # n => Text[Place(p, j) + 2] = SP /\ Place(p, j) + 3 = Place(p, j + 1)
    BY <1>3, <1>5 DEF Shape
  <1>8. CASE n = 0 /\ Len(argv) = 0 /\ read = p + 2
    <2>1. \/ q = p + 3 /\ Text[p + 2] = LF /\ p + 2 <= l
          \/ q = p + 2 /\ q = l + 1
      BY <1>7, <1>8
    <2>2. \/ q = p + 3 /\ Text[p + 2] = LF /\ buf[p + 2] = LF
          \/ q = p + 2 /\ buf[p + 2] = NUL
      BY <1>6, <1>7, <1>8, <2>1
    <2>3. read \in Nat /\ p \in Nat /\ read = p + 2
      BY <1>7, <1>8
    <2>4. \/ q = read + 1 /\ Text[read] = LF /\ buf[read] = LF
          \/ q = read /\ buf[read] = NUL
      BY <2>2, <2>3
    <2>5. read = q \/ (read = q - 1 /\ Text[read] = LF)
      <3>1. q = read + 1 => read = q - 1
        BY <2>3
      <3> QED
        BY <2>4, <3>1
    <2>6. buf[read] \in {CR, LF, NUL}
      BY <2>4
    <2> QED
      BY <1>1, <1>2, <1>3, <1>8, <2>5, <2>6
  <1>9. CASE /\ Len(argv) < n
             /\ \/ read = Place(p, Len(argv) + 1)
                \/ Len(argv) > 0 /\ read = Place(p, Len(argv) + 1) - 1
    <2>1. PICK j \in 1..n : j = Len(argv) + 1
      BY <1>2, <1>7, <1>9
    <2>2. PICK a \in Nat : a = Place(p, j)
      BY <1>7
    <2>3. p + 2 <= a /\ a + 2 <= q /\ Text[a] \notin Separators
      BY <1>7, <2>2
    <2>4. Len(argv) > 0 => Text[a - 1] = SP
      <3>1. Len(argv) > 0 => /\ Len(argv) \in 1..n /\ Len(argv) # n
        <4>1. n \in Nat /\ Len(argv) < n
          BY <1>7, <1>9
        <4> QED
          BY <1>2, <4>1
      <3>2. Len(argv) > 0 => /\ Text[Place(p, Len(argv)) + 2] = SP
                             /\ Place(p, Len(argv)) \in Nat
                             /\ Place(p, Len(argv)) + 3 = a
        BY <1>7, <2>1, <2>2, <3>1
      <3> QED
        BY <2>2, <3>2
    <2>5. read = a \/ (Len(argv) > 0 /\ read = a - 1)
      BY <1>9, <2>1, <2>2
    <2>6. /\ a \in read..l /\ a + 1 \in read..l /\ read \in read..l
      <3>1. a \in Nat /\ l \in Nat /\ q \in Nat /\ q <= l + 1 /\ a + 2 <= q
        <4>1. q \in 1..l + 1 /\ l \in Nat
          BY <1>7
        <4> QED
          BY <2>3, <4>1
      <3>2. read = a \/ read = a - 1
        BY <2>5
      <3> QED
        BY <3>1, <3>2
    <2>7. buf[a] = Text[a] /\ buf[a + 1] = Text[a + 1] /\ buf[read] = Text[read]
      BY <1>6, <2>6
    <2>8. read = a \/ (read = a - 1 /\ buf[read] = SP)
      BY <2>4, <2>5, <2>7
    <2>9. buf[read] \notin {CR, LF, NUL}
      BY <2>3, <2>7, <2>8, Separates
    <2> QED
      BY <1>1, <1>2, <1>3, <1>9, <2>1, <2>2, <2>3, <2>7, <2>8, <2>9
  <1> QED
    BY <1>4, <1>8, <1>9

\* The operand that is read next, and what reading it does.
LEMMA ArgumentIs ==
  ASSUME AsmInv, file \in Files, file.want # NULL, NEW at, Spelt(at), Following(at), Argument,
         NEW k, NEW p, NEW q, NEW n, OnLine(at, k, p, q, n)
  PROVE  /\ Len(argv) < n
         /\ \E a \in Nat :
               /\ a = Place(p, Len(argv) + 1) /\ a + 1 <= Len(buf)
               /\ buf[a] = Text[a]
               /\ argv' = Append(argv, a) /\ buf' = [buf EXCEPT ![a + 1] = NUL] /\ read' = a + 2
               /\ pc' = IF Text[a + 1] \in {CR, LF, NUL} THEN "match" ELSE "args"
               /\ UNCHANGED <<file, name, program>>
  <1>1. pc = "args" /\ buf[read] \notin {CR, LF, NUL}
    BY DEF Argument
  <1>2. /\ TextOK /\ Shape(Text, p, q, n) /\ Len(argv) \in Nat
        /\ Len(argv) < n
        /\ \/ read = Place(p, Len(argv) + 1)
           \/ read = Place(p, Len(argv) + 1) - 1 /\ buf[read] = SP
        /\ buf[Place(p, Len(argv) + 1)] \notin Separators
        /\ buf[Place(p, Len(argv) + 1) + 1] = Text[Place(p, Len(argv) + 1) + 1]
        /\ buf[Place(p, Len(argv) + 1)] = Text[Place(p, Len(argv) + 1)]
    BY <1>1, CollectingIs
  <1>3. PICK l \in Nat : l = Len(Text)
    BY <1>2, Unread
  <1>4. /\ buf \in Seq(Symbols) /\ Len(buf) = l + 2 /\ read \in 1..Len(buf)
    BY <1>2, <1>3, Unread
  <1>5. PICK j \in 1..n : j = Len(argv) + 1
    BY <1>2 DEF Shape
  <1>6. /\ Place(p, j) \in Nat /\ p + 2 <= Place(p, j) /\ Place(p, j) + 2 <= q
        /\ p \in 1..l /\ q \in 1..l + 1
        /\ Text[Place(p, j) + 1] \in {LF, COMMA}
    BY <1>2, <1>3 DEF Shape
  <1>7. PICK a \in Nat : a = Place(p, j)
    BY <1>6
  <1>8. /\ p + 2 <= a /\ a + 2 <= q /\ Text[a + 1] \in {LF, COMMA}
        /\ read = a \/ (read = a - 1 /\ buf[read] = SP)
        /\ buf[a] \notin Separators /\ buf[a + 1] = Text[a + 1] /\ buf[a] = Text[a]
    BY <1>2, <1>5, <1>6, <1>7
  <1>9. a \in 1..Len(buf) /\ a + 1 \in 1..Len(buf) /\ a + 1 <= Len(buf)
    <2>1. q <= l + 1 /\ p >= 1 /\ p \in Nat /\ q \in Nat
      BY <1>3, <1>6
    <2> QED
      BY <1>4, <1>8, <2>1
  <1>10. Past({SP}, read) = a
    <2>1. buf[a] \notin {SP}
      BY <1>8, Separates
    <2>2. CASE read = a
      BY <1>4, <1>9, <2>1, <2>2, StopsHere
    <2>3. CASE read = a - 1 /\ buf[read] = SP
      <3>1. read + 1 = a /\ read + 1 <= Len(buf)
        BY <1>9, <2>3
      <3> QED
        BY <1>4, <2>1, <2>3, <3>1, StopsHere
    <2> QED
      BY <1>8, <2>2, <2>3
  <1>11. Until(OperandEnds, a) = a + 1
    <2>1. buf[a] \notin OperandEnds /\ buf[a + 1] \in OperandEnds
      BY <1>8, Separates
    <2> QED
      BY <1>4, <1>9, <2>1, StopsHere
  <1>12. /\ argv' = Append(argv, a) /\ buf' = [buf EXCEPT ![a + 1] = NUL] /\ read' = a + 2
         /\ pc' = IF Text[a + 1] \in {CR, LF, NUL} THEN "match" ELSE "args"
         /\ UNCHANGED <<file, name, program>>
    <2>1. (a + 1) + 1 = a + 2
      OBVIOUS
    <2> QED
      BY <1>8, <1>10, <1>11, <2>1 DEF Argument, bufferVars
  <1> QED
    BY <1>2, <1>5, <1>7, <1>8, <1>9, <1>12

\* The operands come one after the other.
LEMMA PlacesGrow ==
  ASSUME NEW p \in Nat, NEW j \in Nat, NEW i \in Nat, i < j
  PROVE  Place(p, i) + 3 <= Place(p, j)
  BY DEF Place

LEMMA Cut ==
  ASSUME NEW T, buf \in Seq(T), NEW e \in 1..Len(buf), buf' = [buf EXCEPT ![e] = NUL]
  PROVE  buf'[e] = NUL /\ \A x \in 1..Len(buf) : x # e => buf'[x] = buf[x]
  OBVIOUS

LEMMA ArgumentFollows ==
  ASSUME AsmInv, file \in Files, file.want # NULL, NEW at, Spelt(at), Following(at), Argument
  PROVE  Following(at)'
  <1>1. pc = "args" /\ Current <= Len(Want) /\ argv \in Seq(Nat)
    BY DEF Argument, Following, AsmInv
  <1>2. PICK k, p, q, n : OnLine(at, k, p, q, n)
    BY <1>1, OnALine
  <1>3. /\ TextOK /\ Shape(Text, p, q, n) /\ Len(argv) \in Nat
        /\ name = p /\ buf[p] = Text[p] /\ buf[p + 1] = NUL
        /\ \A i \in 1..Len(argv) : /\ argv[i] = Place(p, i)
                                   /\ buf[Place(p, i)] = Text[Place(p, i)]
                                   /\ buf[Place(p, i) + 1] = NUL
    BY <1>1, <1>2, CollectingIs
  <1>4. PICK a \in Nat :
               /\ a = Place(p, Len(argv) + 1) /\ a + 1 <= Len(buf)
               /\ buf[a] = Text[a]
               /\ argv' = Append(argv, a) /\ buf' = [buf EXCEPT ![a + 1] = NUL] /\ read' = a + 2
               /\ pc' = IF Text[a + 1] \in {CR, LF, NUL} THEN "match" ELSE "args"
               /\ UNCHANGED <<file, name, program>>
    BY <1>2, ArgumentIs
  <1>5. Len(argv) < n
    BY <1>2, ArgumentIs
  <1>6. PICK m \in Nat : m = Len(argv)
    BY <1>3
  <1>7. p \in Nat \ {0} /\ n \in Nat /\ m < n /\ m + 1 \in 1..n
    <2>1. p \in 1..Len(Text) /\ n \in Nat
      BY <1>3 DEF Shape
    <2>2. Len(Text) \in Nat
      BY <1>3, Unread
    <2>3. m < n
      BY <1>5, <1>6
    <2> QED
      BY <2>1, <2>2, <2>3
  <1>8. /\ Place(p, m + 1) \in Nat /\ p + 2 <= Place(p, m + 1)
        /\ m + 1 = n => Text[Place(p, m + 1) + 1] = LF /\ Place(p, m + 1) + 2 = q
        /\ m + 1 # n => /\ Text[Place(p, m + 1) + 1] = COMMA
                        /\ Place(p, m + 1) + 3 = Place(p, (m + 1) + 1)
    BY <1>3, <1>7 DEF Shape
  <1>9. PICK j \in 1..n : j = m + 1
    BY <1>7
  <1>10. /\ a = Place(p, j)
         /\ p + 2 <= a
         /\ j = n => Text[a + 1] = LF /\ a + 2 = q
         /\ j # n => /\ Text[a + 1] = COMMA
                     /\ a + 3 = Place(p, j + 1)
    BY <1>4, <1>6, <1>8, <1>9
  <1>11. /\ Len(argv') = j /\ argv'[j] = a
         /\ \A i \in 1..m : argv'[i] = argv[i]
    BY <1>1, <1>4, <1>6, <1>9
  <1>12. /\ buf'[a + 1] = NUL
         /\ \A x \in 1..a : buf'[x] = buf[x]
    <2>1. buf \in Seq(Symbols) /\ Len(buf) \in Nat
      BY <1>3, TextEnds DEF TextOK
    <2>2. a + 1 <= Len(buf) /\ buf' = [buf EXCEPT ![a + 1] = NUL]
      BY <1>4
    <2>3. a + 1 \in 1..Len(buf) /\ \A x \in 1..a : x \in 1..Len(buf) /\ x # a + 1
      BY <2>1, <2>2
    <2> QED
      BY <2>1, <2>2, <2>3, Cut
  <1>13. name' = p /\ buf'[p] = Text[p] /\ buf'[p + 1] = NUL
    <2>1. p \in 1..a /\ p + 1 \in 1..a
      BY <1>7, <1>10
    <2> QED
      BY <1>3, <1>4, <1>12, <2>1
  <1>14. ASSUME NEW i \in 1..j
         PROVE  /\ argv'[i] = Place(p, i)
                /\ buf'[Place(p, i)] = Text[Place(p, i)]
                /\ buf'[Place(p, i) + 1] = NUL
    <2>1. CASE i = j
      <3>1. a \in 1..a
        BY <1>7, <1>10
      <3> QED
        BY <1>4, <1>10, <1>11, <1>12, <2>1, <3>1
    <2>2. CASE i # j
      <3>1. i \in 1..m /\ i \in Nat /\ j \in Nat /\ i < j /\ i >= 1
        BY <1>9, <2>2
      <3>2. Place(p, i) + 3 <= a
        BY <1>7, <1>10, <3>1, PlacesGrow
      <3>3. Place(p, i) \in Nat /\ Place(p, i) >= 1
        BY <1>7, <3>1 DEF Place
      <3>4. Place(p, i) \in 1..a /\ Place(p, i) + 1 \in 1..a
        BY <3>2, <3>3
      <3>5. /\ argv[i] = Place(p, i)
            /\ buf[Place(p, i)] = Text[Place(p, i)]
            /\ buf[Place(p, i) + 1] = NUL
        BY <1>3, <1>6, <3>1
      <3> QED
        BY <1>11, <1>12, <3>1, <3>4, <3>5
    <2> QED
      BY <2>1, <2>2
  <1>15. CASE j = n
    <2>1. pc' = "match" /\ read' = q /\ Len(argv') = n
      BY <1>4, <1>10, <1>11, <1>15
    <2> QED
      BY <1>2, <1>4, <1>11, <1>13, <1>14, <2>1, SameLine
  <1>16. CASE j # n
    <2>1. pc' = "args"
      BY <1>4, <1>10, <1>16, Separates
    <2>2. Len(argv') < n /\ Len(argv') > 0
      BY <1>7, <1>9, <1>11, <1>16
    <2>3. read' = Place(p, Len(argv') + 1) - 1
      <3>1. a + 2 = Place(p, j + 1) - 1
        BY <1>10, <1>16
      <3> QED
        BY <1>4, <1>11, <3>1
    <2> QED
      BY <1>2, <1>4, <1>11, <1>13, <1>14, <2>1, <2>2, <2>3, SameLine
  <1> QED
    BY <1>15, <1>16

\* MaxArgs bounds the operands of every opcode.
LEMMA GreatestOf ==
  ASSUME NEW n \in Nat, n # 0, NEW f \in [1..n -> Nat]
  PROVE  \E o \in 1..n : \A u \in 1..n : f[u] <= f[o]
  <1> DEFINE S == {k \in 0..n : k = 0 \/ \E o \in 1..k : \A u \in 1..k : f[u] <= f[o]}
  <1>1. ASSUME NEW k \in S, k + 1 <= n PROVE k + 1 \in S
    <2>1. k \in Nat /\ k + 1 \in 1..n /\ 1..k + 1 = (1..k) \union {k + 1}
      BY <1>1
    <2>2. f[k + 1] \in Nat /\ \A u \in 1..k : f[u] \in Nat
      BY <2>1
    <2>3. CASE k = 0
      <3>1. 1..k + 1 = {k + 1} /\ k + 1 \in 1..k + 1 /\ k + 1 \in 0..n
        BY <2>1, <2>3
      <3>2. \A u \in 1..k + 1 : f[u] <= f[k + 1]
        BY <2>2, <3>1
      <3> QED
        BY <3>1, <3>2
    <2>4. CASE k # 0
      <3>1. PICK o \in 1..k : \A u \in 1..k : f[u] <= f[o]
        BY <2>4
      <3>2. CASE f[o] <= f[k + 1]
        <4>1. ASSUME NEW u \in 1..k + 1 PROVE f[u] <= f[k + 1]
          <5>1. u \in 1..k \/ u = k + 1
            BY <2>1
          <5>2. f[o] \in Nat
            BY <2>2
          <5>3. u \in 1..k => f[u] <= f[o] /\ f[u] \in Nat
            BY <2>2, <3>1
          <5>4. CASE u \in 1..k
            <6>1. f[u] \in Nat /\ f[u] <= f[o] /\ f[k + 1] \in Nat
              BY <2>2, <5>3, <5>4
            <6> QED
              BY <3>2, <5>2, <6>1
          <5>5. CASE u = k + 1
            BY <2>2, <5>5
          <5> QED
            BY <5>1, <5>4, <5>5
        <4>2. k + 1 \in 1..k + 1 /\ k + 1 \in 0..n
          BY <2>1
        <4> QED
          BY <4>1, <4>2
      <3>3. CASE f[k + 1] <= f[o]
        <4>1. \A u \in 1..k + 1 : f[u] <= f[o]
          BY <2>1, <2>2, <3>1, <3>3
        <4> QED
          BY <2>1, <4>1
      <3> QED
        BY <2>2, <3>2, <3>3
    <2> QED
      BY <2>3, <2>4
  <1>2. 0 \in S /\ S \in SUBSET (0..n)
    OBVIOUS
  <1>3. S = 0..n
    <2> HIDE DEF S
    <2> QED
      BY <1>1, <1>2, UpTo
  <1>4. n \in S
    <2> HIDE DEF S
    <2> QED
      BY <1>3
  <1> QED
    BY <1>4

LEMMA MaxArgsBounds ==
  ASSUME NEW o \in DOMAIN Opcodes
  PROVE  Len(Opcodes[o].args) <= MaxArgs /\ MaxArgs \in Nat
  <1> DEFINE n == Len(Opcodes)
             f == [u \in 1..n |-> Len(Opcodes[u].args)]
             S == {Len(Opcodes[u].args) : u \in DOMAIN Opcodes}
  <1>1. n \in Nat /\ DOMAIN Opcodes = 1..n
    BY OpcodesAssumption, LenProperties
  <1>2. f \in [1..n -> Nat]
    BY <1>1, OpcodeTypes
  <1>3. \A u \in 1..n : f[u] = Len(Opcodes[u].args)
    OBVIOUS
  <1>4. n # 0 /\ o \in 1..n
    BY <1>1
  <1>5. PICK m \in 1..n : \A u \in 1..n : f[u] <= f[m]
    <2> HIDE DEF f, n
    <2> QED
      BY <1>1, <1>2, <1>4, GreatestOf
  <1> HIDE DEF n, f
  <1>6. f[m] \in S /\ (\A y \in S : f[m] >= y) /\ S \in SUBSET Nat
    <2>1. S = {f[u] : u \in 1..n}
      BY <1>1, <1>3
    <2> HIDE DEF S
    <2> QED
      BY <1>2, <1>5, <2>1
  <1>7. Len(Opcodes[o].args) \in S
    OBVIOUS
  <1>8. Max(S) \in S /\ \A y \in S : Max(S) >= y
    <2> HIDE DEF S
    <2> QED
      BY <1>6 DEF Max
  <1>9. MaxArgs = Max(S)
    BY DEF MaxArgs
  <1> HIDE DEF S
  <1> QED
    BY <1>6, <1>7, <1>8, <1>9

\* A line has no more operands than its opcode, so the assembler never fails on that.
LEMMA NeverTooMany ==
  ASSUME AsmInv, file \in Files, file.want # NULL, NEW at, Spelt(at), Following(at), TooMany
  PROVE  FALSE
  <1>1. /\ pc = "args" /\ Current <= Len(Want)
        /\ buf[read] \notin {CR, LF, NUL} /\ Len(argv) = MaxArgs
    BY DEF TooMany, Following
  <1>2. PICK k, p, q, n : OnLine(at, k, p, q, n)
    BY <1>1, OnALine
  <1>3. Len(argv) < n /\ Len(argv) \in Nat /\ n \in Nat
    <2>1. /\ Len(argv) < n \/ buf[read] \in {CR, LF, NUL}
          /\ Len(argv) \in Nat /\ Shape(Text, p, q, n)
      BY <1>1, <1>2, CollectingIs
    <2> QED
      BY <1>1, <2>1 DEF Shape
  <1>4. n <= MaxArgs /\ MaxArgs \in Nat
    <2>1. k \in 1..Len(Want) /\ n = Arity(Want[k])
      BY <1>2 DEF OnLine
    <2>2. Want[k].op \in DOMAIN Opcodes
      BY <2>1, LineIs
    <2> QED
      BY <2>1, <2>2, MaxArgsBounds DEF Arity
  <1> QED
    BY <1>1, <1>3, <1>4

\* The end of the line is where an operand would start only if there is none.
LEMMA EndArgsFollows ==
  ASSUME AsmInv, file \in Files, file.want # NULL, NEW at, Spelt(at), Following(at), EndArgs
  PROVE  Following(at)'
  <1>1. /\ pc = "args" /\ Current <= Len(Want) /\ buf[read] \in {CR, LF, NUL} /\ pc' = "match"
        /\ UNCHANGED <<file, buf, read, name, argv, program>>
    BY DEF EndArgs, Following, bufferVars, asmVars
  <1>2. PICK k, p, q, n : OnLine(at, k, p, q, n)
    BY <1>1, OnALine
  <1>3. /\ n = 0 /\ Len(argv) = 0
        /\ read = q \/ (read = q - 1 /\ Text[read] = LF)
        /\ name = p /\ buf[p] = Text[p] /\ buf[p + 1] = NUL
    BY <1>1, <1>2, CollectingIs
  <1>4. /\ Len(argv') = n /\ 1..Len(argv') = {}
        /\ read' = q \/ (read' = q - 1 /\ Text[read'] = LF)
        /\ name' = p /\ buf'[p] = Text[p] /\ buf'[p + 1] = NUL
    BY <1>1, <1>3
  <1> QED
    BY <1>1, <1>2, <1>4, SameLine

\* The line has been read: the opcode and the operands that are taken.
LEMMA MatchedIs ==
  ASSUME AsmInv, file \in Files, file.want # NULL, NEW at, Spelt(at), Following(at), pc = "match"
  PROVE  /\ Current \in 1..Len(Want) /\ Arrived(at, Current + 1)
         /\ Len(argv) = Arity(Want[Current]) /\ DOMAIN argv = 1..Len(argv)
         /\ Fitting # {} /\ Min(Fitting) = Want[Current].op
         /\ \A j \in 1..Len(argv) :
               Parsed(Want[Current].op)[j] = {Want[Current].args[j]}
  <1>1. /\ TextOK /\ Current <= Len(Want) /\ argv \in Seq(Nat)
        /\ Named(at[Current]) /\ Collected(at[Current], Len(argv))
        /\ Len(argv) = Arity(Want[Current]) /\ Arrived(at, Current + 1)
    BY DEF AsmInv, Scanning, Following
  <1>2. PICK k, p, q, n : OnLine(at, k, p, q, n)
    BY <1>1, OnALine
  <1>3. /\ k = Current /\ k \in 1..Len(Want) /\ p = at[k] /\ Shape(Text, p, q, n)
        /\ name = p /\ buf[p] = Text[p] /\ buf[p + 1] = NUL
        /\ n = Len(argv) /\ n = Arity(Want[k])
        /\ \A j \in 1..n : /\ argv[j] = Place(p, j)
                           /\ buf[Place(p, j)] = Text[Place(p, j)]
                           /\ buf[Place(p, j) + 1] = NUL
    BY <1>1, <1>2 DEF OnLine, Named, Collected
  <1>4. DOMAIN argv = 1..n /\ n \in Nat
    BY <1>1, <1>3 DEF Shape
  <1>5. PICK l \in Nat : l = Len(Text)
    BY <1>1, Unread
  <1>6. /\ buf \in Seq(Symbols) /\ Len(buf) = l + 2
        /\ p \in 1..l /\ q \in 1..l + 1 /\ p + 2 <= q
        /\ Text[p] \notin Separators
        /\ \A j \in 1..n : /\ Place(p, j) \in Nat /\ p + 2 <= Place(p, j) /\ Place(p, j) + 2 <= q
                           /\ Text[Place(p, j)] \notin Separators
    BY <1>1, <1>3, <1>5, Unread DEF Shape
  <1>7. String(name) = <<Text[p]>>
    <2>1. p \in 1..Len(buf) /\ p + 1 <= Len(buf) /\ buf[p] # NUL
      BY <1>3, <1>6, Separates
    <2> QED
      BY <1>3, <1>6, <2>1, OneSymbol
  <1>8. ASSUME NEW j \in 1..n
        PROVE  String(argv[j]) = <<Text[Place(p, j)]>>
    <2>1. PICK a \in Nat : a = Place(p, j)
      BY <1>6
    <2>2. /\ argv[j] = a /\ buf[a] = Text[a] /\ buf[a + 1] = NUL
          /\ p + 2 <= a /\ a + 2 <= q /\ Text[a] \notin Separators
      BY <1>3, <1>6, <2>1
    <2>3. a \in 1..Len(buf) /\ a + 1 <= Len(buf)
      <3>1. p \in Nat /\ q \in Nat /\ q <= l + 1 /\ p >= 1
        BY <1>5, <1>6
      <3> QED
        BY <1>6, <2>2, <3>1
    <2>4. buf[a] # NUL
      BY <2>2, Separates
    <2>5. String(a) = <<buf[a]>>
      BY <1>6, <2>2, <2>3, <2>4, OneSymbol
    <2> QED
      BY <2>1, <2>2, <2>5
  <1>9. PICK o : o = Want[k].op
    OBVIOUS
  <1>10. /\ o \in DOMAIN Opcodes /\ o \in Nat /\ Len(Opcodes[o].args) = n
         /\ Opcodes[o].base = Text[p]
         /\ \A u \in 1..o - 1 : Opcodes[u].base # Opcodes[o].base \/ Len(Opcodes[u].args) # n
         /\ \A j \in 1..n : Parse(Opcodes[o].args[j], <<Text[Place(p, j)]>>) = {Want[k].args[j]}
    <2> k \in 1..Len(Want)
      BY <1>3
    <2>1. /\ Want[k].op \in DOMAIN Opcodes /\ Text[at[k]] = Opcodes[Want[k].op].base
      BY LineIs
    <2>2. /\ Want[k].op \in Nat
          /\ \A u \in 1..Want[k].op - 1 :
                \/ Opcodes[u].base # Opcodes[Want[k].op].base
                \/ Len(Opcodes[u].args) # Arity(Want[k])
          /\ \A j \in 1..Arity(Want[k]) :
                Parse(Opcodes[Want[k].op].args[j], <<Text[Place(at[k], j)]>>) = {Want[k].args[j]}
      BY WantIs
    <2>3. n = Arity(Want[k]) /\ n = Len(Opcodes[o].args) /\ p = at[k]
      BY <1>3, <1>9 DEF Arity
    <2> QED
      BY <1>9, <2>1, <2>2, <2>3
  <1>11. o \in Fitting
    BY <1>3, <1>7, <1>10 DEF Fitting
  <1>12. ASSUME NEW u \in Fitting PROVE o <= u
    <2>1. /\ u \in DOMAIN Opcodes /\ Len(Opcodes[u].args) = n
          /\ <<Text[p]>> = <<Opcodes[u].base>>
      BY <1>3, <1>7 DEF Fitting
    <2>2. Opcodes[u].base = Opcodes[o].base
      BY <1>10, <2>1
    <2>3. u \in Nat /\ u >= 1
      <3>1. Len(Opcodes) \in Nat /\ DOMAIN Opcodes = 1..Len(Opcodes)
        BY OpcodesAssumption, LenProperties
      <3> QED
        BY <2>1, <3>1
    <2>4. u \notin 1..o - 1
      BY <1>10, <2>1, <2>2
    <2> QED
      BY <1>10, <2>3, <2>4
  <1>13. Min(Fitting) = o
    <2>1. Fitting \in SUBSET Nat
      BY OpcodeTypes DEF Fitting
    <2>2. Min(Fitting) \in Fitting /\ Min(Fitting) <= o
      BY <1>11, <2>1, MinOfNats
    <2>3. Min(Fitting) \in Nat /\ o <= Min(Fitting)
      BY <1>12, <2>1, <2>2
    <2> QED
      BY <1>10, <2>2, <2>3
  <1>14. ASSUME NEW j \in 1..n PROVE Parsed(o)[j] = {Want[k].args[j]}
    BY <1>4, <1>8, <1>10 DEF Parsed
  <1> QED
    BY <1>1, <1>3, <1>4, <1>9, <1>11, <1>13, <1>14

LEMMA NeverRejected ==
  ASSUME AsmInv, file \in Files, file.want # NULL, NEW at, Spelt(at), Following(at), Reject
  PROVE  FALSE
  <1>1. pc = "match" /\ (Fitting # {} => {} \in ToSet(Parsed(Min(Fitting))))
    BY DEF Reject
  <1>2. /\ Fitting # {} /\ Min(Fitting) = Want[Current].op /\ DOMAIN argv = 1..Len(argv)
        /\ \A j \in 1..Len(argv) : Parsed(Want[Current].op)[j] = {Want[Current].args[j]}
    BY <1>1, MatchedIs
  <1>3. PICK j \in DOMAIN argv : Parsed(Want[Current].op)[j] = {}
    BY <1>1, <1>2 DEF ToSet, Parsed
  <1> QED
    BY <1>2, <1>3

LEMMA BuildFollows ==
  ASSUME AsmInv, file \in Files, file.want # NULL, NEW at, Spelt(at), Following(at), Build
  PROVE  Following(at)'
  <1>1. /\ pc = "match" /\ pc' = "line" /\ UNCHANGED <<file, read>>
    BY DEF Build, asmVars
  <1>2. PICK k : k = Current
    OBVIOUS
  <1>3. /\ k \in 1..Len(Want) /\ Arrived(at, k + 1)
        /\ Len(argv) = Arity(Want[k]) /\ DOMAIN argv = 1..Len(argv)
        /\ Min(Fitting) = Want[k].op
        /\ \A j \in 1..Len(argv) : Parsed(Want[k].op)[j] = {Want[k].args[j]}
    BY <1>1, <1>2, MatchedIs
  <1>4. PICK args : /\ \E S : args \in [DOMAIN argv -> S]
                    /\ \A i \in DOMAIN argv : args[i] \in Parsed(Want[k].op)[i]
                    /\ Call([op |-> Want[k].op, args |-> args])
    BY <1>3 DEF Build
  <1>5. args = [j \in 1..Arity(Want[k]) |-> Want[k].args[j]]
    <2>1. \A j \in 1..Len(argv) : args[j] = Want[k].args[j]
      BY <1>3, <1>4
    <2> QED
      BY <1>3, <1>4, <2>1
  <1>6. Want[k] = [op |-> Want[k].op, args |-> args] /\ Want[k] \in ToSet(Want)
    BY <1>3, <1>5, WantIs
  <1>7. program' = Append(program, Want[k])
    BY <1>4, <1>6 DEF Call
  <1>8. /\ Text' = Text /\ Want' = Want
    BY <1>1, SameText
  <1>9. /\ program \in Seq(ToSet(Want)) /\ \A i \in 1..Len(program) : program[i] = Want[i]
    BY DEF Following
  <1>10. Len(program) \in Nat /\ k = Len(program) + 1 /\ Len(Want) \in Nat
    BY <1>2, FollowsIs
  <1>11. /\ program' \in Seq(ToSet(Want)) /\ Len(program') = k
         /\ \A i \in 1..k : program'[i] = Want[i]
    <2>1. /\ program' \in Seq(ToSet(Want)) /\ Len(program') = Len(program) + 1
          /\ \A i \in 1..Len(program) : program'[i] = program[i]
          /\ program'[Len(program) + 1] = Want[k]
      <3> DEFINE W == ToSet(Want)
      <3>1. program \in Seq(W) /\ Want[k] \in W
        BY <1>6, <1>9
      <3> HIDE DEF W
      <3>2. /\ program' \in Seq(W) /\ Len(program') = Len(program) + 1
            /\ \A i \in 1..Len(program) : program'[i] = program[i]
            /\ program'[Len(program) + 1] = Want[k]
        BY <1>7, <3>1, AppendProperties
      <3> QED
        BY <3>2 DEF W
    <2> QED
      BY <1>9, <1>10, <2>1
  <1>12. Current' = k + 1 /\ k <= Len(Want)
    BY <1>3, <1>11 DEF Current
  <1>13. Arrived(at, Current)'
    BY <1>1, <1>3, <1>8, <1>12 DEF Arrived
  <1> QED
    BY <1>1, <1>8, <1>11, <1>12, <1>13 DEF Following

LEMMA ReadFileFollows ==
  ASSUME AsmInv, file \in Files, file.want # NULL, NEW at, Spelt(at), Following(at), ReadFile
  PROVE  Following(at)'
  <1>1. /\ pc = "read" /\ pc' = "line" /\ UNCHANGED <<file, read, program>>
        /\ program = <<>> /\ read = 1
    BY DEF ReadFile, bufferVars, AsmInv, Following
  <1>2. Text' = Text /\ Want' = Want /\ Current' = Current
    BY <1>1, SameText DEF Current
  <1>3. Current = 1 /\ at[1] = 1
    BY <1>1 DEF Current, Spelt, WrittenFrom
  <1>4. Arrived(at, Current)'
    BY <1>1, <1>2, <1>3 DEF Arrived
  <1> QED
    BY <1>1, <1>2, <1>4 DEF Following

\* The pushes of a builder.
LEMMA PushFollows ==
  ASSUME UNCHANGED <<pc, file, buf, read, name, argv, program>>, NEW at, Following(at)
  PROVE  Following(at)'
  <1>1. Text' = Text /\ Want' = Want /\ Current' = Current
    BY SameText DEF Current
  <1>2. \A x : Arity(x)' = Arity(x)
    BY DEF Arity
  <1>3. /\ \A k : Arrived(at, k)' = Arrived(at, k)
        /\ \A p : Named(p)' = Named(p)
        /\ \A p, m : Collected(p, m)' = Collected(p, m)
        /\ \A k : Collecting(at, k)' = Collecting(at, k)
    BY <1>1, <1>2 DEF Arrived, Named, Collected, Collecting
  <1>4. Arity(Want[Current])' = Arity(Want[Current])
    BY <1>1 DEF Arity
  <1> QED
    BY <1>1, <1>3, <1>4 DEF Following

\* What main does with the program.
LEMMA OutsideFollows ==
  ASSUME UNCHANGED <<file, program>>, NEW at, Following(at),
         pc' \notin {"read", "build", "fail", "line", "name", "args", "match", "assembled"}
  PROVE  Following(at)'
  BY SameText DEF Following

LEMMA AllRead ==
  ASSUME file \in Files, file.want # NULL, NEW at, Spelt(at), Following(at), pc = "assembled"
  PROVE  program = file.want
  <1> DEFINE W == ToSet(file.want)
  <1>1. /\ program \in Seq(W) /\ Len(program) = Len(file.want)
        /\ \A i \in 1..Len(program) : program[i] = file.want[i]
    BY DEF Following, Want
  <1>2. file.want \in Seq(W)
    BY FilesAssumption DEF Written
  <1> HIDE DEF W
  <1> QED
    BY <1>1, <1>2, SeqEqual

LEMMA TripInit == Init => TripInv
  <1> SUFFICES ASSUME Init, TextWritten PROVE TripInv
    BY DEF TripInv
  <1>1. /\ pc = "read" /\ file \in Files /\ file.want # NULL /\ program = <<>>
    BY DEF Init, BufferInit, AsmInit, TextWritten
  <1>2. PICK at \in [1..Len(file.want) + 1 -> 1..Len(file.text) + 1] :
            WrittenFrom(file.text, file.want, at)
    BY <1>1, FilesAssumption DEF Written
  <1>3. Spelt(at)
    BY <1>2 DEF Spelt, Text, Want
  <1>4. Following(at)
    <2>1. Len(Want) \in Nat
      <3>1. file.want \in Seq(ToSet(file.want))
        BY <1>1, FilesAssumption DEF Written
      <3> QED
        BY <3>1, LenProperties DEF Want
    <2>2. program \in Seq(ToSet(Want)) /\ Len(program) = 0
      BY <1>1
    <2> QED
      BY <1>1, <2>1, <2>2 DEF Following
  <1> QED
    BY <1>1, <1>3, <1>4 DEF TripInv

LEMMA TripNext == IInv /\ TripInv /\ [Next]_vars => TripInv'
  <1> SUFFICES ASSUME IInv, TripInv, [Next]_vars, TextWritten' PROVE TripInv'
    BY DEF TripInv
  <1>1. AsmInv
    BY DEF IInv
  <1>2. file' = file
    BY DEF Next, Assemble, ReadFile, Line, Name, Argument, TooMany, EndArgs, Build, Reject,
           CallBuilder, StartJit, Lost, Compile, Export, Execute, Crash, Leave, Interpret, Return,
           asmVars, vars
  <1>3. TextWritten
    BY <1>2 DEF TextWritten
  <1>4. PICK at : Spelt(at) /\ Following(at)
    BY <1>3 DEF TripInv
  <1>5. file \in Files /\ file.want # NULL
    BY <1>3 DEF TripInv, TextWritten
  <1>6. Following(at)'
    <2>1. CASE ReadFile \/ Line \/ Name \/ Argument \/ EndArgs \/ Build
      BY <1>1, <1>4, <1>5, <2>1, ReadFileFollows, LineFollows, NameFollows, ArgumentFollows,
         EndArgsFollows, BuildFollows
    <2>2. CASE TooMany \/ Reject
      BY <1>1, <1>4, <1>5, <2>2, NeverTooMany, NeverRejected
    <2>3. CASE PushField /\ UNCHANGED <<pc, asmVars>>
      BY <1>4, <2>3, PushFollows DEF PushField, asmVars
    <2>4. CASE UNCHANGED vars
      BY <1>4, <2>4, PushFollows DEF vars, bufferVars, asmVars
    <2>5. CASE CallBuilder
      BY <1>4, <2>5 DEF CallBuilder, Following
    <2>6. CASE StartJit \/ Lost \/ Compile \/ Export \/ Execute \/ Crash \/ Leave
                 \/ Interpret \/ Return
      <3>1. /\ UNCHANGED program
            /\ pc' \notin {"read", "build", "fail", "line", "name", "args", "match", "assembled"}
        BY <2>6 DEF StartJit, Lost, Compile, Export, Execute, Crash, Leave, Interpret, Return,
                    bufferVars
      <3> QED
        BY <1>2, <1>4, <3>1, OutsideFollows
    <2> QED
      BY <2>1, <2>2, <2>3, <2>4, <2>5, <2>6 DEF Next, Assemble
  <1>7. Spelt(at)'
    BY <1>2, <1>4 DEF Spelt, Text, Want
  <1> QED
    BY <1>2, <1>5, <1>6, <1>7 DEF TripInv

\* Whatever the opcodes, the parsers and the text: a text that is written one
\* instruction per line, mnemonic, space and operands with commas between, whose
\* strings parse to the operands, is assembled without a failure and to those
\* instructions (syntax.c 22-94, ir.py 224-246).
THEOREM WrittenIsRead == Spec => []RoundTrip
  <1>1. TripInv => RoundTrip
    <2> SUFFICES ASSUME TripInv, TextWritten PROVE pc # "fail" /\ (pc = "assembled" => program = file.want)
      BY DEF RoundTrip, TextWritten
    <2>1. PICK at : Spelt(at) /\ Following(at)
      BY DEF TripInv
    <2>2. file \in Files /\ file.want # NULL
      BY DEF TripInv, TextWritten
    <2>3. pc # "fail"
      BY <2>1 DEF Following
    <2> QED
      BY <2>1, <2>2, <2>3, AllRead
  <1> QED
    BY InitSafe, NextSafe, TripInit, TripNext, <1>1, PTL DEF Spec
=============================================================================
