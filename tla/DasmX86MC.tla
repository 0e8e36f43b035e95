----------------------------- MODULE DasmX86MC -----------------------------
(***************************************************************************)
(* DasmX86 on the lists the preprocessor makes of a few lines each, and    *)
(* what those lines mean: what the x86 manuals say of the instructions,    *)
(* and where the labels are, by a plain assembler that keeps no chains,    *)
(* estimates nothing and knows all the calls from the start.               *)
(***************************************************************************)
EXTENDS DasmX86, FiniteSetsExt, SequencesExt

CONSTANT Reference(_, _)    \* the plain assembler

List == <<
    252, 233, 244, 247, 255, 248, 1, 255, 15, 133, 244, 1, 255, 252, 233, 245, 255, 249, 255, 232,
    244, 10, 255, 248, 10, 255, 72, 141, 5, 244, 11, 255, 250, 7, 255, 254, 1, 254, 0, 72, 141, 5,
    245, 255, 252, 233, 244, 247, 144, 248, 1, 252, 233, 244, 247, 255, 232, 251, 1, 0, 255, 241, 7,
    255, 72, 139, 128, 253, 240, 131, 240, 3, 233, 255, 64, 139, 128, 253, 240, 131, 240, 19, 233,
    255, 64, 137, 132, 253, 240, 131, 128, 240, 68, 240, 60, 233, 255, 64, 129, 128, 253, 240, 11,
    233, 239, 255, 64, 129, 192, 240, 43, 239, 255, 102, 64, 129, 128, 253, 240, 11, 233, 238, 255,
    64, 198, 128, 253, 240, 11, 233, 235, 255, 64, 15, 182, 192, 240, 36, 255, 196, 225, 123, 240,
    160, 88, 192, 240, 133, 240, 45, 255, 196, 225, 123, 240, 160, 88, 132, 253, 240, 133, 64, 240,
    70, 240, 54, 233, 255, 196, 227, 113, 75, 192, 240, 37, 0, 240, 192, 255, 64, 80, 240, 42, 255,
    64, 105, 192, 240, 131, 240, 51, 239, 255, 72, 184, 240, 34, 237, 237, 255, 194, 236, 255, 64,
    193, 224, 240, 43, 235, 255, 3, 132, 253, 36, 233, 255, 129, 132, 253, 108, 233, 239, 255, 252,
    242, 64, 15, 16, 128, 253, 240, 132, 240, 20, 233, 255, 72, 137, 192, 240, 131, 240, 35, 72, 15,
    175, 192, 240, 132, 240, 36, 255, 106, 235, 255, 102, 64, 199, 128, 253, 240, 11, 233, 236, 255,
    252, 233, 243, 255, 249, 242, 255, 248, 10, 242, 255, 184, 247, 184, 240, 32, 246, 11, 255, 161,
    237, 255 >>

\* Where the lines begin in the list.
JmpFwd == 0     \* jmp >1
Local  == 5     \* 1:
JneBwd == 8     \* jne <1
JmpPC  == 13    \* jmp =>n
LabelPC == 17   \* =>n:
CallG  == 19    \* call ->g
LabelG == 23    \* ->g:
LeaH   == 26    \* lea rax, [->h]
Align8 == 32    \* .align 8
Cold   == 35    \* .cold
Code   == 37    \* .code
LeaPC  == 39    \* lea rax, [=>n]
Hop    == 44    \* jmp >1; nop; 1: jmp >1
CallX  == 56    \* call extern foo
Space  == 61    \* .space n, 7
MovQ   == 64    \* mov Rq(a), [Rq(b)+d]
MovD   == 74    \* mov Rd(a), [Rq(b)+d]
MovX   == 84    \* mov [Rq(a)+Rq(b)*4+d], Rd(c)
AddM   == 97    \* add dword [Rq(a)+d], imm
AddR   == 106   \* add Rd(a), imm
AddW   == 113   \* add word [Rq(a)+d], imm
MovB   == 123   \* mov byte [Rq(a)+d], imm
MovZ   == 132   \* movzx eax, Rb(a)
VAdd   == 139   \* vaddsd xmm(a), xmm(b), xmm(c)
VAddM  == 151   \* vaddsd xmm(a), xmm(b), qword [Rq(c)+Rq(e)*2+d]
VBlend == 168   \* vblendvpd xmm0, xmm1, xmm(c), xmm(a)
PushR  == 179   \* push Rq(a)
MulI   == 184   \* imul Rd(a), Rd(b), imm
Mov64  == 193   \* mov64 Rq(a), x
RetI   == 200   \* ret imm
ShlI   == 203   \* shl Rd(a), imm
AddSp  == 210   \* add eax, [rsp+d]
AddSpX == 216   \* add dword [rsp+rbp*2+d], imm
MovSd  == 223   \* movsd xmm(a), qword [Rq(b)+d]
Imul   == 236   \* mov Rq(a), Rq(b); imul Rq(a), Rq(c)
PushI  == 252   \* push byte imm
MovW   == 255   \* mov word [Rq(a)+d], imm
JmpA   == 265   \* jmp &addr, 32 bits
SetPC  == 269   \* .label =>n, &addr, 32 bits
Offsets == 276  \* mov eax, =>n; mov Rd(a), ->h, 32 bits
LoadA  == 284   \* mov eax, [&addr], 32 bits

-----------------------------------------------------------------------------
(* Instructions, by the manual: prefixes, REX only when there is a reason,  *)
(* the shortest displacement, a SIB byte where rsp and r12 need one.        *)

Reg(r)             == [kind |-> "reg", base |-> r, index |-> 0, scale |-> 0, disp |-> 0]
Mem(b, d)          == [kind |-> "mem", base |-> b, index |-> 0, scale |-> 0, disp |-> d]
Sib(b, x, s, d)    == [kind |-> "sib", base |-> b, index |-> x, scale |-> s, disp |-> d]

If(c, n) == IF c THEN n ELSE 0
Bytes4(n) == [i \in 1 .. 4 |-> (n \div 256^(i - 1)) % 256]
Bytes2(n) == <<n % 256, (n \div 256) % 256>>
Fits(n)   == n >= -128 /\ n < 128

ModRM(reg, rm) ==
    LET low == rm.base % 8
        sib == rm.kind = "sib" \/ (rm.kind = "mem" /\ low = 4)
        mod == IF rm.kind = "reg" THEN 3 ELSE IF rm.disp = 0 /\ low # 5 THEN 0 ELSE IF Fits(rm.disp) THEN 1 ELSE 2
    IN <<64 * mod + 8 * (reg % 8) + (IF sib THEN 4 ELSE low)>>
       \o (IF ~sib THEN <<>> ELSE <<64 * rm.scale + low + 8 * (IF rm.kind = "sib" THEN rm.index % 8 ELSE 4)>>)
       \o (CASE mod = 1 -> <<rm.disp % 256>> [] mod = 2 -> Bytes4(rm.disp) [] OTHER -> <<>>)

Instr(prefix, w, op, reg, rm) ==
    LET rex == 64 + If(w, 8) + If(reg > 7, 4) + If(rm.index > 7, 2) + If(rm.base > 7, 1)
    IN prefix \o (IF rex = 64 THEN <<>> ELSE <<rex>>) \o op \o ModRM(reg, rm)

Vex(map, pp, op, reg, v, rm) ==
    LET vv == 8 * (15 - v) + pp
        r  == If(reg < 8, 128)
    IN (IF map = 1 /\ rm.index < 8 /\ rm.base < 8 THEN <<197, r + vv>>
        ELSE <<196, r + If(rm.index < 8, 64) + If(rm.base < 8, 32) + map, vv>>)
       \o <<op>> \o ModRM(reg, rm)

Group(prefix, op, sub, rm, n, long) ==
    IF Fits(n) THEN Instr(prefix, FALSE, <<op + 2>>, sub, rm) \o <<n % 256>>
    ELSE Instr(prefix, FALSE, <<op>>, sub, rm) \o long

\* What one line is in the code: bytes, references, labels, paddings.
Is(bytes) == <<[k |-> "bytes", v |-> bytes]>>
Rel(l)    == <<[k |-> "rel", v |-> l]>>
Abs(l)    == <<[k |-> "abs", v |-> l]>>
Label(l)  == <<[k |-> "label", v |-> l]>>

L1 == <<"local", 1>>
F1 == <<"forward", 1>>
PC(n) == <<"pc", n>>
G(n) == <<"global", n>>

Meaning(call) ==
    LET s == call.start
        a == call.args
        lineOf ==
        CASE s = -1     -> <<>>
          [] s = JmpFwd -> Is(<<233>>) \o Rel(F1)
          [] s = Local  -> Label(L1)
          [] s = JneBwd -> Is(<<15, 133>>) \o Rel(L1)
          [] s = JmpPC  -> Is(<<233>>) \o Rel(PC(a[1]))
          [] s = LabelPC -> Label(PC(a[1]))
          [] s = CallG  -> Is(<<232>>) \o Rel(G(10))
          [] s = LabelG -> Label(G(10))
          [] s = LeaH   -> Is(<<72, 141, 5>>) \o Rel(G(11))
          [] s = Align8 -> <<[k |-> "align", v |-> 8]>>
          [] s \in {Cold, Code} -> <<[k |-> "section", v |-> If(s = Cold, 1)]>>
          [] s = LeaPC  -> Is(<<72, 141, 5>>) \o Rel(PC(a[1]))
          [] s = Hop    -> Is(<<233>>) \o Rel(F1) \o Is(<<144>>) \o Label(L1) \o Is(<<233>>) \o Rel(F1)
          [] s = CallX  -> Is(<<232, 0, 0, 0, 0>>)
          [] s = Space  -> Is([i \in 1 .. a[1] |-> 7])
          [] s = MovQ   -> Is(Instr(<<>>, TRUE, <<139>>, a[1], Mem(a[2], a[3])))
          [] s = MovD   -> Is(Instr(<<>>, FALSE, <<139>>, a[1], Mem(a[2], a[3])))
          [] s = MovX   -> Is(Instr(<<>>, FALSE, <<137>>, a[1], Sib(a[3], a[2], 2, a[4])))
          [] s = AddM   -> Is(Group(<<>>, 129, 0, Mem(a[1], a[2]), a[3], Bytes4(a[3])))
          [] s = AddR   -> Is(Group(<<>>, 129, 0, Reg(a[1]), a[2], Bytes4(a[2])))
          [] s = AddW   -> Is(Group(<<102>>, 129, 0, Mem(a[1], a[2]), a[3], Bytes2(a[3])))
          [] s = MovB   -> Is(Instr(<<>>, FALSE, <<198>>, 0, Mem(a[1], a[2])) \o <<a[3]>>)
          [] s = MovZ   -> Is(<<64 + If(a[1] > 7, 1), 15, 182, 192 + (a[1] % 8)>>)
          [] s = VAdd   -> Is(Vex(1, 3, 88, a[2], a[1], Reg(a[3])))
          [] s = VAddM  -> Is(Vex(1, 3, 88, a[2], a[1], Sib(a[4], a[3], 1, a[5])))
          [] s = VBlend -> Is(Vex(3, 1, 75, 0, 1, Reg(a[1])) \o <<16 * a[2]>>)
          [] s = PushR  -> Is((IF a[1] > 7 THEN <<65>> ELSE <<>>) \o <<80 + (a[1] % 8)>>)
          [] s = MulI   -> Is(IF Fits(a[3]) THEN Instr(<<>>, FALSE, <<107>>, a[1], Reg(a[2])) \o <<a[3] % 256>>
                              ELSE Instr(<<>>, FALSE, <<105>>, a[1], Reg(a[2])) \o Bytes4(a[3]))
          [] s = Mov64  -> Is(<<72 + If(a[1] > 7, 1), 184 + (a[1] % 8)>> \o Bytes4(a[2]) \o Bytes4(a[3]))
          [] s = RetI   -> Is(<<194>> \o Bytes2(a[1]))
          [] s = ShlI   -> Is(Instr(<<>>, FALSE, <<193>>, 4, Reg(a[1])) \o <<a[2]>>)
          [] s = AddSp  -> Is(Instr(<<>>, FALSE, <<3>>, 0, Mem(4, a[1])))
          [] s = AddSpX -> Is(Group(<<>>, 129, 0, Sib(4, 5, 1, a[1]), a[2], Bytes4(a[2])))
          [] s = MovSd  -> Is(Instr(<<242>>, FALSE, <<15, 16>>, a[1], Mem(a[2], a[3])))
          [] s = Imul   -> Is(Instr(<<>>, TRUE, <<137>>, a[1], Reg(a[2]))
                              \o Instr(<<>>, TRUE, <<15, 175>>, a[3], Reg(a[4])))
          [] s = PushI  -> Is(<<106, a[1]>>)
          [] s = MovW   -> Is(Instr(<<102>>, FALSE, <<199>>, 0, Mem(a[1], a[2])) \o Bytes2(a[3]))
          [] s = JmpA   -> Is(<<233>>) \o Rel(<<"address", a[1]>>)
          [] s = SetPC  -> <<[k |-> "set", v |-> PC(a[1]), to |-> a[2]]>>
          [] s = Offsets -> Is(<<184>>) \o Abs(PC(a[1])) \o Is(<<184 + (a[2] % 8)>>) \o Abs(G(11))
          [] s = LoadA  -> Is(<<161>> \o Bytes4(a[1]))
    IN lineOf

-----------------------------------------------------------------------------
(* The plain assembler. *)

\* The lines in the order of the calls, each with its section.
RECURSIVE WithSections(_, _)
WithSections(items, sec) ==
    IF items = <<>> THEN <<>>
    ELSE IF items[1].k = "section" THEN WithSections(Tail(items), items[1].v)
    ELSE <<[sec |-> sec, it |-> items[1]]>> \o WithSections(Tail(items), sec)

Items(calls) == WithSections(FlattenSeq([i \in DOMAIN calls |-> Meaning(calls[i])]), 0)

SizeAt(it, at) ==
    CASE it.k = "bytes" -> Len(it.v)
      [] it.k \in {"rel", "abs"} -> 4
      [] it.k = "align" -> (-at) % it.v
      [] OTHER -> 0

\* The offset of each of the lines in an order.
RECURSIVE Offsets1(_, _, _)
Offsets1(f, order, at) ==
    IF order = <<>> THEN <<>>
    ELSE <<at>> \o Offsets1(f, Tail(order), at + SizeAt(f[order[1]].it, at))

Defines(it, l) ==
    it.k \in {"label", "set"} /\ (it.v = l \/ (l[1] = "forward" /\ it.v = <<"local", l[2]>>))

\* The definition a reference means: of a local label the next one or the last
\* one, as it says; else the last before it, or the first after.
Meant(f, i, l) ==
    LET defs == {j \in DOMAIN f : Defines(f[j].it, l)}
        before == {j \in defs : j < i}
    IN IF l[1] # "forward" /\ before # {} THEN Max(before)
       ELSE IF \E j \in defs : j > i THEN Min({j \in defs : j > i}) ELSE 0

Assemble(calls, elsewhere) ==
    LET f     == Items(calls)
        order == FlattenSeq([s \in 1 .. MaxSection |-> SelectSeq([i \in DOMAIN f |-> i], LAMBDA i : f[i].sec = s - 1)])
        offs  == Offsets1(f, order, 0)
        off   == [i \in DOMAIN f |-> offs[CHOOSE n \in DOMAIN order : order[n] = i]]
        target(i, l) == LET d == Meant(f, i, l)
                        IN IF l[1] = "address" THEN l[2]
                           ELSE IF d = 0 THEN elsewhere[l[2]]
                           ELSE IF f[d].it.k = "set" THEN f[d].it.to ELSE Base + off[d]
        bytes(i) == LET it == f[i].it
                    IN CASE it.k = "bytes" -> it.v
                         [] it.k = "rel"   -> Bytes4(target(i, it.v) - (Base + off[i] + 4))
                         [] it.k = "abs"   -> Bytes4(target(i, it.v))
                         [] it.k = "align" -> [n \in 1 .. SizeAt(it, off[i]) |-> 144]
                         [] OTHER          -> <<>>
        last(l) == LET defs == {j \in DOMAIN f : Defines(f[j].it, l)} IN IF defs = {} THEN -1 ELSE off[Max(defs)]
    IN [code |-> FlattenSeq([n \in DOMAIN order |-> bytes(order[n])]),
        pc   |-> [l \in 0 .. 7 |-> last(PC(l))],
        globals |-> [l \in 10 .. 9 + MaxGlobals |-> IF last(G(l)) < 0 THEN elsewhere[l] ELSE Base + last(G(l))]]

-----------------------------------------------------------------------------
(* The instance. *)

Call(start, args) == [start |-> start, args |-> args]
Each(start, args) == {Call(start, a) : a \in args}
Plain(starts)     == {Call(start, <<>>) : start \in starts}

Regs  == {0, 4, 5, 12, 13}
Disps == {0, -128, 127, 128}
Imms  == {1, 127, 128, -129}
RMI   == {<<b, d, n>> : b \in Regs, d \in Disps, n \in Imms}
RRM   == {<<a, b, d>> : a \in Regs, b \in Regs, d \in Disps}
RRR   == Regs \X Regs \X Regs

LabelCalls == Plain({JmpFwd, Local, JneBwd, CallG, LabelG, LeaH, Hop, Cold, Code})
              \cup Each(JmpPC, {<<0>>, <<5>>}) \cup Each(LabelPC, {<<0>>})
SectionCalls == Plain({Align8, Cold, Code, JmpFwd, Local, CallX}) \cup Each(Space, {<<3>>})
                \cup Each(LabelPC, {<<0>>}) \cup Each(LeaPC, {<<0>>})
OperandCalls ==
    Each(MovQ, RRM) \cup Each(MovD, RRM) \cup Each(MovSd, RRM) \cup Each(AddM, RMI)
    \cup Each(MovX, {<<c, x, b, d>> : c \in Regs, x \in Regs \ {4}, b \in Regs, d \in Disps})
    \cup Each(AddR, Regs \X Imms) \cup Each(AddW, {<<b, d, n>> : b \in {0, 12, 13}, d \in Disps, n \in {1, 128, -128, 65535}})
    \cup Each(MovB, {<<b, d, n>> : b \in {0, 12}, d \in Disps, n \in {0, 255}}) \cup Each(MovZ, {<<a>> : a \in Regs})
    \cup Each(VAdd, RRR) \cup Each(VAddM, {<<b, a, x, c, d>> : b \in {1, 9}, a \in {1, 9}, x \in Regs \ {4}, c \in Regs, d \in Disps})
    \cup Each(VBlend, Regs \X Regs) \cup Each(PushR, {<<a>> : a \in Regs})
    \cup Each(MulI, {<<a, b, n>> : a \in Regs, b \in Regs, n \in Imms})
    \cup Each(Mov64, {<<a, 1, -1>> : a \in Regs}) \cup Each(RetI, {<<8>>, <<65535>>})
    \cup Each(ShlI, {<<a, n>> : a \in Regs, n \in {0, 31}}) \cup Each(AddSp, {<<d>> : d \in Disps})
    \cup Each(AddSpX, Disps \X Imms) \cup Each(Imul, {<<b, a, a, c>> : a \in Regs, b \in Regs, c \in Regs})
    \cup Each(PushI, {<<0>>, <<255>>})
    \cup Each(MovW, {<<b, d, n>> : b \in {0, 12, 13}, d \in {0, 127}, n \in {0, 65535}})
BadCalls ==
    Each(AddR, {<<16, 1>>, <<-1, 1>>}) \cup Each(MovX, {<<0, 4, 0, 0>>}) \cup Each(ShlI, {<<1, 256>>, <<1, -1>>})
    \cup Each(RetI, {<<65536>>}) \cup Each(AddW, {<<0, 0, 65536>>}) \cup Each(JmpPC, {<<0>>, <<8>>})
    \cup Each(LabelPC, {<<0>>, <<8>>}) \cup Plain({JmpFwd, JneBwd})
AddressCalls ==
    Each(JmpA, {<<900>>}) \cup Each(SetPC, {<<0, 900>>}) \cup Each(Offsets, {<<0, 1>>, <<1, 2>>}) \cup Each(LoadA, {<<900>>})
    \cup Each(JmpPC, {<<0>>, <<1>>}) \cup Each(LabelPC, {<<1>>})
MixedCalls ==
    {Call(AddM, <<12, 0, 1>>), Call(AddW, <<0, 0, 128>>), Call(MovX, <<1, 2, 3, 0>>), Call(VAddM, <<1, 1, 1, 12, 0>>),
     Call(VAdd, <<1, 1, 1>>), Call(AddR, <<1, 1>>), Call(Imul, <<4, 0, 0, 12>>), Call(JmpFwd, <<>>), Call(Local, <<>>)}

MCFamilies == {"labels", "sections", "operands", "bad", "addresses", "mixed"}
MCCalls(f) ==
    CASE f = "labels" -> LabelCalls [] f = "sections" -> SectionCalls [] f = "operands" -> OperandCalls
      [] f = "bad" -> BadCalls [] f = "addresses" -> AddressCalls [] f = "mixed" -> MixedCalls
MCMost(f, n) ==
    IF n = 2 THEN IF f = "labels" THEN 2 ELSE 0
    ELSE CASE f \in {"labels", "sections"} -> 4 [] f \in {"mixed", "addresses"} -> 3 [] f = "bad" -> 2 [] OTHER -> 1
MCMatches(f) == IF f = "labels" THEN {-1, 0} ELSE {}
MCExternal(i) == 5000 + i

VARIABLE expected     \* what the plain assembler makes of the calls linked

MCVars == <<vars, expected>>
MCInit == Init /\ expected = <<>>
MCNext == /\ Next
          /\ expected' = CASE phase' = phase -> expected
                           [] phase' = "linked" -> Reference(log, globals)
                           [] phase' = "encoded" -> expected
                           [] OTHER -> <<>>
MCSpec == MCInit /\ [][MCNext]_MCVars

-----------------------------------------------------------------------------
(* Properties. *)

\* The code is the code of the lines that were put: each instruction in its
\* shortest form, each reference to the label its line means, each section after
\* the one before; and the client finds the labels it asks for or exports where
\* the code has them (dasm_put, dasm_link, dasm_encode, dasm_getpclabel).
CodeIsMeant ==
    phase = "encoded" =>
        /\ code = expected.code
        /\ globals = expected.globals
        /\ family # "addresses" =>
              \A n \in 0 .. 7 : expected.pc[n] >= 0 => GetPCLabel(n) = expected.pc[n]

\* The three passes count the same bytes: dasm_put estimates, dasm_link takes
\* back what alignment did not need, dasm_encode writes (DASM_S_PHASE; dasm_emit
\* of jitlib.dash does not look at the result and has room for *szp bytes only).
PassesAgree == phase = "encoded" => status = "OK" /\ Len(code) = size

\* No call writes past the end of its buffer: it takes DASM_MAXSECPOS positions
\* at most, and dasm_put makes room for as many before (epos).
RoomSuffices == phase # "freed" => \A i \in Sections : Len(bufs[i]) <= room[i]
=============================================================================
