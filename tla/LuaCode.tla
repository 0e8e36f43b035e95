------------------------------ MODULE LuaCode ------------------------------
(***************************************************************************)
(* The code generator of minilua (dep/minilua.c, luaK_ ...): expressions are *)
(* delayed as expdescs, conditions become lists of jumps that are linked   *)
(* through the jumps' own offsets and patched later.                       *)
(*                                                                         *)
(* Each operator takes the state s of the function being compiled and      *)
(* returns the next one: s.e is the expdesc, and s.r the number, that the  *)
(* C function leaves or returns.  Positions count from 0 as in the code.   *)
(* Limits that programs of the instances cannot reach are left out.        *)
(***************************************************************************)
EXTENDS Integers, Sequences

CONSTANTS
    MaxRK,      \* the last constant that fits an operand, 255 in the code
    Flush       \* items of a constructor stored at once, 50 in the code

ASSUME CodeAssumption == MaxRK \in 0 .. 255 /\ Flush \in Nat \ {0}

NoJump == -1
NoReg  == 255
K      == 256       \* operands from K on are constants

TestOps == {"EQ", "LT", "LE", "TEST", "TESTSET", "TFORLOOP"}

Exp(k, i) == [k |-> k, info |-> i, aux |-> 0, nval |-> 0, t |-> NoJump, f |-> NoJump]

PC(s)         == Len(s.code)
At(code, pc)  == code[pc + 1]
HasJumps(e)   == e.t # e.f
IsNumeral(e)  == e.k = "VKNUM" /\ e.t = NoJump /\ e.f = NoJump
MultRet(e)    == e.k \in {"VCALL", "VVARARG"}
NonReloc(e, reg) == [e EXCEPT !.k = "VNONRELOC", !.info = reg]
Reloc(e, pc)     == [e EXCEPT !.k = "VRELOCABLE", !.info = pc]

-----------------------------------------------------------------------------
(* Lists of jumps. *)

FixJump(code, pc, dest) == [code EXCEPT ![pc + 1].b = dest - (pc + 1)]

GetJump(code, pc) ==
    IF At(code, pc).b = NoJump THEN NoJump ELSE pc + 1 + At(code, pc).b

\* The instruction that decides whether the jump at pc is taken.
JumpControl(code, pc) == IF pc >= 1 /\ At(code, pc - 1).op \in TestOps THEN pc - 1 ELSE pc

ControlOp(code, pc) == At(code, JumpControl(code, pc)).op

RECURSIVE ListOf(_, _)
ListOf(code, list) ==
    IF list = NoJump THEN <<>> ELSE <<list>> \o ListOf(code, GetJump(code, list))

NeedValue(code, list) ==
    \E i \in 1 .. Len(ListOf(code, list)) : ControlOp(code, ListOf(code, list)[i]) # "TESTSET"

\* A TESTSET is given its register, or turned into a TEST if it needs none.
PatchTestReg(code, node, reg) ==
    LET i == JumpControl(code, node) + 1
    IN IF code[i].op # "TESTSET" THEN code
       ELSE IF reg # NoReg /\ reg # code[i].b THEN [code EXCEPT ![i].a = reg]
       ELSE [code EXCEPT ![i] = [op |-> "TEST", a |-> @.b, b |-> 0, c |-> @.c]]

RECURSIVE RemoveValues(_, _)
RemoveValues(code, list) ==
    IF list = NoJump THEN code
    ELSE RemoveValues(PatchTestReg(code, list, NoReg), GetJump(code, list))

RECURSIVE PatchListAux(_, _, _, _, _)
PatchListAux(code, list, vtarget, reg, dtarget) ==
    IF list = NoJump THEN code
    ELSE LET target == IF ControlOp(code, list) = "TESTSET" THEN vtarget ELSE dtarget
             fixed  == FixJump(PatchTestReg(code, list, reg), list, target)
         IN PatchListAux(fixed, GetJump(code, list), vtarget, reg, dtarget)

\* luaK_concat: the list that begins with l1 and goes on with l2, and the code
\* in which it does.
Joined(l1, l2) == IF l1 = NoJump THEN l2 ELSE l1

Linked(code, l1, l2) ==
    IF l1 = NoJump \/ l2 = NoJump THEN code
    ELSE LET jumps == ListOf(code, l1) IN FixJump(code, jumps[Len(jumps)], l2)

DischargeJpc(s) ==
    [s EXCEPT !.code = PatchListAux(@, s.jpc, PC(s), NoReg, PC(s)), !.jpc = NoJump]

Emit(s, op, a, b, c) ==
    LET d == DischargeJpc(s)
    IN [d EXCEPT !.code = Append(@, [op |-> op, a |-> a, b |-> b, c |-> c]), !.r = PC(s)]

GetLabel(s) == [s EXCEPT !.lasttarget = PC(s)]

PatchToHere(s, list) ==
    [GetLabel(s) EXCEPT !.jpc = Joined(@, list), !.code = Linked(@, s.jpc, list)]

PatchList(s, list, target) ==
    IF target = PC(s) THEN PatchToHere(s, list)
    ELSE [s EXCEPT !.code = PatchListAux(@, list, target, NoReg, target)]

\* The jumps that lead to the new jump are left to it.
Jump(s) ==
    LET j == Emit([s EXCEPT !.jpc = NoJump], "JMP", 0, NoJump, 0)
    IN [j EXCEPT !.code = Linked(@, j.r, s.jpc)]

CondJump(s, op, a, b, c) == Jump(Emit(s, op, a, b, c))

-----------------------------------------------------------------------------
(* Registers and constants. *)

CheckStack_Late(s, n) == [s EXCEPT !.maxstack = IF s.freereg > @ THEN s.freereg ELSE @]

CheckStack(s, n) ==
    [s EXCEPT !.maxstack = IF s.freereg + n > @ THEN s.freereg + n ELSE @]

ReserveRegs(s, n) == [CheckStack(s, n) EXCEPT !.freereg = @ + n]

FreeReg(s, reg) == IF reg < K /\ reg >= s.nactvar THEN [s EXCEPT !.freereg = @ - 1] ELSE s
FreeExp(s, e)   == IF e.k = "VNONRELOC" THEN FreeReg(s, e.info) ELSE s

AddK(s, v) ==
    IF \E i \in DOMAIN s.k : s.k[i] = v
    THEN [s EXCEPT !.r = (CHOOSE i \in DOMAIN s.k : s.k[i] = v) - 1]
    ELSE [s EXCEPT !.k = Append(@, v), !.r = Len(s.k)]

LoadNil_Merged(s, from, n) ==
    IF PC(s) > 0 /\ At(s.code, PC(s) - 1).op = "LOADNIL" /\ At(s.code, PC(s) - 1).b + 1 = from
    THEN [s EXCEPT !.code[PC(s)].b = from + n - 1]
    ELSE Emit(s, "LOADNIL", from, from + n - 1, 0)

\* n registers from the register from on are nil: at the start of a function they are,
\* and a LOADNIL before is made longer, unless something jumps in between.
LoadNil(s, from, n) ==
    LET straight == PC(s) > s.lasttarget
        previous == At(s.code, PC(s) - 1)
        extends  == /\ straight /\ PC(s) > 0 /\ previous.op = "LOADNIL"
                    /\ previous.a <= from /\ from <= previous.b + 1
    IN IF straight /\ PC(s) = 0 /\ from >= s.nactvar THEN s
       ELSE IF extends
       THEN IF from + n - 1 > previous.b
            THEN [s EXCEPT !.code[PC(s)].b = from + n - 1] ELSE s
       ELSE Emit(s, "LOADNIL", from, from + n - 1, 0)

SetReturns(s, e, n) ==
    CASE e.k = "VCALL"   -> [s EXCEPT !.code[e.info + 1].c = n + 1]
      [] e.k = "VVARARG" -> ReserveRegs([s EXCEPT !.code[e.info + 1].b = n + 1,
                                                  !.code[e.info + 1].a = s.freereg], 1)
      [] OTHER           -> s

SetOneRet(s, e) ==
    CASE e.k = "VCALL"   -> [s EXCEPT !.e = NonReloc(e, At(s.code, e.info).a)]
      [] e.k = "VVARARG" -> [s EXCEPT !.code[e.info + 1].b = 2, !.e = Reloc(e, e.info)]
      [] OTHER           -> [s EXCEPT !.e = e]

DischargeVars(s, e) ==
    LET into(t) == [t EXCEPT !.e = Reloc(e, t.r)]
    IN CASE e.k = "VLOCAL"   -> [s EXCEPT !.e = NonReloc(e, e.info)]
         [] e.k = "VUPVAL"   -> into(Emit(s, "GETUPVAL", 0, e.info, 0))
         [] e.k = "VGLOBAL"  -> into(Emit(s, "GETGLOBAL", 0, e.info, 0))
         [] e.k = "VINDEXED" -> into(Emit(FreeReg(FreeReg(s, e.aux), e.info),
                                          "GETTABLE", 0, e.info, e.aux))
         [] OTHER            -> SetOneRet(s, e)

Discharge2Reg(s, e0, reg) ==
    LET d == DischargeVars(s, e0)
        e == d.e
        n == AddK(d, <<"num", e.nval>>)
        t == CASE e.k = "VNIL"       -> LoadNil(d, reg, 1)
               [] e.k \in {"VFALSE", "VTRUE"} ->
                      Emit(d, "LOADBOOL", reg, IF e.k = "VTRUE" THEN 1 ELSE 0, 0)
               [] e.k = "VK"         -> Emit(d, "LOADK", reg, e.info, 0)
               [] e.k = "VKNUM"      -> Emit(n, "LOADK", reg, n.r, 0)
               [] e.k = "VRELOCABLE" -> [d EXCEPT !.code[e.info + 1].a = reg]
               [] e.k = "VNONRELOC"  -> IF reg = e.info THEN d
                                        ELSE Emit(d, "MOVE", reg, e.info, 0)
               [] OTHER              -> d
    IN IF e.k \in {"VJMP", "VVOID"} THEN d ELSE [t EXCEPT !.e = NonReloc(e, reg)]

Discharge2AnyReg(s, e) ==
    IF e.k = "VNONRELOC" THEN [s EXCEPT !.e = e]
    ELSE Discharge2Reg(ReserveRegs(s, 1), e, s.freereg)

\* The jumps of a condition whose value is needed and not left in the register
\* by a TESTSET go to one of two LOADBOOLs.
Exp2Reg(s, e0, reg) ==
    LET d    == Discharge2Reg(s, e0, reg)
        jmp  == d.e.k = "VJMP"
        e    == IF jmp THEN [d.e EXCEPT !.t = Joined(@, d.e.info)] ELSE d.e
        c    == IF jmp THEN [d EXCEPT !.code = Linked(@, d.e.t, d.e.info)] ELSE d
        load == NeedValue(c.code, e.t) \/ NeedValue(c.code, e.f)
        over == IF jmp THEN [c EXCEPT !.r = NoJump] ELSE Jump(c)
        no   == Emit(GetLabel(over), "LOADBOOL", reg, 0, 1)
        yes  == Emit(GetLabel(no), "LOADBOOL", reg, 1, 0)
        end  == GetLabel(IF load THEN PatchToHere(yes, over.r) ELSE c)
        code == PatchListAux(PatchListAux(end.code, e.f, PC(end), reg, no.r),
                             e.t, PC(end), reg, yes.r)
    IN IF HasJumps(e)
       THEN [end EXCEPT !.code = code, !.e = Exp("VNONRELOC", reg)]
       ELSE [c EXCEPT !.e = Exp("VNONRELOC", reg)]

Exp2NextReg(s, e) ==
    LET d == DischargeVars(s, e)
        f == FreeExp(d, d.e)
    IN Exp2Reg(ReserveRegs(f, 1), d.e, f.freereg)

Exp2AnyReg(s, e) ==
    LET d == DischargeVars(s, e)
    IN IF d.e.k = "VNONRELOC" /\ ~HasJumps(d.e) THEN d
       ELSE IF d.e.k = "VNONRELOC" /\ d.e.info >= s.nactvar THEN Exp2Reg(d, d.e, d.e.info)
       ELSE Exp2NextReg(d, d.e)

Exp2Val(s, e) == IF HasJumps(e) THEN Exp2AnyReg(s, e) ELSE DischargeVars(s, e)

ConstOf(e) ==
    CASE e.k = "VNIL"  -> <<"nil">>
      [] e.k = "VKNUM" -> <<"num", e.nval>>
      [] OTHER         -> <<"bool", e.k = "VTRUE">>

\* The operand, in r: a register or a constant.
Exp2RK(s, e0) ==
    LET d == Exp2Val(s, e0)
        e == d.e
        n == AddK(d, ConstOf(e))
        a == Exp2AnyReg(d, e)
    IN IF e.k \in {"VKNUM", "VTRUE", "VFALSE", "VNIL"} /\ Len(d.k) <= MaxRK
       THEN [n EXCEPT !.e = [e EXCEPT !.k = "VK", !.info = n.r], !.r = K + n.r]
       ELSE IF e.k = "VK" /\ e.info <= MaxRK THEN [d EXCEPT !.r = K + e.info]
       ELSE [a EXCEPT !.r = a.e.info]

StoreVar(s, var, ex) ==
    LET a == Exp2AnyReg(s, ex)
        o == Exp2RK(s, ex)
    IN CASE var.k = "VLOCAL"  -> Exp2Reg(FreeExp(s, ex), ex, var.info)
         [] var.k = "VUPVAL"  -> FreeExp(Emit(a, "SETUPVAL", a.e.info, var.info, 0), a.e)
         [] var.k = "VGLOBAL" -> FreeExp(Emit(a, "SETGLOBAL", a.e.info, var.info, 0), a.e)
         [] OTHER             -> FreeExp(Emit(o, "SETTABLE", var.info, var.aux, o.r), o.e)

Self(s, e, key) ==
    LET a    == Exp2AnyReg(s, e)
        f    == FreeExp(a, a.e)
        o    == Exp2RK(ReserveRegs(f, 2), key)
        call == Emit(o, "SELF", f.freereg, a.e.info, o.r)
    IN [FreeExp(call, o.e) EXCEPT !.e = NonReloc(a.e, f.freereg)]

-----------------------------------------------------------------------------
(* Conditions. *)

InvertJump(code, e) == [code EXCEPT ![JumpControl(code, e.info) + 1].a = 1 - @]

\* The jump, in r, taken if e is cond.  A NOT just emitted is taken back.
JumpOnCond(s, e, cond) ==
    LET not == At(s.code, e.info)
        a   == Discharge2AnyReg(s, e)
    IN IF e.k = "VRELOCABLE" /\ not.op = "NOT"
       THEN CondJump([s EXCEPT !.code = SubSeq(@, 1, Len(@) - 1)], "TEST", not.b, 0, 1 - cond)
       ELSE CondJump(FreeExp(a, a.e), "TESTSET", NoReg, a.e.info, cond)

Constants == {"VK", "VKNUM", "VTRUE"}

GoIfTrue(s, e0) ==
    LET d == DischargeVars(s, e0)
        e == d.e
        j == CASE e.k \in Constants -> [d EXCEPT !.r = NoJump]
               [] e.k = "VJMP"      -> [d EXCEPT !.code = InvertJump(@, e), !.r = e.info]
               [] OTHER             -> JumpOnCond(d, e, 0)
        l == [j EXCEPT !.code = Linked(@, e.f, j.r)]
    IN [PatchToHere(l, e.t) EXCEPT !.e = [e EXCEPT !.f = Joined(@, j.r), !.t = NoJump]]

GoIfFalse(s, e0) ==
    LET d == DischargeVars(s, e0)
        e == d.e
        j == CASE e.k \in {"VNIL", "VFALSE"} -> [d EXCEPT !.r = NoJump]
               [] e.k = "VJMP"               -> [d EXCEPT !.r = e.info]
               [] OTHER                      -> JumpOnCond(d, e, 1)
        l == [j EXCEPT !.code = Linked(@, e.t, j.r)]
    IN [PatchToHere(l, e.f) EXCEPT !.e = [e EXCEPT !.t = Joined(@, j.r), !.f = NoJump]]

CodeNot(s, e0) ==
    LET d == DischargeVars(s, e0)
        e == d.e
        a == Discharge2AnyReg(d, e)
        n == Emit(FreeExp(a, a.e), "NOT", 0, a.e.info, 0)
        t == CASE e.k \in {"VNIL", "VFALSE"} -> [d EXCEPT !.e.k = "VTRUE"]
               [] e.k \in Constants          -> [d EXCEPT !.e.k = "VFALSE"]
               [] e.k = "VJMP"               -> [d EXCEPT !.code = InvertJump(@, e)]
               [] OTHER                      -> [n EXCEPT !.e = Reloc(a.e, n.r)]
    IN [t EXCEPT !.e.t = t.e.f, !.e.f = t.e.t,
                 !.code = RemoveValues(RemoveValues(@, t.e.t), t.e.f)]

Indexed(s, t, key) ==
    LET o == Exp2RK(s, key)
    IN [o EXCEPT !.e = [t EXCEPT !.aux = o.r, !.k = "VINDEXED"]]

-----------------------------------------------------------------------------
(* Operations. *)

\* The result of a number operation, or not a number.  NaN stands for it: the
\* programs of the instances compute no number so large.
NaN == 1000000

Arith(op, a, b) ==
    CASE NaN \in {a, b} \/ (op = "MOD" /\ b = 0) -> NaN
      [] op = "ADD" -> a + b
      [] op = "SUB" -> a - b
      [] op = "MUL" -> a * b
      [] op = "MOD" -> IF b > 0 THEN a % b ELSE -((-a) % (-b))
      [] op = "POW" -> a ^ b
      [] op = "UNM" -> -a

Folds(op, e1, e2) ==
    /\ IsNumeral(e1) /\ IsNumeral(e2)
    /\ op \notin {"LEN", "CONCAT"}
    /\ op = "MOD" => e2.nval # 0
    /\ Arith(op, e1.nval, e2.nval) # NaN

CodeArith(s, op, e1, e2) ==
    LET o2 == IF op \in {"UNM", "LEN"} THEN [s EXCEPT !.e = e2, !.r = 0] ELSE Exp2RK(s, e2)
        o1 == Exp2RK(o2, e1)
        f  == IF o1.r > o2.r THEN FreeExp(FreeExp(o1, o1.e), o2.e)
              ELSE FreeExp(FreeExp(o1, o2.e), o1.e)
        i  == Emit(f, op, 0, o1.r, o2.r)
    IN IF Folds(op, e1, e2)
       THEN [s EXCEPT !.e = [e1 EXCEPT !.nval = Arith(op, e1.nval, e2.nval)]]
       ELSE [i EXCEPT !.e = Reloc(o1.e, i.r)]

\* a > b is b < a.
CodeComp(s, op, cond, e1, e2) ==
    LET o1   == Exp2RK(s, e1)
        o2   == Exp2RK(o1, e2)
        f    == FreeExp(FreeExp(o2, o2.e), o1.e)
        swap == cond = 0 /\ op # "EQ"
        j    == IF swap THEN CondJump(f, op, 1, o2.r, o1.r)
                ELSE CondJump(f, op, cond, o1.r, o2.r)
    IN [j EXCEPT !.e = [o1.e EXCEPT !.k = "VJMP", !.info = j.r]]

Prefix(s, op, e) ==
    LET a == Exp2AnyReg(s, e)
        zero == Exp("VKNUM", 0)
    IN CASE op = "not" -> CodeNot(s, e)
         [] op = "-" /\ IsNumeral(e) -> CodeArith(s, "UNM", e, zero)
         [] OTHER -> CodeArith(a, IF op = "-" THEN "UNM" ELSE "LEN", a.e, zero)

ArithOps == [x \in {"+", "-", "*", "%", "^"} |->
    CASE x = "+" -> "ADD" [] x = "-" -> "SUB" [] x = "*" -> "MUL"
      [] x = "%" -> "MOD" [] x = "^" -> "POW"]

\* Before the second operand is compiled.
Infix(s, op, v) ==
    CASE op = "and" -> GoIfTrue(s, v)
      [] op = "or"  -> GoIfFalse(s, v)
      [] op = ".."  -> Exp2NextReg(s, v)
      [] op \in DOMAIN ArithOps /\ IsNumeral(v) -> [s EXCEPT !.e = v]
      [] OTHER      -> Exp2RK(s, v)

\* A .. (B .. C) becomes one CONCAT of a run of registers.
Concatenate(s, e1, e2) ==
    LET v == Exp2Val(s, e2)
        n == Exp2NextReg(v, v.e)
    IN IF v.e.k = "VRELOCABLE" /\ At(v.code, v.e.info).op = "CONCAT"
       THEN LET f == FreeExp(v, e1)
            IN [f EXCEPT !.code[v.e.info + 1].b = e1.info, !.e = Reloc(e1, v.e.info)]
       ELSE CodeArith(n, "CONCAT", e1, n.e)

Posfix(s, op, e1, e2) ==
    LET d == DischargeVars(s, e2)
        comp(o, c) == CodeComp(s, o, c, e1, e2)
    IN CASE op = "and" -> [d EXCEPT !.code = Linked(@, d.e.f, e1.f), !.e.f = Joined(@, e1.f)]
         [] op = "or"  -> [d EXCEPT !.code = Linked(@, d.e.t, e1.t), !.e.t = Joined(@, e1.t)]
         [] op = ".."  -> Concatenate(s, e1, e2)
         [] op \in DOMAIN ArithOps -> CodeArith(s, ArithOps[op], e1, e2)
         [] op = "=="  -> comp("EQ", 1)
         [] op = "~="  -> comp("EQ", 0)
         [] op = "<"   -> comp("LT", 1)
         [] op = "<="  -> comp("LE", 1)
         [] op = ">"   -> comp("LT", 0)
         [] op = ">="  -> comp("LE", 0)

\* Items from (c - 1) * Flush + 1 on; b items, or all up to the top.
SetList(s, base, nelems, tostore) ==
    [Emit(s, "SETLIST", base, IF tostore = -1 THEN 0 ELSE tostore, (nelems - 1) \div Flush + 1)
        EXCEPT !.freereg = base + 1]
=============================================================================
