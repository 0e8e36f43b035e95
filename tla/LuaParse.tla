------------------------------ MODULE LuaParse ------------------------------
(***************************************************************************)
(* The parser of minilua (dep/minilua.c, from testnext to chunk): one pass *)
(* over the tokens, which emits the code of a function as it reads it.     *)
(*                                                                         *)
(* A token is a tuple of its kind and, for a name, a number or a string,   *)
(* its value.  The state s of LuaCode gets the tokens left (s.toks), the   *)
(* names of the locals (s.vars), the open blocks, innermost first (s.bl),  *)
(* and the function around (s.prev).  A syntax error is a token nothing    *)
(* consumes.  Lines and the limits on names, levels and sizes are left     *)
(* out.                                                                    *)
(***************************************************************************)
EXTENDS LuaCode, SequencesExt

Void  == Exp("VVOID", 0)
Error == <<"error">>

Tok(s)   == s.toks[1][1]
Val(s)   == s.toks[1][2]
Fail(s)  == [s EXCEPT !.toks = <<Error>>]
Skip(s)  == IF Tok(s) = "error" THEN s ELSE [s EXCEPT !.toks = Tail(@)]

CheckNext(s, c) == IF Tok(s) = c THEN Skip(s) ELSE Fail(s)

-----------------------------------------------------------------------------
(* Variables and blocks. *)

NewLocalVar(s, name, n) ==
    [s EXCEPT !.vars = Append(SubSeq(@, 1, s.nactvar + n), name)]

AdjustLocalVars(s, n) == [s EXCEPT !.nactvar = @ + n]

SearchVar(s, name) ==
    LET at == {i \in 1 .. s.nactvar : s.vars[i] = name}
    IN IF at = {} THEN -1 ELSE Max(at) - 1

\* The block that declares the variable closes it when it is left.
MarkUpval(s, level) ==
    LET at == {i \in DOMAIN s.bl : s.bl[i].nactvar <= level}
    IN IF at = {} THEN s ELSE [s EXCEPT !.bl[Min(at)].upval = TRUE]

IndexUpvalue(s, e) ==
    LET up == [k |-> e.k, info |-> e.info]
        at == {i \in DOMAIN s.upvalues : s.upvalues[i] = up}
    IN IF at # {} THEN [s EXCEPT !.e = Exp("VUPVAL", Min(at) - 1)]
       ELSE [s EXCEPT !.upvalues = Append(@, up), !.e = Exp("VUPVAL", Len(s.upvalues))]

RECURSIVE SingleVarAux(_, _, _)
SingleVarAux(s, name, base) ==
    LET v     == SearchVar(s, name)
        outer == SingleVarAux(s.prev[1], name, FALSE)
        up    == [s EXCEPT !.prev = <<outer>>]
    IN IF v >= 0 THEN [IF base THEN s ELSE MarkUpval(s, v) EXCEPT !.e = Exp("VLOCAL", v)]
       ELSE IF s.prev = <<>> THEN [s EXCEPT !.e = Exp("VGLOBAL", 0)]
       ELSE IF outer.e.k = "VGLOBAL" THEN [up EXCEPT !.e = outer.e]
       ELSE IndexUpvalue(up, outer.e)

SingleVar(s) ==
    LET v == SingleVarAux(s, Val(s), TRUE)
        g == AddK(v, <<"str", Val(s)>>)
    IN IF Tok(s) # "name" THEN Fail(s)
       ELSE Skip(IF v.e.k = "VGLOBAL" THEN [g EXCEPT !.e.info = g.r] ELSE v)

CodeString(s, str) == LET k == AddK(s, <<"str", str>>) IN [k EXCEPT !.e = Exp("VK", k.r)]

CheckName(s) == IF Tok(s) = "name" THEN Skip(CodeString(s, Val(s))) ELSE Fail(s)

AdjustAssign(s, nvars, nexps, e) ==
    LET extra == nvars - nexps
        wanted == IF extra + 1 < 0 THEN 0 ELSE extra + 1
        m == SetReturns(s, e, wanted)
        n == IF e.k = "VVOID" THEN s ELSE Exp2NextReg(s, e)
    IN IF MultRet(e) THEN (IF wanted > 1 THEN ReserveRegs(m, wanted - 1) ELSE m)
       ELSE IF extra > 0 THEN LoadNil(ReserveRegs(n, extra), n.freereg, extra)
       ELSE n

EnterBlock(s, breakable) ==
    [s EXCEPT !.bl = <<[breaklist |-> NoJump, nactvar |-> s.nactvar, upval |-> FALSE,
                        breakable |-> breakable]>> \o @]

LeaveBlock(s) ==
    LET bl == s.bl[1]
        l  == [s EXCEPT !.bl = Tail(@), !.nactvar = bl.nactvar]
        c  == IF bl.upval THEN Emit(l, "CLOSE", bl.nactvar, 0, 0) ELSE l
    IN PatchToHere([c EXCEPT !.freereg = c.nactvar], bl.breaklist)

-----------------------------------------------------------------------------
(* Functions. *)

OpenFunc(outer, toks) ==
    [code |-> <<>>, k |-> <<>>, p |-> <<>>, jpc |-> NoJump, lasttarget |-> -1,
     freereg |-> 0, maxstack |-> 2, vars |-> <<>>, nactvar |-> 0, bl |-> <<>>,
     upvalues |-> <<>>, vararg |-> FALSE, numparams |-> 0, prev |-> outer,
     toks |-> toks, e |-> Void, r |-> 0]

Ret(s, first, nret) == Emit(s, "RETURN", first, nret + 1, 0)

\* What is left of a function: its Proto.
CloseFunc(s) ==
    LET c == Ret([s EXCEPT !.nactvar = 0], 0, 0)
    IN [code |-> c.code, k |-> c.k, p |-> c.p, maxstack |-> c.maxstack,
        numparams |-> c.numparams, vararg |-> c.vararg, nups |-> Len(c.upvalues)]

\* The instructions after a CLOSURE tell where it finds its upvalues.
PushClosure(s, func) ==
    LET c == Emit([s EXCEPT !.p = Append(@, CloseFunc(func))], "CLOSURE", 0, Len(s.p), 0)
        capture(t, up) ==
            Emit(t, IF up.k = "VLOCAL" THEN "MOVE" ELSE "GETUPVAL", 0, up.info, 0)
    IN [FoldLeft(capture, c, func.upvalues) EXCEPT !.e = Exp("VRELOCABLE", c.r)]

RECURSIVE ParNames(_, _)
ParNames(s, n) ==
    CASE Tok(s) = "..."  -> [Skip(s) EXCEPT !.vararg = TRUE, !.r = n]
      [] Tok(s) = "name" ->
            LET v == Skip(NewLocalVar(s, Val(s), n))
            IN IF Tok(v) = "," THEN ParNames(Skip(v), n + 1) ELSE [v EXCEPT !.r = n + 1]
      [] OTHER -> Fail(s)

ParList(s) ==
    LET names == IF Tok(s) = ")" THEN [s EXCEPT !.r = 0] ELSE ParNames(s, 0)
        a     == AdjustLocalVars(names, names.r)
    IN ReserveRegs([a EXCEPT !.numparams = a.nactvar], a.nactvar)

RECURSIVE Expr(_), SubExpr(_, _), Chunk(_)

Body(s, needself) ==
    LET o == CheckNext(OpenFunc(<<s>>, s.toks), "(")
        self == IF needself THEN AdjustLocalVars(NewLocalVar(o, "self", 0), 1) ELSE o
        c == CheckNext(Chunk(CheckNext(ParList(self), ")")), "end")
    IN PushClosure([c.prev[1] EXCEPT !.toks = c.toks], c)

-----------------------------------------------------------------------------
(* Expressions. *)

RECURSIVE MoreExps(_, _)
MoreExps(s, n) ==
    IF Tok(s) = "," THEN MoreExps(Expr(Exp2NextReg(Skip(s), s.e)), n + 1)
    ELSE [s EXCEPT !.r = n]

ExpList1(s) == MoreExps(Expr(s), 1)

Field(s, v) ==
    LET a == Exp2AnyReg(s, v)
        key == CheckName(Skip(a))
    IN Indexed(key, a.e, key.e)

YIndex(s) == LET x == Expr(Skip(s)) IN CheckNext(Exp2Val(x, x.e), "]")

RecField(s, cc) ==
    LET key == IF Tok(s) = "name" THEN CheckName(s) ELSE YIndex(s)
        o   == Exp2RK(CheckNext(key, "="), key.e)
        x   == Expr(o)
        val == Exp2RK(x, x.e)
    IN [Emit(val, "SETTABLE", cc.t.info, o.r, val.r) EXCEPT !.freereg = s.freereg]

\* The items of a list wait in registers until there are Flush of them.
CloseListField(s, cc) ==
    LET n == Exp2NextReg(s, cc.v)
    IN IF cc.v.k = "VVOID" THEN s
       ELSE IF cc.tostore = Flush THEN SetList(n, cc.t.info, cc.na, cc.tostore)
       ELSE n

LastListField(s, cc) ==
    IF cc.tostore = 0 THEN s
    ELSE IF MultRet(cc.v)
         THEN SetList(SetReturns(s, cc.v, -1), cc.t.info, cc.na, -1)
         ELSE SetList(IF cc.v.k = "VVOID" THEN s ELSE Exp2NextReg(s, cc.v),
                      cc.t.info, cc.na, cc.tostore)

RECURSIVE Items(_, _)
Items(s, cc) ==
    LET closed == CloseListField(s, cc)
        kept == [cc EXCEPT !.v = Void, !.tostore =
                    IF cc.v.k # "VVOID" /\ @ = Flush THEN 0 ELSE @]
        record == Tok(s) = "[" \/ (Tok(s) = "name" /\ s.toks[2][1] = "=")
        x == IF record THEN RecField(closed, kept) ELSE Expr(closed)
        more == IF record THEN kept
                ELSE [kept EXCEPT !.v = x.e, !.na = @ + 1, !.tostore = @ + 1]
        end(t, c) == [LastListField(CheckNext(t, "}"), c) EXCEPT !.e = c.t]
    IN IF Tok(s) = "}" THEN end(s, cc)
       ELSE IF Tok(x) \in {",", ";"} THEN Items(Skip(x), more)
       ELSE end(x, more)

Constructor(s) ==
    LET n == Emit(s, "NEWTABLE", 0, 0, 0)
        t == Exp2NextReg(n, Exp("VRELOCABLE", n.r))
    IN Items(CheckNext(t, "{"), [t |-> t.e, v |-> Void, na |-> 0, tostore |-> 0])

\* The arguments follow the function, which is in register f.info.
FuncArgs(s, f) ==
    LET list  == ExpList1(Skip(s))
        multi == CheckNext(SetReturns(list, list.e, -1), ")")
        none  == Skip(s).toks[1][1] = ")"
        args  == CASE Tok(s) = "(" -> IF none THEN [Skip(Skip(s)) EXCEPT !.e = Void]
                                      ELSE [multi EXCEPT !.e = list.e]
                   [] Tok(s) = "{" -> Constructor(s)
                   [] Tok(s) = "str" -> Skip(CodeString(s, Val(s)))
                   [] OTHER -> Fail(s)
        open == MultRet(args.e)
        a == IF open \/ args.e.k = "VVOID" THEN args ELSE Exp2NextReg(args, args.e)
        c == Emit(a, "CALL", f.info, IF open THEN 0 ELSE a.freereg - f.info, 2)
    IN [c EXCEPT !.e = Exp("VCALL", c.r), !.freereg = f.info + 1]

PrefixExp(s) ==
    LET x == CheckNext(Expr(Skip(s)), ")")
    IN IF Tok(s) = "(" THEN DischargeVars(x, x.e) ELSE SingleVar(s)

RECURSIVE Suffixed(_)
Suffixed(s) ==
    LET a   == Exp2AnyReg(s, s.e)
        key == YIndex(a)
        name == CheckName(Skip(s))
        self == Self(name, s.e, name.e)
        f   == Exp2NextReg(s, s.e)
    IN CASE Tok(s) = "." -> Suffixed(Field(s, s.e))
         [] Tok(s) = "[" -> Suffixed(Indexed(key, a.e, key.e))
         [] Tok(s) = ":" -> Suffixed(FuncArgs(self, self.e))
         [] Tok(s) \in {"(", "str", "{"} -> Suffixed(FuncArgs(f, f.e))
         [] OTHER -> s

PrimaryExp(s) == Suffixed(PrefixExp(s))

SimpleExp(s) ==
    LET dots == Emit(s, "VARARG", 0, 1, 0)
        is(e) == Skip([s EXCEPT !.e = e])
    IN CASE Tok(s) = "num"   -> is([Exp("VKNUM", 0) EXCEPT !.nval = Val(s)])
         [] Tok(s) = "str"   -> Skip(CodeString(s, Val(s)))
         [] Tok(s) = "nil"   -> is(Exp("VNIL", 0))
         [] Tok(s) = "true"  -> is(Exp("VTRUE", 0))
         [] Tok(s) = "false" -> is(Exp("VFALSE", 0))
         [] Tok(s) = "..."   -> IF s.vararg THEN Skip([dots EXCEPT !.e = Exp("VVARARG", dots.r)])
                                ELSE Fail(s)
         [] Tok(s) = "{"     -> Constructor(s)
         [] Tok(s) = "function" -> Body(Skip(s), FALSE)
         [] OTHER            -> PrimaryExp(s)

\* The priorities of an operator on its left and on its right.
Priority(op) ==
    CASE op \in {"+", "-"}      -> <<6, 6>>
      [] op \in {"*", "%"}      -> <<7, 7>>
      [] op = "^"               -> <<10, 9>>
      [] op = ".."              -> <<5, 4>>
      [] op \in {"~=", "==", "<", "<=", ">", ">="} -> <<3, 3>>
      [] op = "and"             -> <<2, 2>>
      [] op = "or"              -> <<1, 1>>
      [] OTHER                  -> <<0, 0>>

UnaryPriority == 8

RECURSIVE Operators(_, _)
Operators(s, limit) ==
    LET op == Tok(s)
        i  == Infix(Skip(s), op, s.e)
        x  == SubExpr(i, Priority(op)[2])
    IN IF Priority(op)[1] > limit
       THEN Operators(Posfix(x, op, i.e, x.e), limit) ELSE s

SubExpr(s, limit) ==
    LET u == SubExpr(Skip(s), UnaryPriority)
    IN Operators(IF Tok(s) \in {"not", "-", "#"} THEN Prefix(u, Tok(s), u.e)
                 ELSE SimpleExp(s), limit)

Expr(s) == SubExpr(s, 0)

-----------------------------------------------------------------------------
(* Statements. *)

BlockFollow(s) == Tok(s) \in {"else", "elseif", "end", "until", "eos", "error"}

Block(s) == LeaveBlock(Chunk(EnterBlock(s, FALSE)))

\* A local assigned to that an earlier target uses as table or key is copied.
Conflicts(lh, v) == {i \in DOMAIN lh : lh[i].k = "VINDEXED" /\ v.info \in {lh[i].info, lh[i].aux}}

CheckConflict(s, lh, v) ==
    IF v.k = "VLOCAL" /\ Conflicts(lh, v) # {}
    THEN ReserveRegs(Emit(s, "MOVE", s.freereg, v.info, 0), 1) ELSE s

Renamed(s, lh, v) ==
    LET moved(reg) == IF reg = v.info THEN s.freereg ELSE reg
    IN [i \in DOMAIN lh |->
            IF v.k = "VLOCAL" /\ i \in Conflicts(lh, v)
            THEN [lh[i] EXCEPT !.info = moved(@), !.aux = moved(@)] ELSE lh[i]]

\* The values are stored from the last target to the first.
StoreAll(s, lh) ==
    LET store(t, var) == StoreVar(t, var, Exp("VNONRELOC", t.freereg - 1))
    IN FoldLeft(store, s, lh)

RECURSIVE Assignment(_, _)
Assignment(s, lh) ==
    LET nv     == PrimaryExp(Skip(s))
        nvars  == Len(lh)
        x      == ExpList1(CheckNext(s, "="))
        one    == SetOneRet(x, x.e)
        a      == AdjustAssign(x, nvars, x.r, x.e)
        popped == IF x.r > nvars THEN [a EXCEPT !.freereg = @ - (x.r - nvars)] ELSE a
    IN IF lh[1].k \notin {"VLOCAL", "VUPVAL", "VGLOBAL", "VINDEXED"} THEN Fail(s)
       ELSE IF Tok(s) = ","
       THEN Assignment(CheckConflict(nv, lh, nv.e), <<nv.e>> \o Renamed(nv, lh, nv.e))
       ELSE IF x.r = nvars THEN StoreAll(StoreVar(one, lh[1], one.e), Tail(lh))
       ELSE StoreAll(popped, lh)

ExprStat(s) ==
    LET v == PrimaryExp(s)
    IN IF v.e.k = "VCALL" THEN [v EXCEPT !.code[v.e.info + 1].c = 1]
       ELSE Assignment(v, <<v.e>>)

\* The jumps, in r, taken if the condition is false.
Cond(s) ==
    LET x == Expr(s)
        g == GoIfTrue(x, IF x.e.k = "VNIL" THEN [x.e EXCEPT !.k = "VFALSE"] ELSE x.e)
    IN [g EXCEPT !.r = g.e.f]

BreakStat(s) ==
    LET loops == {i \in DOMAIN s.bl : s.bl[i].breakable}
        i     == Min(loops)
        upval == \E j \in 1 .. i - 1 : s.bl[j].upval
        c     == IF upval THEN Emit(s, "CLOSE", s.bl[i].nactvar, 0, 0) ELSE s
        j     == Jump(c)
    IN IF loops = {} THEN Fail(s)
       ELSE [j EXCEPT !.bl[i].breaklist = Joined(@, j.r),
                      !.code = Linked(@, j.bl[i].breaklist, j.r)]

WhileStat(s) ==
    LET cond == Cond(GetLabel(Skip(s)))
        body == Block(CheckNext(EnterBlock(cond, TRUE), "do"))
        back == Jump(body)
        left == LeaveBlock(CheckNext(PatchList(back, back.r, PC(s)), "end"))
    IN PatchToHere(left, cond.r)

\* A block whose locals were captured is closed before the loop goes on.
RepeatStat(s) ==
    LET in   == EnterBlock(EnterBlock(GetLabel(s), TRUE), FALSE)
        cond == Cond(CheckNext(Chunk(Skip(in)), "until"))
        open == LeaveBlock(PatchToHere(BreakStat(cond), cond.r))
        back == Jump(open)
    IN LeaveBlock(IF cond.bl[1].upval THEN PatchList(back, back.r, PC(s))
                  ELSE PatchList(LeaveBlock(cond), cond.r, PC(s)))

Exp1(s) == LET x == Expr(s) IN Exp2NextReg(x, x.e)

ForBody(s, base, nvars, isnum) ==
    LET d     == CheckNext(AdjustLocalVars(s, 3), "do")
        prep  == IF isnum THEN Emit(d, "FORPREP", base, NoJump, 0) ELSE Jump(d)
        vars  == AdjustLocalVars(EnterBlock(prep, FALSE), nvars)
        body  == PatchToHere(LeaveBlock(Block(ReserveRegs(vars, nvars))), prep.r)
        endfor == IF isnum THEN Emit(body, "FORLOOP", base, NoJump, 0)
                  ELSE Jump(Emit(body, "TFORLOOP", base, 0, nvars))
    IN PatchList(endfor, endfor.r, prep.r + 1)

Hidden(s) == NewLocalVar(NewLocalVar(NewLocalVar(s, "(for 0)", 0), "(for 1)", 1), "(for 2)", 2)

ForNum(s, name) ==
    LET limit == Exp1(CheckNext(Exp1(CheckNext(NewLocalVar(Hidden(s), name, 3), "=")), ","))
        one   == AddK(limit, <<"num", 1>>)
        step  == IF Tok(limit) = "," THEN Exp1(Skip(limit))
                 ELSE ReserveRegs(Emit(one, "LOADK", one.freereg, one.r, 0), 1)
    IN ForBody(step, s.freereg, 1, TRUE)

RECURSIVE NameList(_, _)
NameList(s, n) ==
    IF Tok(s) # "," THEN [s EXCEPT !.r = n]
    ELSE IF s.toks[2][1] # "name" THEN Fail(s)
    ELSE NameList(Skip(NewLocalVar(Skip(s), s.toks[2][2], n)), n + 1)

ForList(s, name) ==
    LET names == NameList(NewLocalVar(Hidden(s), name, 3), 4)
        x     == ExpList1(CheckNext(names, "in"))
    IN ForBody(CheckStack(AdjustAssign(x, 3, x.r, x.e), 3), s.freereg, names.r - 3, FALSE)

ForStat(s) ==
    LET b    == Skip(EnterBlock(s, TRUE))
        name == Val(b)
        n    == Skip(b)
        loop == CASE Tok(b) # "name"        -> Fail(b)
                  [] Tok(n) = "="           -> ForNum(n, name)
                  [] Tok(n) \in {",", "in"} -> ForList(n, name)
                  [] OTHER                  -> Fail(n)
    IN LeaveBlock(CheckNext(loop, "end"))

TestThenBlock(s) ==
    LET cond == Cond(Skip(s))
    IN [Block(CheckNext(cond, "then")) EXCEPT !.r = cond.r]

\* s.r is the list of the condition before, escape that of the blocks' ends.
RECURSIVE ElseParts(_, _)
ElseParts(s, escape) ==
    LET flist == s.r
        j     == Jump(s)
        skip  == PatchToHere([j EXCEPT !.code = Linked(@, escape, j.r)], flist)
        out   == Joined(escape, j.r)
        none  == [s EXCEPT !.code = Linked(@, escape, flist)]
    IN CASE Tok(s) = "elseif" -> ElseParts(TestThenBlock(skip), out)
         [] Tok(s) = "else"   -> PatchToHere(Block(Skip(skip)), out)
         [] OTHER             -> PatchToHere(none, Joined(escape, flist))

IfStat(s) == CheckNext(ElseParts(TestThenBlock(s), NoJump), "end")

LocalFunc(s) ==
    LET v == NewLocalVar(s, Val(s), 0)
        b == Body(Skip(AdjustLocalVars(ReserveRegs(v, 1), 1)), FALSE)
    IN IF Tok(s) # "name" THEN Fail(s) ELSE StoreVar(b, Exp("VLOCAL", s.freereg), b.e)

LocalStat(s) ==
    LET names == NameList(Skip(NewLocalVar(s, Val(s), 0)), 1)
        x     == IF Tok(names) = "=" THEN ExpList1(Skip(names))
                 ELSE [names EXCEPT !.e = Void, !.r = 0]
    IN IF Tok(s) # "name" THEN Fail(s)
       ELSE AdjustLocalVars(AdjustAssign(x, names.r, x.r, x.e), names.r)

RECURSIVE FuncName(_)
FuncName(s) ==
    CASE Tok(s) = "." -> FuncName(Field(s, s.e))
      [] Tok(s) = ":" -> Field(s, s.e)
      [] OTHER        -> s

FuncStat(s) ==
    LET v == FuncName(SingleVar(Skip(s)))
        method == \E i \in 1 .. Len(s.toks) - Len(v.toks) : s.toks[i] = <<":">>
        b == Body(v, method)
    IN StoreVar(b, v.e, b.e)

RetStat(s) ==
    LET n == Skip(s)
        x == ExpList1(n)
        m == SetReturns(x, x.e, -1)
        t == IF x.e.k = "VCALL" /\ x.r = 1 THEN [m EXCEPT !.code[x.e.info + 1].op = "TAILCALL"]
             ELSE m
        a == Exp2AnyReg(x, x.e)
    IN CASE BlockFollow(n) \/ Tok(n) = ";" -> Ret(n, 0, 0)
         [] MultRet(x.e)                   -> Ret(t, t.nactvar, -1)
         [] x.r = 1                        -> Ret(a, a.e.info, 1)
         [] OTHER                          -> Ret(Exp2NextReg(x, x.e), x.nactvar, x.r)

Statement(s) ==
    CASE Tok(s) = "if"       -> IfStat(s)
      [] Tok(s) = "while"    -> WhileStat(s)
      [] Tok(s) = "do"       -> CheckNext(Block(Skip(s)), "end")
      [] Tok(s) = "for"      -> ForStat(s)
      [] Tok(s) = "repeat"   -> RepeatStat(s)
      [] Tok(s) = "function" -> FuncStat(s)
      [] Tok(s) = "local"    -> IF s.toks[2][1] = "function" THEN LocalFunc(Skip(Skip(s)))
                                ELSE LocalStat(Skip(s))
      [] Tok(s) = "return"   -> RetStat(s)
      [] Tok(s) = "break"    -> BreakStat(Skip(s))
      [] OTHER               -> ExprStat(s)

\* Nothing follows a return or a break, and no register but those of the
\* locals is in use between two statements.
Chunk(s) ==
    LET t    == Statement(s)
        next == IF Tok(t) = ";" THEN Skip(t) ELSE t
        done == [next EXCEPT !.freereg = next.nactvar]
    IN IF BlockFollow(s) THEN s
       ELSE IF Tok(s) \in {"return", "break"} THEN done ELSE Chunk(done)

Parser(toks) == Chunk([OpenFunc(<<>>, toks) EXCEPT !.vararg = TRUE])
=============================================================================
