------------------------------- MODULE LuaVM -------------------------------
(***************************************************************************)
(* The virtual machine of minilua (dep/minilua.c, luaV_execute with        *)
(* luaD_precall, luaD_poscall, luaD_pcall and the upvalues of luaF_...):   *)
(* one step is one instruction, or a part of a library function.           *)
(*                                                                         *)
(* Values are tuples of a type and a value.  The frames are the CallInfos, *)
(* the innermost first; a frame whose mid is not empty called another in   *)
(* the middle of what it does (C code, TFORLOOP).  The stack is large      *)
(* enough for the programs of the instances, so that it never moves.       *)
(* Strings are neither compared nor converted to numbers, and no table has *)
(* a metatable.                                                            *)
(***************************************************************************)
EXTENDS LuaParse, TLC

CONSTANTS
    Programs,
    Compiled,       \* what Parser makes of the tokens of each program
    StackSize

ASSUME VMAssumption == StackSize \in Nat

VARIABLES
    program,    \* the program that was compiled
    stack,
    top,        \* L->top
    frames,
    open,       \* the open upvalues, the highest on the stack first
    upvals,     \* [at: a place of the stack, or -1 when closed, v: the value then]
    closures,   \* [proto, upvals]
    tables,     \* the first one holds the globals
    outcome     \* how the program ended, and with what values

state == <<stack, top, frames, open, upvals, closures, tables>>
vars  == <<program, state, outcome>>

Nil     == <<"nil">>
Bool(b) == <<"bool", b>>
Num(n)  == <<"num", n>>
Host(f) == <<"host", f>>
Falsy   == {Nil, Bool(FALSE)}
Loading == <<"loading">>
Running == <<"running">>
Refused == <<"refused">>

\* What a runtime error raises: the text of the message is left out.
Message == <<"str", "message">>

Library == [n \in {<<"str", f>> : f \in {"error", "pcall", "ipairs"}} |-> Host(n[2])]

-----------------------------------------------------------------------------
Top   == frames[1]
Base  == Top.base
Proto == closures[Top.func].proto
InLua == outcome = Running /\ Top.host = "" /\ Top.mid = ""
Ins   == Proto.code[Top.pc + 1]
A     == Ins.a
B     == Ins.b
C     == Ins.c
Is(op) == InLua /\ Ins.op = op

R(n)     == stack[Base + n]
Const(n) == Proto.k[n + 1]
RK(n)    == IF n >= K THEN Const(n - K) ELSE R(n)

Goto(n)    == frames' = [frames EXCEPT ![1].pc = @ + n]
Set(n, v)  == stack' = [stack EXCEPT ![Base + n] = v]

\* stack places from .. to are v, a sequence.
Placed(s, from, v) ==
    [i \in DOMAIN s |-> IF i \in from .. from + Len(v) - 1 THEN v[i - from + 1] ELSE s[i]]

Between(from, to) == [i \in 1 .. (IF to > from THEN to - from ELSE 0) |-> stack[from + i - 1]]

Nils(n) == [i \in 1 .. (IF n > 0 THEN n ELSE 0) |-> Nil]

-----------------------------------------------------------------------------
(* Upvalues. *)

\* The open upvalues at level or above: the list is in the order of the stack.
From(level) == SelectInSeq(open, LAMBDA u : upvals[u].at < level)

Above(level) == IF From(level) = 0 THEN open ELSE SubSeq(open, 1, From(level) - 1)
Below(level) == IF From(level) = 0 THEN <<>> ELSE SubSeq(open, From(level), Len(open))

UpValue(u) == IF upvals[u].at >= 0 THEN stack[upvals[u].at] ELSE upvals[u].v

Closed(level) ==
    [u \in DOMAIN upvals |->
        IF \E i \in DOMAIN Above(level) : Above(level)[i] = u
        THEN [at |-> -1, v |-> UpValue(u)] ELSE upvals[u]]

CloseFrom(level) == upvals' = Closed(level) /\ open' = Below(level)

-----------------------------------------------------------------------------
(* Calls. *)

Frame(at, base, limit, nresults, func, host) ==
    [at |-> at, base |-> base, top |-> limit, nresults |-> nresults, pc |-> 0,
     func |-> func, host |-> host, mid |-> ""]

\* luaD_precall for a Lua function at a place of the stack, with arguments up to
\* t.  A function with a variable list gets a second copy of its parameters.
FrameOf(s, at, t, nresults) ==
    LET f     == s[at][2]
        p     == closures[f].proto
        nargs == t - at - 1
        base  == IF p.vararg THEN t + (IF nargs < p.numparams THEN p.numparams - nargs ELSE 0)
                 ELSE at + 1
    IN Frame(at, base, base + p.maxstack, nresults, f, "")

StackOf(s, at, t) ==
    LET p     == closures[s[at][2]].proto
        nargs == t - at - 1
        new   == FrameOf(s, at, t, 0)
        fixed(i) == IF i <= nargs THEN s[at + i] ELSE Nil
        copied == Placed(Placed(s, new.base, [i \in 1 .. p.numparams |-> fixed(i)]),
                         at + 1, Nils(p.numparams))
        cleared(u, from) == Placed(u, from, Nils(new.top - from))
    IN IF p.vararg THEN cleared(Placed(copied, t, Nils(p.numparams - nargs)),
                                new.base + p.numparams)
       ELSE cleared(s, IF nargs > p.numparams THEN new.base + p.numparams ELSE t)

\* luaL_error and lua_error: the innermost pcall gets the error.
Raise(v) ==
    LET pcalls == {i \in DOMAIN frames : frames[i].host = "pcall" /\ frames[i].mid # ""}
        i      == Min(pcalls)
        at     == frames[i].base
    IN IF pcalls = {}
       THEN outcome' = <<"error", v>> /\ UNCHANGED <<state, program>>
       ELSE /\ stack' = [stack EXCEPT ![at] = v]
            /\ top' = at + 1
            /\ frames' = [SubSeq(frames, i, Len(frames)) EXCEPT ![1].mid = "failed"]
            /\ CloseFrom(at)
            /\ UNCHANGED <<closures, tables, outcome, program>>

\* The frame below goes on at frame; the function is at a place of the stack.
Precall(fs, at, t, nresults) ==
    CASE stack[at][1] = "fun" ->
            /\ stack' = StackOf(stack, at, t)
            /\ frames' = <<FrameOf(stack, at, t, nresults)>> \o fs
            /\ top' = FrameOf(stack, at, t, nresults).top
            /\ UNCHANGED <<open, upvals, closures, tables, outcome, program>>
      [] stack[at][1] = "host" ->
            /\ frames' = <<Frame(at, at + 1, t, nresults, 0, stack[at][2])>> \o fs
            /\ top' = t
            /\ UNCHANGED <<stack, open, upvals, closures, tables, outcome, program>>
      [] OTHER -> Raise(Message)

\* luaD_poscall: the results, adjusted to the number wanted, replace the
\* function.  A frame that is not in the middle of something gets its top back
\* unless the next instruction takes all there is.
Poscall(s, results) ==
    LET wanted == Top.nresults
        given  == IF wanted = -1 THEN results
                  ELSE [i \in 1 .. wanted |-> IF i <= Len(results) THEN results[i] ELSE Nil]
        caller == frames[2]
    IN IF Len(frames) = 1
       THEN /\ outcome' = <<"done", results>>
            /\ UNCHANGED <<stack, top, frames>>
       ELSE /\ stack' = Placed(s, Top.at, given)
            /\ frames' = Tail(frames)
            /\ top' = IF wanted # -1 /\ caller.host = "" /\ caller.mid = ""
                      THEN caller.top ELSE Top.at + Len(given)
            /\ UNCHANGED outcome

-----------------------------------------------------------------------------
(* Instructions that set a register. *)

Loads ==
    /\ \/ Is("MOVE") /\ Set(A, R(B)) /\ Goto(1)
       \/ Is("LOADK") /\ Set(A, Const(B)) /\ Goto(1)
       \/ Is("LOADBOOL") /\ Set(A, Bool(B = 1)) /\ Goto(1 + C)
       \/ Is("LOADNIL") /\ stack' = Placed(stack, Base + A, Nils(B - A + 1)) /\ Goto(1)
       \/ Is("GETUPVAL") /\ Set(A, UpValue(closures[Top.func].upvals[B + 1])) /\ Goto(1)
       \/ Is("NOT") /\ Set(A, Bool(R(B) \in Falsy)) /\ Goto(1)
    /\ UNCHANGED <<top, open, upvals, closures, tables, outcome, program>>

SetUpval ==
    /\ Is("SETUPVAL")
    /\ LET u  == closures[Top.func].upvals[B + 1]
           at == upvals[u].at
       IN /\ stack' = IF at >= 0 THEN [stack EXCEPT ![at] = R(A)] ELSE stack
          /\ upvals' = IF at >= 0 THEN upvals ELSE [upvals EXCEPT ![u].v = R(A)]
    /\ Goto(1)
    /\ UNCHANGED <<top, open, closures, tables, outcome, program>>

Lookup(t, key) == IF key \in DOMAIN tables[t[2]] THEN tables[t[2]][key] ELSE Nil
Globals == <<"tab", 1>>

GetTable ==
    LET get(t, key, selfs) ==
            IF t[1] # "tab" THEN Raise(Message)
            ELSE /\ stack' = Placed(stack, Base + A, <<Lookup(t, key)>> \o selfs)
                 /\ Goto(1)
                 /\ UNCHANGED <<top, open, upvals, closures, tables, outcome, program>>
    IN \/ Is("GETGLOBAL") /\ get(Globals, Const(B), <<>>)
       \/ Is("GETTABLE") /\ get(R(B), RK(C), <<>>)
       \/ Is("SELF") /\ get(R(B), RK(C), <<R(B)>>)

Stored(t, key, v) ==
    IF v = Nil THEN [x \in DOMAIN t \ {key} |-> t[x]] ELSE (key :> v) @@ t

SetTable ==
    LET set(t, key, v) ==
            IF t[1] # "tab" \/ key \in {Nil, Num(NaN)} THEN Raise(Message)
            ELSE /\ tables' = [tables EXCEPT ![t[2]] = Stored(@, key, v)]
                 /\ Goto(1)
                 /\ UNCHANGED <<stack, top, open, upvals, closures, outcome, program>>
    IN \/ Is("SETGLOBAL") /\ set(Globals, Const(B), R(A))
       \/ Is("SETTABLE") /\ set(R(A), RK(B), RK(C))

NewTable ==
    /\ Is("NEWTABLE")
    /\ tables' = Append(tables, <<>>)
    /\ Set(A, <<"tab", Len(tables) + 1>>)
    /\ Goto(1)
    /\ UNCHANGED <<top, open, upvals, closures, outcome, program>>

\* Items A + 1 and on; with B = 0 all up to the top.
SetItems ==
    /\ Is("SETLIST")
    /\ LET n     == IF B = 0 THEN top - (Base + A) - 1 ELSE B
           first == (C - 1) * Flush
           item(t, i) == Stored(t, Num(first + i), R(A + i))
       IN tables' = [tables EXCEPT ![R(A)[2]] = FoldLeftDomain(item, @, Nils(n))]
    /\ top' = IF B = 0 THEN Top.top ELSE top
    /\ Goto(1)
    /\ UNCHANGED <<stack, open, upvals, closures, outcome, program>>

ArithStep ==
    LET b == IF Ins.op = "UNM" THEN R(B) ELSE RK(B)
        c == IF Ins.op = "UNM" THEN R(B) ELSE RK(C)
    IN /\ InLua /\ Ins.op \in {"ADD", "SUB", "MUL", "MOD", "POW", "UNM"}
       /\ IF b[1] # "num" \/ c[1] # "num" THEN Raise(Message)
          ELSE /\ Set(A, Num(Arith(Ins.op, b[2], c[2])))
               /\ Goto(1)
               /\ UNCHANGED <<top, open, upvals, closures, tables, outcome, program>>

\* Where the items end that are not nil.
Border(t) == CHOOSE n \in 0 .. Cardinality(DOMAIN t) :
                /\ \A i \in 1 .. n : Num(i) \in DOMAIN t
                /\ Num(n + 1) \notin DOMAIN t

Text(v) == IF v[1] = "num" THEN ToString(v[2]) ELSE v[2]

LengthOrConcat ==
    LET parts == [i \in 1 .. C - B + 1 |-> R(B + i - 1)]
        join(x, v) == x \o Text(v)
        result == IF Ins.op = "LEN"
                  THEN Num(IF R(B)[1] = "tab" THEN Border(tables[R(B)[2]]) ELSE Len(R(B)[2]))
                  ELSE <<"str", FoldLeft(join, "", parts)>>
        bad == IF Ins.op = "LEN" THEN R(B)[1] \notin {"tab", "str"}
               ELSE \E i \in DOMAIN parts : parts[i][1] \notin {"num", "str"}
    IN /\ InLua /\ Ins.op \in {"LEN", "CONCAT"}
       /\ IF bad THEN Raise(Message)
          ELSE /\ Set(A, result)
               /\ Goto(1)
               /\ UNCHANGED <<top, open, upvals, closures, tables, outcome, program>>

-----------------------------------------------------------------------------
(* Tests and loops.  A test that holds runs the jump after it. *)

JumpAfter == 2 + Proto.code[Top.pc + 2].b

Equal(x, y) == x = y /\ x # Num(NaN)
Less(x, y)  == NaN \notin {x, y} /\ x < y

Jumps ==
    /\ InLua
    /\ \/ Ins.op = "JMP" /\ Goto(1 + B) /\ UNCHANGED stack
       \/ /\ Ins.op = "TEST"
          /\ Goto(IF (R(A) \in Falsy) # (C = 1) THEN JumpAfter ELSE 2)
          /\ UNCHANGED stack
       \/ /\ Ins.op = "TESTSET"
          /\ IF (R(B) \in Falsy) # (C = 1) THEN Goto(JumpAfter) /\ Set(A, R(B))
             ELSE Goto(2) /\ UNCHANGED stack
    /\ UNCHANGED <<top, open, upvals, closures, tables, outcome, program>>

Compare ==
    LET b == RK(B)
        c == RK(C)
        holds == CASE Ins.op = "EQ" -> Equal(b, c)
                   [] Ins.op = "LT" -> Less(b[2], c[2])
                   [] Ins.op = "LE" -> Less(b[2], c[2]) \/ Equal(b, c)
    IN /\ InLua /\ Ins.op \in {"EQ", "LT", "LE"}
       /\ IF Ins.op # "EQ" /\ {b[1], c[1]} # {"num"} THEN Raise(Message)
          ELSE /\ Goto(IF holds = (A = 1) THEN JumpAfter ELSE 2)
               /\ UNCHANGED <<stack, top, open, upvals, closures, tables, outcome, program>>

ForPrep ==
    /\ Is("FORPREP")
    /\ IF \E i \in 0 .. 2 : R(A + i)[1] # "num" THEN Raise(Message)
       ELSE /\ Set(A, Num(Arith("SUB", R(A)[2], R(A + 2)[2])))
            /\ Goto(1 + B)
            /\ UNCHANGED <<top, open, upvals, closures, tables, outcome, program>>

ForLoop ==
    /\ Is("FORLOOP")
    /\ LET step  == R(A + 2)[2]
           index == Arith("ADD", R(A)[2], step)
           limit == R(A + 1)[2]
           upto(x, y) == Less(x, y) \/ Equal(Num(x), Num(y))
       IN IF IF Less(0, step) THEN upto(index, limit) ELSE upto(limit, index)
          THEN /\ stack' = [stack EXCEPT ![Base + A] = Num(index), ![Base + A + 3] = Num(index)]
               /\ Goto(1 + B)
          ELSE Goto(1) /\ UNCHANGED stack
    /\ UNCHANGED <<top, open, upvals, closures, tables, outcome, program>>

\* The iterator is called on copies of the three hidden locals ...
TForCall ==
    /\ Is("TFORLOOP")
    /\ IF R(A)[1] \notin {"fun", "host"} THEN Raise(Message)
       ELSE LET at == Base + A + 3
                s  == Placed(stack, at, <<R(A), R(A + 1), R(A + 2)>>)
                fs == [frames EXCEPT ![1].mid = "for"]
            IN /\ IF R(A)[1] = "fun"
                  THEN /\ stack' = StackOf(s, at, at + 3)
                       /\ frames' = <<FrameOf(s, at, at + 3, C)>> \o fs
                       /\ top' = FrameOf(s, at, at + 3, C).top
                  ELSE /\ stack' = s
                       /\ frames' = <<Frame(at, at + 1, at + 3, C, 0, R(A)[2])>> \o fs
                       /\ top' = at + 3
               /\ UNCHANGED <<open, upvals, closures, tables, outcome, program>>

\* ... and the loop goes on with what it returned.
TForResult ==
    /\ outcome = Running /\ Top.mid = "for"
    /\ LET more == R(A + 3) # Nil
       IN /\ stack' = IF more THEN [stack EXCEPT ![Base + A + 2] = R(A + 3)] ELSE stack
          /\ frames' = [frames EXCEPT ![1].mid = "", ![1].pc = @ + IF more THEN JumpAfter ELSE 2]
    /\ top' = Top.top
    /\ UNCHANGED <<open, upvals, closures, tables, outcome, program>>

-----------------------------------------------------------------------------
(* Functions. *)

CallTop == IF B # 0 THEN Base + A + B ELSE top

Call ==
    /\ Is("CALL")
    /\ Precall([frames EXCEPT ![1].pc = @ + 1], Base + A, CallTop, C - 1)

\* A Lua function called last takes the place of its caller.
TailCall ==
    /\ Is("TAILCALL")
    /\ IF R(A)[1] # "fun" THEN Precall([frames EXCEPT ![1].pc = @ + 1], Base + A, CallTop, -1)
       ELSE LET at   == Base + A
                new  == FrameOf(stack, at, CallTop, -1)
                s    == StackOf(stack, at, CallTop)
                moved == [i \in DOMAIN s |-> IF i \in Top.at .. Top.at + (new.top - at) - 1
                                             THEN s[at + i - Top.at] ELSE s[i]]
                limit == Top.at + (new.top - at)
            IN /\ stack' = moved
               /\ CloseFrom(Base)
               /\ top' = limit
               /\ frames' = <<[new EXCEPT !.at = Top.at, !.base = Top.at + (new.base - at),
                                          !.top = limit, !.nresults = Top.nresults]>>
                            \o Tail(frames)
               /\ UNCHANGED <<closures, tables, outcome, program>>

Return ==
    /\ Is("RETURN")
    /\ Poscall(stack, Between(Base + A, IF B # 0 THEN Base + A + B - 1 ELSE top))
    /\ CloseFrom(Base)
    /\ UNCHANGED <<closures, tables, program>>

Close ==
    /\ Is("CLOSE")
    /\ CloseFrom(Base + A)
    /\ Goto(1)
    /\ UNCHANGED <<stack, top, closures, tables, outcome, program>>

FindUpval_First(ups, level) ==
    LET new == Len(ups.upvals) + 1
    IN [open |-> <<new>> \o ups.open, upvals |-> Append(ups.upvals, [at |-> level, v |-> Nil]),
        found |-> Append(ups.found, new)]

\* luaF_findupval, for one place of the stack after the other.
FindUpval(ups, level) ==
    LET below == SelectInSeq(ups.open, LAMBDA u : ups.upvals[u].at <= level)
        at    == IF below = 0 THEN Len(ups.open) + 1 ELSE below
        new   == Len(ups.upvals) + 1
    IN IF below # 0 /\ ups.upvals[ups.open[below]].at = level
       THEN [ups EXCEPT !.found = Append(@, ups.open[below])]
       ELSE [open |-> InsertAt(ups.open, at, new),
             upvals |-> Append(ups.upvals, [at |-> level, v |-> Nil]),
             found |-> Append(ups.found, new)]

MakeClosure ==
    /\ Is("CLOSURE")
    /\ LET p == Proto.p[B + 1]
           capture(ups, i) ==
               LET from == Proto.code[Top.pc + 1 + i]
               IN IF from.op = "GETUPVAL"
                  THEN [ups EXCEPT !.found = Append(@, closures[Top.func].upvals[from.b + 1])]
                  ELSE FindUpval(ups, Base + from.b)
           ups == FoldLeftDomain(capture, [open |-> open, upvals |-> upvals, found |-> <<>>],
                                 Nils(p.nups))
       IN /\ closures' = Append(closures, [proto |-> p, upvals |-> ups.found])
          /\ open' = ups.open
          /\ upvals' = ups.upvals
          /\ Set(A, <<"fun", Len(closures) + 1>>)
          /\ Goto(1 + p.nups)
    /\ UNCHANGED <<top, tables, outcome, program>>

\* The extra arguments lie between the function and its frame.
VarArg ==
    /\ Is("VARARG")
    /\ LET n == Base - Top.at - Proto.numparams - 1
           b == IF B = 0 THEN n ELSE B - 1
           extra(j) == IF j <= n THEN stack[Base - n + j - 1] ELSE Nil
       IN /\ stack' = Placed(stack, Base + A, [j \in 1 .. b |-> extra(j)])
          /\ top' = IF B = 0 THEN Base + A + n ELSE top
    /\ Goto(1)
    /\ UNCHANGED <<open, upvals, closures, tables, outcome, program>>

-----------------------------------------------------------------------------
(* Functions of the library: luaB_error, luaB_pcall, luaB_ipairs, ipairsaux. *)

Arg(n)   == IF Base + n - 1 < top THEN stack[Base + n - 1] ELSE Nil
InHost(f, mid) == outcome = Running /\ Top.host = f /\ Top.mid = mid

HostReturn(results) ==
    Poscall(stack, results) /\ UNCHANGED <<open, upvals, closures, tables, program>>

\* A text gets the place of the error in front.
ErrorCalled ==
    /\ InHost("error", "")
    /\ Raise(IF Arg(1)[1] \in {"str", "num"} THEN Message ELSE Arg(1))

PCall ==
    /\ InHost("pcall", "")
    /\ IF top = Base THEN Raise(Message)
       ELSE IF stack[Base][1] \in {"fun", "host"}
       THEN Precall([frames EXCEPT ![1].mid = "called"], Base, top, -1)
       ELSE \* what it calls is no function: the error is its own to catch
            /\ stack' = [stack EXCEPT ![Base] = Message]
            /\ top' = Base + 1
            /\ frames' = [frames EXCEPT ![1].mid = "failed"]
            /\ UNCHANGED <<open, upvals, closures, tables, outcome, program>>

PCallReturned ==
    \E mid \in {"called", "failed"} :
        /\ InHost("pcall", mid)
        /\ HostReturn(<<Bool(mid = "called")>> \o Between(Base, top))

IPairs ==
    /\ InHost("ipairs", "")
    /\ IF Arg(1)[1] # "tab" THEN Raise(Message)
       ELSE HostReturn(<<Host("ipairsaux"), Arg(1), Num(0)>>)

IPairsAux ==
    /\ InHost("ipairsaux", "")
    /\ LET i == Num(Arg(2)[2] + 1)
           v == Lookup(Arg(1), i)
       IN HostReturn(IF v = Nil THEN <<>> ELSE <<i, v>>)

-----------------------------------------------------------------------------
Init ==
    /\ program \in Programs
    /\ stack = [i \in 0 .. StackSize - 1 |-> Nil]
    /\ top = 0
    /\ frames = <<>>
    /\ open = <<>>
    /\ upvals = <<>>
    /\ closures = <<>>
    /\ tables = <<Library>>
    /\ outcome = Loading

\* f_parser compiles the program, lua_call calls it: see lua_pcall in main.
Load ==
    /\ outcome = Loading
    /\ LET parsed == Compiled[program]
           proto  == CloseFunc(parsed)
       IN IF Tok(parsed) # "eos"
          THEN outcome' = Refused /\ UNCHANGED <<state, program>>
          ELSE /\ closures' = <<[proto |-> proto, upvals |-> <<>>]>>
               /\ stack' = [stack EXCEPT ![0] = <<"fun", 1>>]
               /\ frames' = <<Frame(0, 1, 1 + proto.maxstack, -1, 1, "")>>
               /\ top' = 1 + proto.maxstack
               /\ outcome' = Running
               /\ UNCHANGED <<open, upvals, tables, program>>

Ended == outcome \notin {Loading, Running}

Stay == Ended /\ UNCHANGED vars

Next ==
    \/ Load \/ Loads \/ SetUpval \/ GetTable \/ SetTable \/ NewTable \/ SetItems
    \/ ArithStep \/ LengthOrConcat \/ Jumps \/ Compare
    \/ ForPrep \/ ForLoop \/ TForCall \/ TForResult
    \/ Call \/ TailCall \/ Return \/ Close \/ MakeClosure \/ VarArg
    \/ ErrorCalled \/ PCall \/ PCallReturned \/ IPairs \/ IPairsAux
    \/ Stay

\* The thread goes on until the program ends.  A step is enabled in every other
\* state, so that this is the weak fairness of Next.
Fairness == []<>Ended \/ []<><<TRUE>>_vars

Spec == Init /\ [][Next]_vars /\ Fairness
=============================================================================
