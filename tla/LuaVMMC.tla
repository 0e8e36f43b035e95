------------------------------ MODULE LuaVMMC ------------------------------
(***************************************************************************)
(* LuaVM on two families of programs: every expression up to a depth in    *)
(* several contexts, and a list of programs about one feature each.        *)
(***************************************************************************)
EXTENDS LuaVM

CONSTANT Meanings    \* the outcome each program should have

M == INSTANCE LuaMeaning

-----------------------------------------------------------------------------
(* Trees, shortly. *)

V(n)        == <<"name", n>>
I(n)        == <<"num", n>>
S(s)        == <<"str", s>>
NilE        == <<"nil">>
TrueE       == <<"true">>
FalseE      == <<"false">>
Dots        == <<"...">>
Bin(a, op, b) == <<"bin", op, a, b>>
Un(op, a)   == <<"un", op, a>>
Fn(ps, b)   == <<"function", ps, FALSE, b>>
VarFn(ps, b) == <<"function", ps, TRUE, b>>
App(f, es)  == <<"call", f, es>>
Idx(t, k)   == <<"index", t, k>>
Table(items) == <<"table", items>>
Item(e)     == <<"item", e>>
Pair(k, e)  == <<"pair", k, e>>
Let(n, e)   == <<"local", <<n>>, <<e>>>>
Lets(ns, es) == <<"local", ns, es>>
To(t, e)    == <<"assign", <<t>>, <<e>>>>
Tos(ts, es) == <<"assign", ts, es>>
Do(e)       == <<"callst", e>>
While(e, b) == <<"while", e, b>>
Until(b, e) == <<"repeat", b, e>>
If(e, b)    == <<"if", <<<<e, b>>>>, <<>>>>
IfElse(e, b, c) == <<"if", <<<<e, b>>>>, c>>
For(n, a, z, b) == <<"fornum", n, a, z, <<>>, b>>
Each(ns, es, b) == <<"forin", ns, es, b>>
Back(es)    == <<"return", es>>
Break       == <<"break">>
F0(b)       == Fn(<<>>, b)
Put(t, i, e) == To(Idx(V(t), I(i)), e)
At1(t, i)   == Idx(V(t), I(i))
Call1(t, i) == App(At1(t, i), <<>>)
PCallE(b)   == App(V("pcall"), <<F0(b)>>)

Inc(n, e)   == To(V(n), Bin(V(n), "+", e))
Counter(n)  == F0(<<Inc(n, I(1)), Back(<<V(n)>>)>>)
Recur(n, b) == <<"localfunction", n, b>>
IfDone(e)   == If(e, <<Break>>)
Append1(t, e) == To(Idx(V(t), Bin(Un("#", V(t)), "+", I(1))), e)
Nan         == Bin(V("one"), "%", V("zero"))

Catalogue == <<
    \* closures made in a loop have variables of their own
    << Let("t", Table(<<>>)),
       For("i", I(1), I(2), << Let("j", Bin(V("i"), "*", I(2))),
                               To(Idx(V("t"), V("i")),
                                  F0(<<Inc("j", V("i")), Back(<<V("j")>>)>>)) >>),
       Back(<<Call1("t", 1), Call1("t", 1), Call1("t", 2)>>) >>,
    \* two closures share a variable, after the function that had it returned
    << Let("f", F0(<< Let("x", I(1)),
                      Back(<<F0(<<Inc("x", I(1))>>), F0(<<Back(<<V("x")>>)>>)>>) >>)),
       Lets(<<"up", "get">>, <<App(V("f"), <<>>)>>),
       Do(App(V("up"), <<>>)), Do(App(V("up"), <<>>)), Back(<<App(V("get"), <<>>)>>) >>,
    \* a loop left by a break whose block has a captured local
    << Let("t", Table(<<>>)), Let("n", I(0)),
       While(TrueE, << Let("x", V("n")), Append1("t", Counter("x")), Inc("n", I(1)),
                       IfDone(Bin(V("n"), "==", I(2))) >>),
       Let("y", I(7)),
       Back(<<Call1("t", 1), Call1("t", 1), Call1("t", 2), V("y")>>) >>,
    \* the condition of a repeat sees, and captures, the locals of the block
    << Let("t", Table(<<>>)), Let("n", I(0)),
       Until(<< Let("x", V("n")), Append1("t", Counter("x")), Inc("n", I(1)) >>,
             Bin(App(F0(<<Back(<<V("x")>>)>>), <<>>), "==", I(1))),
       Back(<<Call1("t", 1), Call1("t", 2), Un("#", V("t"))>>) >>,
    \* a repeat without captured locals, left by its condition or by a break
    << Let("n", I(0)),
       Until(<< Let("x", Bin(V("n"), "*", V("n"))), Inc("n", I(1)),
                IfDone(Bin(V("x"), ">", I(3))) >>, Bin(V("x"), "==", I(100))),
       Until(<< Let("x", V("n")), Inc("n", I(1)) >>, Bin(V("x"), ">=", I(4))),
       Back(<<V("n")>>) >>,
    \* targets that use a local that is assigned to
    << Let("a", Table(<<Item(I(1)), Item(I(2)), Item(I(3))>>)), Let("b", V("a")), Let("i", I(1)),
       Tos(<<Idx(V("a"), V("i")), V("i"), V("a")>>, <<I(10), I(2), NilE>>),
       Back(<<At1("b", 1), At1("b", 2), V("i"), V("a")>>) >>,
    \* locals are swapped; more values than targets, and fewer
    << Lets(<<"a", "b">>, <<I(1), I(2)>>),
       Tos(<<V("a"), V("b")>>, <<V("b"), V("a")>>),
       Lets(<<"c", "d", "e">>, <<I(3)>>), Lets(<<"f">>, <<I(4), I(5)>>),
       Tos(<<V("g"), V("h")>>, <<I(6), I(7), I(8)>>), Tos(<<V("h"), V("e")>>, <<V("a")>>),
       Back(<<V("a"), V("b"), V("c"), V("d"), V("e"), V("f"), V("g"), V("h")>>) >>,
    \* all the values of a call and of ..., one when in parentheses or not last
    << Let("f", VarFn(<<"x">>, <<Back(<<Dots, V("x")>>)>>)),
       Let("g", VarFn(<<"x">>, <<Back(<<V("x"), Dots>>)>>)),
       Let("t", Table(<<Item(App(V("g"), <<I(1), I(2)>>)), Item(App(V("g"), <<I(3), I(4), I(5)>>))>>)),
       Lets(<<"a", "b", "c">>, <<App(V("f"), <<I(1), I(2), I(3)>>)>>),
       Back(<<Un("#", V("t")), At1("t", 4), V("a"), V("b"), V("c"),
              <<"paren", App(V("g"), <<I(8), I(9)>>)>>, App(V("g"), <<I(6), App(V("g"), <<I(7), NilE>>)>>)>>) >>,
    \* ... in tables, lists and assignments
    << Let("f", VarFn(<<>>, << Lets(<<"a", "b">>, <<Dots>>), Let("t", Table(<<Item(Dots), Item(Dots)>>)),
                               Tos(<<V("p"), V("q"), V("r")>>, <<Dots>>),
                               Back(<<V("a"), V("b"), Un("#", V("t")), V("q"), V("r"), Dots>>) >>)),
       Back(<<App(V("f"), <<I(1), I(2)>>)>>) >>,
    \* a parameter that gets no argument, and an argument that finds no parameter
    << Let("f", Fn(<<"a", "b">>, <<Let("c", NilE), Back(<<V("c"), V("b"), V("a")>>)>>)),
       Let("g", VarFn(<<"a", "b">>, <<Let("c", NilE), Back(<<V("c"), V("b"), V("a"), Dots>>)>>)),
       Let("t", Table(<<Item(App(V("f"), <<I(1)>>)), Item(I(4))>>)),
       Lets(<<"u", "v", "w">>, <<App(V("f"), <<I(1), I(2), I(3)>>)>>),
       Lets(<<"x", "y", "z">>, <<App(V("g"), <<I(1)>>)>>),
       Back(<<At1("t", 1), V("u"), V("v"), V("w"), V("x"), V("y"), V("z"),
              App(V("g"), <<I(1), I(2), I(3), I(4)>>)>>) >>,
    \* functions called last: recursion, a captured parameter, other numbers of arguments
    << Recur("loop", Fn(<<"n", "acc">>, << If(Bin(V("n"), "==", I(0)), <<Back(<<V("acc"), V("n")>>)>>),
                        Back(<<App(V("loop"), <<Bin(V("n"), "-", I(1)), Bin(V("acc"), "+", V("n"))>>)>>) >>)),
       Back(<<App(V("loop"), <<I(3), I(0)>>)>>) >>,
    << Let("g", VarFn(<<"f">>, <<Let("x", I(9)), Back(<<App(V("f"), <<>>), Dots, V("x")>>)>>)),
       Let("h", Fn(<<"x">>, <<Back(<<App(V("g"), <<Counter("x"), V("x"), I(5)>>)>>)>>)),
       Back(<<App(V("h"), <<I(2)>>)>>) >>,
    \* a function called last in pcall, and a host function called last
    << Let("f", Fn(<<"x">>, <<Back(<<App(V("pcall"), <<V("error"), V("x")>>)>>)>>)),
       Back(<<App(V("pcall"), <<V("f"), TrueE>>)>>) >>,
    \* an error leaves a function whose local was captured
    << Let("get", NilE),
       Let("f", F0(<< Let("x", I(1)), To(V("get"), Counter("x")), Inc("x", I(5)),
                      Do(App(V("error"), <<TrueE>>)) >>)),
       Lets(<<"ok", "e">>, <<App(V("pcall"), <<V("f")>>)>>), Let("y", I(3)), Let("z", I(4)),
       Back(<<V("ok"), V("e"), App(V("get"), <<>>), App(V("get"), <<>>), V("y"), V("z")>>) >>,
    \* an error passes through a loop, an iterator and a tail call
    << Let("f", Fn(<<"s", "c">>, << If(Bin(V("c"), "==", I(2)), <<Do(App(V("error"), <<FalseE>>))>>),
                                    Back(<<Bin(V("c"), "+", I(1))>>) >>)),
       Let("n", I(0)),
       Let("g", F0(<<Each(<<"i">>, <<V("f"), NilE, I(0)>>, <<Inc("n", V("i"))>>)>>)),
       Lets(<<"ok", "e">>, <<App(V("pcall"), <<F0(<<Back(<<App(V("g"), <<>>)>>)>>)>>)>>),
       Back(<<V("ok"), V("e"), V("n")>>) >>,
    \* errors inside errors, and none
    << Let("f", F0(<< Lets(<<"a", "b">>, <<PCallE(<<Back(<<I(1), I(2)>>)>>)>>),
                      Lets(<<"c", "d">>, <<PCallE(<<Do(App(V("error"), <<V("b")>>))>>)>>),
                      Do(App(V("error"), <<Table(<<Item(V("a")), Item(V("c"))>>)>>)) >>)),
       Lets(<<"ok", "t">>, <<App(V("pcall"), <<V("f")>>)>>),
       Back(<<V("ok"), At1("t", 1), At1("t", 2), App(V("pcall"), <<V("pcall")>>),
              App(V("pcall"), <<V("nothing")>>)>>) >>,
    \* every type error
    << Let("t", Table(<<>>)), Let("n", I(0)), Lets(<<"one", "zero">>, <<I(1), I(0)>>),
       Let("try", Fn(<<"f">>, <<If(Un("not", App(V("pcall"), <<V("f")>>)), <<Inc("n", I(1))>>)>>)),
       Do(App(V("try"), <<F0(<<Back(<<Bin(V("t"), "+", I(1))>>)>>)>>)),
       Do(App(V("try"), <<F0(<<Back(<<Bin(V("t"), "<", I(1))>>)>>)>>)),
       Do(App(V("try"), <<F0(<<Back(<<Bin(V("n"), "..", V("t"))>>)>>)>>)),
       Do(App(V("try"), <<F0(<<Back(<<Un("#", V("n"))>>)>>)>>)),
       Do(App(V("try"), <<F0(<<Back(<<Un("-", V("t"))>>)>>)>>)),
       Do(App(V("try"), <<F0(<<Back(<<Idx(V("n"), V("n"))>>)>>)>>)),
       Do(App(V("try"), <<F0(<<To(Idx(V("n"), I(1)), I(1))>>)>>)),
       Do(App(V("try"), <<F0(<<To(Idx(V("t"), NilE), I(1))>>)>>)),
       Do(App(V("try"), <<F0(<<To(Idx(V("t"), Nan), I(1))>>)>>)),
       Do(App(V("try"), <<F0(<<Do(App(V("n"), <<>>))>>)>>)),
       Do(App(V("try"), <<F0(<<Back(<<App(V("n"), <<>>)>>)>>)>>)),
       Do(App(V("try"), <<F0(<<For("i", V("t"), I(1), <<>>)>>)>>)),
       Do(App(V("try"), <<F0(<<Each(<<"i">>, <<V("t")>>, <<>>)>>)>>)),
       Do(App(V("try"), <<F0(<<Do(App(V("ipairs"), <<>>))>>)>>)),
       Back(<<V("n"), Bin(Nan, "==", Nan), Bin(Nan, "~=", Nan), Un("#", V("t"))>>) >>,
    \* an error nothing catches
    << Let("f", F0(<<Do(App(V("error"), <<I(1)>>))>>)), Do(App(V("f"), <<>>)), Back(<<I(2)>>) >>,
    \* iteration over a table, and by a closure
    << Let("n", I(0)), Let("t", Table(<<Item(I(3)), Item(I(5)), Pair(S("x"), I(9))>>)),
       Each(<<"i", "v">>, <<App(V("ipairs"), <<V("t")>>)>>, <<Inc("n", Bin(V("i"), "*", V("v")))>>),
       Let("from", Fn(<<"k">>, <<Back(<<F0(<< Inc("k", I(1)),
                       If(Bin(V("k"), "<", I(4)), <<Back(<<V("k"), Bin(V("k"), "*", V("k"))>>)>>) >>)>>)>>)),
       Each(<<"i", "v", "w">>, <<App(V("from"), <<I(1)>>)>>,
            <<Inc("n", V("v")), IfDone(V("w"))>>),
       Back(<<V("n")>>) >>,
    \* the counter of a loop is a copy, and its step may be negative
    << Let("n", I(0)),
       For("i", I(1), I(3), <<Inc("n", V("i")), To(V("i"), I(10))>>),
       <<"fornum", "i", I(3), I(1), Un("-", I(1)), <<Inc("n", I(100)), IfDone(Bin(V("i"), "==", I(2)))>>>>,
       <<"fornum", "i", I(1), I(0), I(1), <<Inc("n", I(1000))>>>>,
       Back(<<V("n")>>) >>,
    \* a local hides another, and a block gives its registers back
    << Let("x", I(1)), <<"do", <<Let("x", Bin(V("x"), "+", I(1))), Let("y", V("x")), To(V("g"), V("y"))>>>>,
       Let("y", NilE), Let("x", Bin(V("x"), "+", I(4))), Back(<<V("x"), V("y"), V("g")>>) >>,
    \* a block whose local is captured, in the middle of a function
    << Let("f", NilE),
       <<"do", <<Let("x", I(1)), To(V("f"), Counter("x")), Inc("x", I(1))>>>>,
       Let("y", I(8)), Do(App(V("f"), <<>>)), Back(<<App(V("f"), <<>>), V("y")>>) >>,
    \* a variable of the function around the function around
    << Let("x", I(1)),
       Let("f", F0(<< Let("y", I(2)),
                      Back(<<F0(<< Inc("x", V("y")), Inc("y", I(1)),
                                   Back(<<F0(<<Back(<<Bin(V("x"), "*", V("y"))>>)>>)>>) >>)>>) >>)),
       Let("g", App(V("f"), <<>>)), Let("h", App(V("g"), <<>>)), Do(App(V("g"), <<>>)),
       Back(<<V("x"), App(V("h"), <<>>)>>) >>,
    \* functions in tables, methods, and functions that call one another
    << Let("t", Table(<<Pair(S("n"), I(1)), Pair(S("u"), Table(<<>>))>>)),
       <<"functionst", "t", <<>>, "add", Fn(<<"k">>, << To(Idx(V("self"), S("n")),
                         Bin(Idx(V("self"), S("n")), "+", V("k"))), Back(<<V("self")>>) >>)>>,
       <<"functionst", "t", <<"u", "get">>, "", Fn(<<"s">>, <<Back(<<Idx(V("s"), S("n"))>>)>>)>>,
       <<"functionst", "even", <<>>, "", Fn(<<"n">>, << If(Bin(V("n"), "==", I(0)), <<Back(<<TrueE>>)>>),
                                                  Back(<<App(V("odd"), <<Bin(V("n"), "-", I(1))>>)>>) >>)>>,
       <<"functionst", "odd", <<>>, "", Fn(<<"n">>, << If(Bin(V("n"), "==", I(0)), <<Back(<<FalseE>>)>>),
                                                 Back(<<App(V("even"), <<Bin(V("n"), "-", I(1))>>)>>) >>)>>,
       Do(<<"method", V("t"), "add", <<I(4)>>>>),
       Back(<<App(Idx(Idx(V("t"), S("u")), S("get")), <<<<"method", V("t"), "add", <<I(2)>>>>>>),
              App(V("even"), <<I(3)>>)>>) >>,
    \* items of a table around the number stored at once, and keys of every kind
    << Let("k", S("z")), Let("v", FalseE),
       Let("t", Table(<<Item(I(1)), Pair(V("k"), I(5)), Item(I(2)), Item(I(3)), Pair(I(20), I(7)),
                        Pair(TrueE, S("yes")), Pair(V("v"), NilE), Item(I(4)), Item(V("k"))>>)),
       Back(<<Un("#", V("t")), At1("t", 2), At1("t", 5), Idx(V("t"), S("z")), Idx(V("t"), TrueE),
              Idx(V("t"), FalseE)>>) >>,
    \* tables in tables, with calls among the items
    << Let("f", F0(<<Back(<<I(1), I(2), I(3)>>)>>)),
       Let("t", Table(<<Item(Table(<<Item(App(V("f"), <<>>)), Item(App(V("f"), <<>>))>>)),
                        Pair(S("p"), App(V("f"), <<>>)), Item(Table(<<Item(App(V("f"), <<>>))>>))>>)),
       Back(<<Un("#", At1("t", 1)), Idx(At1("t", 1), I(4)), Idx(V("t"), S("p")), Un("#", At1("t", 2))>>) >>,
    \* many constants: those that do not fit an operand are loaded
    << Let("a", Bin(V("w"), "==", S("p"))), Let("b", Bin(V("a"), "~=", NilE)), Let("t", Table(<<>>)),
       To(Idx(V("t"), S("q")), S("r")), To(V("w"), Bin(Bin(I(3), "-", I(5)), "*", I(7))),
       Back(<<V("a"), V("b"), Idx(V("t"), S("q")), V("w"),
              Bin(V("b"), "and", S("s"))>>) >>,
    \* texts are joined from the right, numbers among them
    << Let("a", S("a")), Let("t", Table(<<Item(S("x"))>>)),
       Back(<<Bin(V("a"), "..", Bin(I(1), "..", Bin(At1("t", 1), "..", S("b")))),
              Bin(Bin(V("a"), "..", V("a")), "..", Bin(V("a"), "..", S(""))), Un("#", Bin(V("a"), "..", I(12)))>>) >>,
    \* if, elseif, else, one in the other
    << Let("f", Fn(<<"n">>, << Let("r", I(0)),
            <<"if", << <<Bin(V("n"), "<", I(1)), <<To(V("r"), I(1))>>>>,
                       <<Bin(V("n"), "==", I(1)), <<IfElse(V("g"), <<To(V("r"), I(2))>>, <<To(V("r"), I(3))>>)>>>>,
                       <<Bin(V("n"), "<=", I(2)), <<Back(<<I(4)>>)>>>> >>, <<To(V("r"), I(5))>> >>,
            Back(<<V("r")>>) >>)),
       Back(<<App(V("f"), <<I(0)>>), App(V("f"), <<I(1)>>), App(V("f"), <<I(2)>>), App(V("f"), <<I(3)>>)>>) >>,
    \* a loop in a loop, with breaks out of each
    << Let("n", I(0)), Let("i", I(0)),
       While(Bin(V("i"), "<", I(3)),
             << Inc("i", I(1)), Let("j", I(0)),
                While(TrueE, << Inc("j", I(1)), IfDone(Bin(V("j"), ">", V("i"))), Inc("n", V("j")) >>),
                IfElse(Bin(V("i"), "==", I(2)), <<Break>>, <<Inc("n", I(10))>>) >>),
       Back(<<V("n"), V("i")>>) >>,
    \* a captured counter, a break, and a local after the loop
    << Let("t", Table(<<>>)),
       For("i", I(1), I(3), << Append1("t", Counter("i")), IfDone(Bin(V("i"), "==", I(2))), Let("k", V("i")) >>),
       Let("x", I(4)), Let("y", I(5)),
       Back(<<Call1("t", 1), Call1("t", 2), Call1("t", 2), V("x"), V("y")>>) >>,
    \* a nil that only one of two ways sets, and one that both need
    << Lets(<<"y", "x">>, <<FalseE, I(1)>>), <<"do", <<Let("a", I(5))>>>>,
       If(V("y"), <<To(V("x"), NilE)>>), Let("b", NilE), Back(<<V("x"), V("b")>>) >>,
    \* a function stored in a local of its own name is not the local
    << Let("f", I(1)), Let("g", F0(<<Back(<<V("f")>>)>>)), Recur("f", F0(<<Back(<<V("f")>>)>>)),
       Back(<<App(V("g"), <<>>), Bin(App(V("f"), <<>>), "==", V("f"))>>) >>,
    \* unary and power
    << Let("x", I(2)),
       Back(<<Un("-", Bin(V("x"), "^", I(2))), Bin(Un("-", V("x")), "^", I(2)), Bin(V("x"), "^", Bin(V("x"), "^", I(3))),
              Bin(Bin(V("x"), "^", V("x")), "^", I(3)), Bin(Un("-", I(3)), "%", V("x")), Un("-", Un("-", V("x"))),
              Un("not", Un("not", V("x"))), Un("-", Un("#", S("abc")))>>) >>
>>

\* Programs the parser must refuse.
Malformed == <<
    <<Break>>,
    <<While(V("x"), <<Let("f", F0(<<Break>>))>>)>>,
    <<Let("f", F0(<<Back(<<Dots>>)>>))>>,
    <<Tos(<<V("a"), App(V("f"), <<>>)>>, <<I(1)>>)>>,
    <<Tos(<<<<"paren", V("a")>>>>, <<I(1)>>)>>,
    <<Back(<<I(1)>>), Back(<<I(2)>>)>>
>>

\* Every condition of two operators deep, wherever the compiler treats it in a
\* way of its own: x is nil and y is 1.
Leaves    == {V("x"), V("y"), TrueE}
Over(as, ops, bs) == {Bin(a, op, b) : a \in as, op \in ops, b \in bs}
Short     == Leaves \cup {Un("not", a) : a \in Leaves}
             \cup Over(Leaves, {"and", "or"}, Leaves) \cup Over({V("x")}, {"=="}, Leaves)
Conditions == Over(Short, {"and", "or"}, Short) \cup Over(Short, {"=="}, Leaves)
              \cup {Un("not", a) : a \in Short}

Contexts == {"returned", "assigned", "chosen", "looped", "stored"}

InContext(c, e) ==
    <<Lets(<<"x", "y">>, <<NilE, I(1)>>)>> \o
    CASE c = "returned" -> <<Back(<<e>>)>>
      [] c = "assigned" -> <<To(V("y"), e), Back(<<V("x"), V("y")>>)>>
      [] c = "chosen"   -> <<IfElse(e, <<Back(<<I(1)>>)>>, <<Back(<<I(2)>>)>>)>>
      [] c = "looped"   -> <<While(e, <<Tos(<<V("x"), V("y")>>, <<V("y"), NilE>>), If(V("g"), <<Break>>),
                                        To(V("g"), TrueE)>>), Back(<<V("x"), V("g")>>)>>
      [] c = "stored"   -> <<Let("t", Table(<<Item(e), Item(I(3))>>)), To(V("x"), Table(<<>>)),
                             To(Idx(V("x"), I(1)), e), Back(<<At1("t", 1), At1("t", 2), At1("x", 1)>>)>>

Numbers == {<<"listed", i>> : i \in DOMAIN Catalogue} \cup {<<"malformed", i>> : i \in DOMAIN Malformed}
           \cup {<<c, e>> : c \in Contexts, e \in Conditions}

Tree(p) == CASE p[1] = "listed" -> Catalogue[p[2]]
             [] p[1] = "malformed" -> Malformed[p[2]]
             [] OTHER -> InContext(p[1], p[2])

\* Found once for all the programs, as the values of Compiled and Meanings.
CompiledAll == LET code(p) == Parser(M!Tokens(Tree(p))) IN [p \in Numbers |-> code(p)]
MeaningsAll == [p \in Numbers |-> IF p[1] = "malformed" THEN Refused ELSE M!Meaning(Tree(p))]

-----------------------------------------------------------------------------
(* Properties. *)

\* Whatever jumps, registers and upvalues the one-pass compiler chose, a program
\* ends, and as the tree it was written from says, errors included; a text that
\* is no program is refused (luaY_parser, luaV_execute).
MeansWhatItSays == <>(Ended /\ outcome = Meanings[program])

\* The highest register an instruction uses, and the operands that may be
\* constants.
Highest(i) ==
    LET max(x, y) == IF x > y THEN x ELSE y
    IN CASE i.op \in {"MOVE", "LOADNIL", "GETTABLE", "UNM", "NOT", "LEN", "TESTSET"} -> max(i.a, i.b)
         [] i.op = "SELF"   -> max(i.a + 1, i.b)
         [] i.op = "CONCAT" -> max(i.a, i.c)
         [] i.op = "CALL"   -> max(i.a, i.a + max(i.b - 1, i.c - 2))
         [] i.op \in {"TAILCALL", "SETLIST"} -> max(i.a, i.a + i.b - (IF i.op = "SETLIST" THEN 0 ELSE 1))
         [] i.op \in {"RETURN", "VARARG"} -> i.a + max(i.b - 2, 0)
         [] i.op \in {"FORPREP", "FORLOOP"} -> i.a + 3
         [] i.op = "TFORLOOP" -> i.a + max(5, 2 + i.c)
         [] i.op \in {"JMP", "EQ", "LT", "LE"} -> 0
         [] OTHER -> i.a

Operands(i) ==
    CASE i.op \in {"GETTABLE", "SELF"} -> {i.c}
      [] i.op \in {"ADD", "SUB", "MUL", "MOD", "POW", "SETTABLE", "EQ", "LT", "LE"} -> {i.b, i.c}
      [] OTHER -> {}

InstructionOK(p, pc) ==
    LET i == At(p.code, pc)
        target == pc + 1 + i.b
    IN /\ Highest(i) < p.maxstack \/ (i.op = "RETURN" /\ i.b \in {0, 1})
       /\ \A x \in Operands(i) : IF x >= K THEN x - K < Len(p.k) ELSE x < p.maxstack
       /\ i.op \in {"LOADK", "GETGLOBAL", "SETGLOBAL"} => i.b < Len(p.k)
       /\ i.op \in {"GETUPVAL", "SETUPVAL"} => i.b < p.nups
       /\ i.op = "CLOSURE" => i.b < Len(p.p)
       /\ i.op \in {"JMP", "FORPREP", "FORLOOP"} => target \in 0 .. Len(p.code) - 1
       /\ i.op \in TestOps => At(p.code, pc + 1).op = "JMP"
       /\ i.op = "LOADBOOL" /\ i.c = 1 => pc + 2 < Len(p.code)

RECURSIVE CodeOK(_)
CodeOK(p) ==
    /\ \A pc \in 0 .. Len(p.code) - 1 : InstructionOK(p, pc)
    /\ p.code[Len(p.code)].op = "RETURN"
    /\ \A i \in DOMAIN p.p : CodeOK(p.p[i])

\* The code of a function keeps to the registers luaD_precall makes room for, to
\* its constants, upvalues and functions; no jump list is left unpatched and no
\* TESTSET without its register (luaK_checkstack, patchlistaux, dischargejpc).
CodeSound == outcome = Running /\ Len(frames) = 1 /\ Top.pc = 0 => CodeOK(Proto)

\* The list of open upvalues is in the order of the stack, without two for one
\* place; they are in frames that still run; every other upvalue is closed: the
\* early ends of the loops in luaF_findupval and luaF_close miss none.
UpvaluesOpen ==
    /\ \A i, j \in DOMAIN open : i < j => upvals[open[i]].at > upvals[open[j]].at
    /\ \A u \in DOMAIN upvals : upvals[u].at >= 0 <=> \E i \in DOMAIN open : open[i] = u
    /\ outcome = Running => \A i \in DOMAIN open : \E f \in DOMAIN frames :
            upvals[open[i]].at \in frames[f].base .. frames[f].top - 1

=============================================================================
