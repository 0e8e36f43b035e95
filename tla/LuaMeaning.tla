----------------------------- MODULE LuaMeaning -----------------------------
(***************************************************************************)
(* What a Lua program means: the specification the compiler and the        *)
(* machine are checked against.  A program is a tree, written out as the   *)
(* tokens the parser reads with no parenthesis the grammar does not need,  *)
(* and evaluated by recursion over the tree, with one cell per variable.   *)
(*                                                                         *)
(* Expressions: nil, true, false, ..., num v, str v, name n, function      *)
(* params vararg block, index e k, call f args, method e n args, paren e,  *)
(* un op e, bin op a b, table items (item e, pair k e).                    *)
(* Statements: local names es, assign targets es, callst e, do b, while e  *)
(* b, repeat b e, if clauses else, fornum n from to step b, forin names es *)
(* b, localfunction n f, functionst name path f, return es, break.         *)
(***************************************************************************)
EXTENDS Integers, Sequences, SequencesExt, TLC

NaN     == 1000000
Nil     == <<"nil">>
Num(n)  == <<"num", n>>
Bool(b) == <<"bool", b>>
Truth(v) == v \notin {Nil, Bool(FALSE)}

NoTree == <<>>

-----------------------------------------------------------------------------
(* Tokens. *)

T(word) == <<<<word>>>>
Name(n) == <<<<"name", n>>>>

Level(op) ==
    CASE op = "or" -> 1
      [] op = "and" -> 2
      [] op \in {"==", "~=", "<", "<=", ">", ">="} -> 3
      [] op = ".." -> 4
      [] op \in {"+", "-"} -> 5
      [] op \in {"*", "%"} -> 6
      [] op = "^" -> 8

Binding(e) == CASE e[1] = "bin" -> Level(e[2]) [] e[1] = "un" -> 7 [] OTHER -> 9

RECURSIVE Text(_), TextOf(_), BlockText(_)

Parens(e)  == T("(") \o Text(e) \o T(")")
Atleast(e, level) == IF Binding(e) < level THEN Parens(e) ELSE Text(e)

Joint(texts, sep) ==
    LET add(done, i) == done \o (IF i = 1 THEN <<>> ELSE T(sep)) \o texts[i]
    IN FoldLeftDomain(add, <<>>, texts)

List(es)    == Joint([i \in DOMAIN es |-> Text(es[i])], ",")
Names(ns)   == Joint([i \in DOMAIN ns |-> Name(ns[i])], ",")
Params(e)   == Joint([i \in DOMAIN e[2] |-> Name(e[2][i])] \o (IF e[3] THEN <<T("...")>> ELSE <<>>), ",")
Function(e) == T("(") \o Params(e) \o T(")") \o BlockText(e[4]) \o T("end")

\* What comes before a dot, a bracket or arguments.
Prefixed(e) == IF e[1] \in {"name", "index", "call", "method", "paren"} THEN Text(e) ELSE Parens(e)

Text(e) ==
    CASE e[1] \in {"num", "str", "name", "nil", "true", "false", "..."} -> <<e>>
      [] e[1] = "function" -> T("function") \o Function(e)
      [] e[1] = "index" ->
            Prefixed(e[2]) \o (IF e[3][1] = "str" THEN T(".") \o Name(e[3][2])
                               ELSE T("[") \o Text(e[3]) \o T("]"))
      [] e[1] = "call" -> Prefixed(e[2]) \o T("(") \o List(e[3]) \o T(")")
      [] e[1] = "method" -> Prefixed(e[2]) \o T(":") \o Name(e[3]) \o T("(") \o List(e[4]) \o T(")")
      [] e[1] = "paren" -> Parens(e[2])
      [] e[1] = "un" -> T(e[2]) \o Atleast(e[3], 7)
      [] e[1] = "bin" ->
            LET level == Level(e[2])
                right == e[2] \in {"..", "^"}
            IN Atleast(e[3], IF right THEN level + 1 ELSE level) \o T(e[2])
               \o (IF e[4][1] = "un" THEN Text(e[4])
                   ELSE Atleast(e[4], IF right THEN level ELSE level + 1))
      [] e[1] = "table" ->
            T("{") \o Joint([i \in DOMAIN e[2] |-> TextOf(e[2][i])], ",") \o T("}")

TextOf(item) ==
    IF item[1] = "item" THEN Text(item[2])
    ELSE (IF item[2][1] = "str" THEN Name(item[2][2]) ELSE T("[") \o Text(item[2]) \o T("]"))
         \o T("=") \o Text(item[3])

StatText(s) ==
    CASE s[1] = "local" -> T("local") \o Names(s[2])
                           \o (IF s[3] = <<>> THEN <<>> ELSE T("=") \o List(s[3]))
      [] s[1] = "assign" -> List(s[2]) \o T("=") \o List(s[3])
      [] s[1] = "callst" -> Text(s[2])
      [] s[1] = "do" -> T("do") \o BlockText(s[2]) \o T("end")
      [] s[1] = "while" -> T("while") \o Text(s[2]) \o T("do") \o BlockText(s[3]) \o T("end")
      [] s[1] = "repeat" -> T("repeat") \o BlockText(s[2]) \o T("until") \o Text(s[3])
      [] s[1] = "if" ->
            LET clause(i) == T(IF i = 1 THEN "if" ELSE "elseif") \o Text(s[2][i][1])
                             \o T("then") \o BlockText(s[2][i][2])
            IN FlattenSeq([i \in DOMAIN s[2] |-> clause(i)])
               \o (IF s[3] = NoTree THEN <<>> ELSE T("else") \o BlockText(s[3])) \o T("end")
      [] s[1] = "fornum" ->
            T("for") \o Name(s[2]) \o T("=") \o List(SelectSeq(<<s[3], s[4], s[5]>>, LAMBDA e : e # NoTree))
            \o T("do") \o BlockText(s[6]) \o T("end")
      [] s[1] = "forin" ->
            T("for") \o Names(s[2]) \o T("in") \o List(s[3]) \o T("do") \o BlockText(s[4]) \o T("end")
      [] s[1] = "localfunction" -> T("local") \o T("function") \o Name(s[2]) \o Function(s[3])
      [] s[1] = "functionst" ->
            T("function") \o Name(s[2]) \o FlattenSeq([i \in DOMAIN s[3] |-> T(".") \o Name(s[3][i])])
            \o (IF s[4] = "" THEN <<>> ELSE T(":") \o Name(s[4])) \o Function(s[5])
      [] s[1] = "return" -> T("return") \o List(s[2])
      [] s[1] = "break" -> T("break")

BlockText(b) == FlattenSeq([i \in DOMAIN b |-> StatText(b[i]) \o T(";")])

Tokens(block) == BlockText(block) \o T("eos")

-----------------------------------------------------------------------------
(* Evaluation.  A memory m has the cells of the variables, the tables and  *)
(* the functions made; an outcome is a memory, how it ended (go, break,    *)
(* return, error) and values v.  An environment gives the variables in     *)
(* scope their cells.                                                      *)

Done(m, v)   == [m |-> m, c |-> "go", v |-> v]
Failure(m, v) == [m |-> m, c |-> "error", v |-> <<v>>]
Message      == <<"str", "message">>
Went(o)      == o.c = "go"
One(o)       == IF o.v = <<>> THEN Nil ELSE o.v[1]
Only(o)      == [o EXCEPT !.v = <<One(o)>>]
Nth(v, i)    == IF i <= Len(v) THEN v[i] ELSE Nil

NewCells(m, v) == [m EXCEPT !.cells = @ \o v]
Bound(env, m, ns) ==
    LET last(n) == CHOOSE i \in DOMAIN ns : ns[i] = n /\ \A j \in DOMAIN ns : ns[j] = n => j <= i
    IN [n \in {ns[i] : i \in DOMAIN ns} |-> Len(m.cells) + last(n)] @@ env

Get(m, t, k) == IF k \in DOMAIN m.tables[t] THEN m.tables[t][k] ELSE Nil
Put(m, t, k, v) ==
    [m EXCEPT !.tables[t] = IF v = Nil THEN [x \in DOMAIN @ \ {k} |-> @[x]] ELSE (k :> v) @@ @]

Number(op, a, b) ==
    CASE NaN \in {a, b} \/ (op = "%" /\ b = 0) -> NaN
      [] op = "+" -> a + b
      [] op = "-" -> a - b
      [] op = "*" -> a * b
      [] op = "%" -> IF b > 0 THEN a % b ELSE -((-a) % (-b))
      [] op = "^" -> a ^ b

Same(a, b) == a = b /\ a # Num(NaN)

Ordered(op, a, b) ==
    /\ NaN \notin {a, b}
    /\ CASE op = "<" -> a < b [] op = "<=" -> a <= b [] op = ">" -> a > b [] op = ">=" -> a >= b

\* The value of an operator but and, or; or Message for a type error.
Operator(op, a, b) ==
    CASE op = "==" -> Bool(Same(a, b))
      [] op = "~=" -> Bool(~Same(a, b))
      [] op = ".." -> IF {a[1], b[1]} \subseteq {"num", "str"}
                      THEN <<"str", (IF a[1] = "num" THEN ToString(a[2]) ELSE a[2])
                                    \o (IF b[1] = "num" THEN ToString(b[2]) ELSE b[2])>>
                      ELSE Message
      [] {a[1], b[1]} # {"num"} -> Message
      [] op \in {"<", "<=", ">", ">="} -> Bool(Ordered(op, a[2], b[2]))
      [] OTHER -> Num(Number(op, a[2], b[2]))

Size(t) == CHOOSE n \in 0 .. 100 : Num(n + 1) \notin DOMAIN t
                                   /\ \A i \in 1 .. n : Num(i) \in DOMAIN t

RECURSIVE Value(_, _, _), Values(_, _, _, _), Apply(_, _, _), Block(_, _, _)

\* The values of a list: the last expression gives all of its own.
Values(es, env, m, v) ==
    IF es = <<>> THEN Done(m, v)
    ELSE LET o == Value(es[1], env, m)
         IN IF ~Went(o) THEN o
            ELSE Values(Tail(es), env, o.m,
                        v \o (IF Len(es) = 1 THEN o.v ELSE <<One(o)>>))

Fetch(m, t, k) == IF t[1] # "tab" THEN Failure(m, Message) ELSE Done(m, <<Get(m, t[2], k)>>)

Checked(m, v) == IF v = Message THEN Failure(m, v) ELSE Done(m, <<v>>)

RECURSIVE Fields(_, _, _, _, _)
Fields(items, env, m, t, n) ==
    LET it   == items[1]
        o    == Values(<<it[2]>> \o (IF it[1] = "pair" THEN <<it[3]>> ELSE <<>>), env, m, <<>>)
        v    == IF it[1] = "item" /\ Len(items) = 1 THEN o.v ELSE <<One(o)>>
        each(mem, i) == Put(mem, t, Num(n + i), v[i])
    IN IF items = <<>> THEN Done(m, <<<<"tab", t>>>>)
       ELSE IF ~Went(o) THEN o
       ELSE IF it[1] = "pair"
       THEN IF o.v[1] \in {Nil, Num(NaN)} THEN Failure(o.m, Message)
            ELSE Fields(Tail(items), env, Put(o.m, t, o.v[1], Nth(o.v, 2)), t, n)
       ELSE Fields(Tail(items), env, FoldLeftDomain(each, o.m, v), t, n + 1)

MakeFunction(m, e, env) ==
    Done([m EXCEPT !.funs = Append(@, [params |-> e[2], vararg |-> e[3], body |-> e[4], env |-> env])],
         <<<<"fun", Len(m.funs) + 1>>>>)

Value(e, env, m) ==
    CASE e[1] \in {"num", "str", "nil"} -> Done(m, <<e>>)
      [] e[1] \in {"true", "false"} -> Done(m, <<Bool(e[1] = "true")>>)
      [] e[1] = "..." -> Done(m, env["..."])
      [] e[1] = "name" -> Done(m, <<IF e[2] \in DOMAIN env THEN m.cells[env[e[2]]]
                                    ELSE Get(m, 1, <<"str", e[2]>>)>>)
      [] e[1] = "function" -> MakeFunction(m, e, env)
      [] e[1] = "paren" -> LET o == Value(e[2], env, m) IN IF Went(o) THEN Only(o) ELSE o
      [] e[1] = "index" ->
            LET o == Values(<<e[2], <<"paren", e[3]>>>>, env, m, <<>>)
            IN IF Went(o) THEN Fetch(o.m, o.v[1], o.v[2]) ELSE o
      [] e[1] = "call" ->
            LET f == Value(e[2], env, m)
                o == Values(e[3], env, f.m, <<>>)
            IN IF ~Went(f) THEN f ELSE IF ~Went(o) THEN o ELSE Apply(o.m, One(f), o.v)
      [] e[1] = "method" ->
            LET t == Value(e[2], env, m)
                f == Fetch(t.m, One(t), <<"str", e[3]>>)
                o == Values(e[4], env, f.m, <<One(t)>>)
            IN IF ~Went(t) THEN t ELSE IF ~Went(f) THEN f ELSE IF ~Went(o) THEN o
               ELSE Apply(o.m, One(f), o.v)
      [] e[1] = "un" ->
            LET o == Value(e[3], env, m)
                a == One(o)
            IN IF ~Went(o) THEN o
               ELSE IF e[2] = "not" THEN Done(o.m, <<Bool(~Truth(a))>>)
               ELSE IF e[2] = "-" THEN Checked(o.m, Operator("-", Num(0), a))
               ELSE IF a[1] = "tab" THEN Done(o.m, <<Num(Size(o.m.tables[a[2]]))>>)
               ELSE IF a[1] = "str" THEN Done(o.m, <<Num(Len(a[2]))>>)
               ELSE Failure(o.m, Message)
      [] e[1] = "bin" ->
            LET a == Value(e[3], env, m)
                b == Value(e[4], env, a.m)
            IN IF ~Went(a) THEN a
               ELSE IF e[2] \in {"and", "or"}
               THEN IF Truth(One(a)) = (e[2] = "or") THEN Only(a)
                    ELSE IF Went(b) THEN Only(b) ELSE b
               ELSE IF ~Went(b) THEN b
               ELSE Checked(b.m, Operator(e[2], One(a), One(b)))
      [] e[1] = "table" ->
            Fields(e[2], env, [m EXCEPT !.tables = Append(@, <<>>)], Len(m.tables) + 1, 0)

Apply(m, f, args) ==
    CASE f[1] = "fun" ->
            LET fun   == m.funs[f[2]]
                n     == Len(fun.params)
                cells == NewCells(m, [i \in 1 .. n |-> Nth(args, i)])
                extra == IF fun.vararg THEN ("..." :> SubSeq(args, n + 1, Len(args))) ELSE <<>>
                o     == Block(fun.body, extra @@ Bound(fun.env, m, fun.params), cells)
            IN IF o.c = "return" THEN [o EXCEPT !.c = "go"]
               ELSE IF o.c = "go" THEN Done(o.m, <<>>) ELSE o
      [] f = <<"host", "error">> ->
            Failure(m, IF Nth(args, 1)[1] \in {"str", "num"} THEN Message ELSE Nth(args, 1))
      [] f = <<"host", "pcall">> ->
            IF args = <<>> THEN Failure(m, Message)
            ELSE LET o == Apply(m, args[1], Tail(args))
                 IN Done(o.m, <<Bool(Went(o))>> \o o.v)
      [] f = <<"host", "ipairs">> ->
            IF Nth(args, 1)[1] # "tab" THEN Failure(m, Message)
            ELSE Done(m, <<<<"host", "ipairsaux">>, args[1], Num(0)>>)
      [] f = <<"host", "ipairsaux">> ->
            LET i == Num(args[2][2] + 1)
                v == Get(m, args[1][2], i)
            IN Done(m, IF v = Nil THEN <<>> ELSE <<i, v>>)
      [] OTHER -> Failure(m, Message)

-----------------------------------------------------------------------------
(* Statements: each gives an outcome; a local statement also changes the   *)
(* environment of those after it.                                          *)

Spread(v, n) == [i \in 1 .. n |-> Nth(v, i)]

\* The places assigned to: a cell, a global, or an entry of a table.
RECURSIVE Places(_, _, _, _)
Places(targets, env, m, done) ==
    IF targets = <<>> THEN Done(m, done)
    ELSE LET t == targets[1]
             o == Values(<<t[2], <<"paren", t[3]>>>>, env, m, <<>>)
         IN IF t[1] = "name"
            THEN Places(Tail(targets), env, m, Append(done,
                    IF t[2] \in DOMAIN env THEN <<"cell", env[t[2]]>>
                    ELSE <<"entry", <<"tab", 1>>, <<"str", t[2]>>>>))
            ELSE IF ~Went(o) THEN o
            ELSE Places(Tail(targets), env, o.m, Append(done, <<"entry", o.v[1], o.v[2]>>))

Assign(o, place, v) ==
    IF ~Went(o) THEN o
    ELSE IF place[1] = "cell" THEN [o EXCEPT !.m.cells[place[2]] = v]
    ELSE IF place[2][1] # "tab" \/ place[3] \in {Nil, Num(NaN)} THEN Failure(o.m, Message)
    ELSE [o EXCEPT !.m = Put(@, place[2][2], place[3], v)]

AssignAll(m, places, v) ==
    LET n == Len(places)
        one(o, i) == Assign(o, places[n + 1 - i], Nth(v, n + 1 - i))
    IN FoldLeftDomain(one, Done(m, <<>>), places)

Looped(o) == IF o.c = "break" THEN Done(o.m, <<>>) ELSE o

RECURSIVE While(_, _, _), Repeat(_, _, _), Count(_, _, _, _, _, _), Iterate(_, _, _, _, _)

While(s, env, m) ==
    LET o == Value(s[2], env, m)
        b == Block(s[3], env, o.m)
    IN IF ~Went(o) THEN o
       ELSE IF ~Truth(One(o)) THEN Done(o.m, <<>>)
       ELSE IF Went(b) THEN While(s, env, b.m) ELSE Looped(b)

\* The condition sees the locals of the block, and is its last statement.
Repeat(s, env, m) ==
    LET o == Block(Append(s[2], <<"until", s[3]>>), env, m)
    IN IF o.c = "again" THEN Repeat(s, env, o.m) ELSE Looped(o)

Count(s, env, m, i, limit, step) ==
    LET more == IF step # NaN /\ 0 < step THEN Ordered("<=", i, limit) ELSE Ordered("<=", limit, i)
        b == Block(s[6], Bound(env, m, <<s[2]>>), NewCells(m, <<Num(i)>>))
    IN IF ~more THEN Done(m, <<>>)
       ELSE IF Went(b) THEN Count(s, env, b.m, Number("+", i, step), limit, step) ELSE Looped(b)

Iterate(s, env, m, f, control) ==
    LET o == Apply(m, f[1], <<f[2], control>>)
        v == Spread(o.v, Len(s[2]))
        b == Block(s[4], Bound(env, o.m, s[2]), NewCells(o.m, v))
    IN IF ~Went(o) THEN o
       ELSE IF v[1] = Nil THEN Done(o.m, <<>>)
       ELSE IF Went(b) THEN Iterate(s, env, b.m, f, v[1]) ELSE Looped(b)

RECURSIVE Clauses(_, _, _, _)
Clauses(clauses, else, env, m) ==
    IF clauses = <<>> THEN Block(else, env, m)
    ELSE LET o == Value(clauses[1][1], env, m)
         IN IF ~Went(o) THEN o
            ELSE IF Truth(One(o)) THEN Block(clauses[1][2], env, o.m)
            ELSE Clauses(Tail(clauses), else, env, o.m)

Statement(s, env, m) ==
    CASE s[1] = "assign" ->
            LET p == Places(s[2], env, m, <<>>)
                o == Values(s[3], env, p.m, <<>>)
            IN IF ~Went(p) THEN p ELSE IF ~Went(o) THEN o ELSE AssignAll(o.m, p.v, o.v)
      [] s[1] = "callst" -> LET o == Value(s[2], env, m) IN IF Went(o) THEN Done(o.m, <<>>) ELSE o
      [] s[1] = "do" -> Block(s[2], env, m)
      [] s[1] = "while" -> While(s, env, m)
      [] s[1] = "repeat" -> Repeat(s, env, m)
      [] s[1] = "until" ->
            LET o == Value(s[2], env, m)
            IN IF ~Went(o) THEN o
               ELSE [o EXCEPT !.c = IF Truth(One(o)) THEN "break" ELSE "again"]
      [] s[1] = "if" -> Clauses(s[2], s[3], env, m)
      [] s[1] = "fornum" ->
            LET o == Values([i \in 1 .. 3 |-> IF i = 3 /\ s[5] = NoTree THEN Num(1)
                                              ELSE <<"paren", s[2 + i]>>], env, m, <<>>)
            IN IF ~Went(o) THEN o
               ELSE IF \E i \in 1 .. 3 : o.v[i][1] # "num" THEN Failure(o.m, Message)
               ELSE Count(s, env, o.m, o.v[1][2], o.v[2][2], o.v[3][2])
      [] s[1] = "forin" ->
            LET o == Values(s[3], env, m, <<>>)
                f == Spread(o.v, 3)
            IN IF Went(o) THEN Iterate(s, env, o.m, f, f[3]) ELSE o
      [] s[1] = "functionst" ->
            LET path == s[3] \o (IF s[4] = "" THEN <<>> ELSE <<s[4]>>)
                add(e, n) == <<"index", e, <<"str", n>>>>
                f == IF s[4] = "" THEN s[5] ELSE [s[5] EXCEPT ![2] = <<"self">> \o @]
                p == Places(<<FoldLeft(add, <<"name", s[2]>>, path)>>, env, m, <<>>)
                o == MakeFunction(p.m, f, env)
            IN IF ~Went(p) THEN p ELSE AssignAll(o.m, p.v, o.v)
      [] s[1] = "return" -> LET o == Values(s[2], env, m, <<>>)
                            IN IF Went(o) THEN [o EXCEPT !.c = "return"] ELSE o
      [] s[1] = "break" -> [m |-> m, c |-> "break", v |-> <<>>]

\* A local function is in its own scope, other locals are not.
Block(b, env, m) ==
    IF b = <<>> THEN Done(m, <<>>)
    ELSE LET s == b[1]
             own == Bound(env, m, <<s[2]>>)
             f == MakeFunction(NewCells(m, <<Nil>>), s[3], own)
             o == Values(s[3], env, m, <<>>)
         IN CASE s[1] = "local" ->
                    IF ~Went(o) THEN o
                    ELSE Block(Tail(b), Bound(env, o.m, s[2]), NewCells(o.m, Spread(o.v, Len(s[2]))))
              [] s[1] = "localfunction" ->
                    Block(Tail(b), own, [f.m EXCEPT !.cells[Len(m.cells) + 1] = f.v[1]])
              [] OTHER ->
                    LET r == Statement(s, env, m)
                    IN IF Went(r) THEN Block(Tail(b), env, r.m) ELSE r

Library == [n \in {<<"str", f>> : f \in {"error", "pcall", "ipairs"}} |-> <<"host", n[2]>>]

\* How a program ends, and with what values.
Meaning(block) ==
    LET o == Block(block, "..." :> <<>>, [cells |-> <<>>, tables |-> <<Library>>, funs |-> <<>>])
    IN IF o.c = "error" THEN <<"error", o.v[1]>> ELSE <<"done", o.v>>
=============================================================================
