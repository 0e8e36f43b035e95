------------------------------- MODULE LuaGC -------------------------------
(***************************************************************************)
(* The incremental garbage collector of minilua (dep/minilua.c, luaC_...)  *)
(* beside the program whose memory it manages: the steps of singlestep,    *)
(* between any two instructions of the program, and the barriers with      *)
(* which the program tells the collector of what it changes.  atomic is    *)
(* taken apart into the steps it makes while the program waits.            *)
(*                                                                         *)
(* Values are integers: the place of an object, or one of the negative     *)
(* ones below.  A table has room for one entry, a closure has one upvalue, *)
(* and there is one string to intern.  The collector takes one step at a   *)
(* time and sweeps one object in a step, where the code takes more, in     *)
(* the order of a list, which is left open here.  When it steps depends in *)
(* the code on the bytes allocated; here it may at any time.               *)
(***************************************************************************)
EXTENDS Integers, FiniteSets, SequencesExt

CONSTANTS
    Size,       \* bound on the objects, beside the main thread and the globals
    Slots,      \* the locals of the program
    Mixes,      \* programs: the kinds of the objects that one has at a time
    Watched     \* the places of the objects whose end GarbageFreed is about

Main    == 0                \* g->mainthread
Globals == 1                \* the table of globals
Memory  == 0 .. Size + 1
Nil     == -1
Number  == -2               \* any value that is not collectable

\* The slot of the argument of a finalizer.
Frame == Slots + 1

Whites == {"white0", "white1"}
Tables == {"table", "weak keys", "weak values", "weak"}
Kinds  == Tables \union {"closure", "upvalue", "userdata", "file", "string"}

ASSUME GCAssumption ==
    /\ Size \in Nat /\ Slots \in Nat \ {0}
    /\ Mixes \subseteq Seq(Kinds) /\ \A m \in Mixes : Len(m) <= Size
    /\ Watched \subseteq Memory \ {Main, Globals}

VARIABLES
    mix,        \* the program: mix[n] is what the n-th place is for
    obj,        \* the objects
    stack,      \* the slots, and that of a finalizer
    white,      \* g->currentwhite
    phase,      \* g->gcstate
    gray, again, weak,      \* g->gray, g->grayagain, g->weak
    unswept,    \* what follows g->sweepgc in the list of all objects
    tmudata     \* g->tmudata: userdata whose finalizers are to be called

\* The phases of marking; but for the first, they are within atomic.
Atomic  == {"remark upvalues", "remark weak", "remark again", "mark finalized"}
Marking == {"propagate"} \union Atomic

lists == <<gray, again, weak>>
vars  == <<mix, obj, stack, white, phase, lists, unswept, tmudata>>

\* One object: a table's entry is key and val, a closure's upvalue, an
\* upvalue's value when it is closed, and a userdata's environment are val.
\* at is the slot of an upvalue that is open, else 0.  finalized is the bit of
\* that name, and called tells what the code does not keep: that the finalizer
\* was called.
Free == [kind |-> "free", colour |-> "white0", key |-> Nil, val |-> Nil,
         at |-> 0, finalized |-> FALSE, called |-> FALSE]
New(k, c) == [Free EXCEPT !.kind = k, !.colour = c]

Init ==
    /\ mix \in Mixes
    /\ obj = [o \in Memory |-> IF o = Main THEN New("thread", "white0")
                               ELSE IF o = Globals THEN New("table", "white0") ELSE Free]
    /\ stack = [i \in 1..Frame |-> Nil]
    /\ white = "white0"
    /\ phase = "pause"
    /\ gray = <<>> /\ again = <<>> /\ weak = <<>>
    /\ unswept = {}
    /\ tmudata = <<>>

-----------------------------------------------------------------------------
(***************************************************************************)
(* Colours.  What marking changes is a record m of obj and the lists.      *)
(***************************************************************************)
Other(c)      == CHOOSE d \in Whites : d # c
Collectable(v) == v >= 0
IsWhite(m, v)  == Collectable(v) /\ m.obj[v].colour \in Whites
IsBlack(m, o)  == m.obj[o].colour = "black"
IsDead(m, o)   == m.obj[o].colour = Other(white)
Paint(m, o, c) == [m EXCEPT !.obj[o].colour = c]

WeakKey(x)   == x.kind \in {"weak keys", "weak"}
WeakValue(x) == x.kind \in {"weak values", "weak"}
IsOpen(x)    == x.kind = "upvalue" /\ x.at # 0
IsUserdata(x) == x.kind \in {"userdata", "file"}
HasGC(x)     == x.kind = "file"         \* userdata with a __gc, as those of io

M == [obj |-> obj, gray |-> gray, again |-> again, weak |-> weak]
Becomes(m) == obj' = m.obj /\ gray' = m.gray /\ again' = m.again /\ weak' = m.weak

UpvalueOf(x) == IF IsOpen(x) THEN stack[x.at] ELSE x.val

\* reallymarkobject, for the values of S: with a userdata its environment is
\* marked, with an upvalue its value.  No value is an upvalue, and every
\* environment is a table.
WhiteOf(m, S) == {v \in S : IsWhite(m, v)}
Reached(m, S) ==
    LET values == S \union {UpvalueOf(m.obj[u]) : u \in {v \in WhiteOf(m, S) : m.obj[v].kind = "upvalue"}}
        envs   == {m.obj[u].val : u \in {v \in WhiteOf(m, values) : IsUserdata(m.obj[v])}}
    IN  WhiteOf(m, values \union envs)

\* Gray objects that are to be traversed are put on the list, in some order.
Traversed(x)    == x.kind \in Tables \union {"thread", "closure"}
MarkedColour(x) == IF IsUserdata(x) \/ (x.kind = "upvalue" /\ ~IsOpen(x)) THEN "black" ELSE "gray"

MarkAll(m, S) ==
    LET new == Reached(m, S)
    IN  [m EXCEPT
            !.obj = [o \in Memory |-> IF o \in new
                                      THEN [m.obj[o] EXCEPT !.colour = MarkedColour(m.obj[o])]
                                      ELSE m.obj[o]],
            !.gray = SetToSeq({o \in new : Traversed(m.obj[o])}) \o @]

\* What an object keeps alive when it is traversed.
Strong(x) ==
    CASE x.kind = "thread"  -> {Globals} \union {stack[i] : i \in 1..Frame}
      [] x.kind = "closure" -> {Globals, x.val}
      [] x.kind \in Tables  ->
            IF x.val = Nil THEN {}
            ELSE (IF WeakKey(x) THEN {} ELSE {x.key})
                  \union (IF WeakValue(x) THEN {} ELSE {x.val})
      [] x.kind = "upvalue" -> {UpvalueOf(x)}
      [] OTHER              -> {x.val}

\* removeentry: a dead key is not followed; it is as good as none.
RemoveEntry(x) == [x EXCEPT !.key = Nil]

\* propagatemark.  Threads and weak tables stay gray: they are traversed again.
StaysGray_Tables(x) == x.kind = "thread" \/ WeakKey(x)
StaysGray(x)        == x.kind = "thread" \/ WeakKey(x) \/ WeakValue(x)

Propagate(m) ==
    LET o == Head(m.gray)
        x == m.obj[o]
        y == IF x.kind \in Tables \ {"weak"} /\ x.val = Nil THEN RemoveEntry(x) ELSE x
        n == [m EXCEPT
                !.gray = Tail(@),
                !.again = IF x.kind = "thread" THEN <<o>> \o @ ELSE @,
                !.weak = IF WeakKey(x) \/ WeakValue(x) THEN <<o>> \o @ ELSE @,
                !.obj[o] = [y EXCEPT !.colour = IF StaysGray(x) THEN "gray" ELSE "black"]]
    IN  MarkAll(n, Strong(x))

-----------------------------------------------------------------------------
(***************************************************************************)
(* The collector: singlestep.                                              *)
(***************************************************************************)
MarkRoot ==
    /\ phase = "pause"
    /\ Becomes(MarkAll([M EXCEPT !.gray = <<>>, !.again = <<>>, !.weak = <<>>],
                       {Main, Globals}))
    /\ phase' = "propagate"
    /\ UNCHANGED <<mix, stack, white, unswept, tmudata>>

PropagateMark ==
    /\ phase \in Marking /\ gray # <<>>
    /\ Becomes(Propagate(M))
    /\ UNCHANGED <<mix, stack, white, phase, unswept, tmudata>>

\* atomic, of which each step ends with propagateall: the program waits.
AtomicStep(from, to) ==
    /\ phase = from /\ gray = <<>>
    /\ phase' = to
    /\ UNCHANGED <<mix, stack>>

Opens(m) == {o \in Memory : IsOpen(m.obj[o])}

\* remarkupvals: writing to an open upvalue has no barrier.
RemarkUpvals ==
    /\ AtomicStep("propagate", "remark upvalues")
    /\ Becomes(MarkAll(M, {stack[obj[o].at] : o \in {u \in Opens(M) : obj[u].colour = "gray"}}))
    /\ UNCHANGED <<white, unswept, tmudata>>

\* The weak tables and the thread, then what was put back.
RemarkWeak ==
    /\ AtomicStep("remark upvalues", "remark weak")
    /\ Becomes(MarkAll([M EXCEPT !.gray = weak, !.weak = <<>>], {Main}))
    /\ UNCHANGED <<white, unswept, tmudata>>

RemarkAgain ==
    /\ AtomicStep("remark weak", "remark again")
    /\ Becomes([M EXCEPT !.gray = again, !.again = <<>>])
    /\ UNCHANGED <<white, unswept, tmudata>>

\* luaC_separateudata: userdata that die, for the first time.
Dying      == {o \in Memory : IsUserdata(obj[o]) /\ IsWhite(M, o) /\ ~obj[o].finalized}
ToFinalize == SetToSeq({o \in Dying : HasGC(obj[o])})
Separated_Again(x, o) == x
Separated(x, o)       == [x EXCEPT !.finalized = @ \/ o \in Dying]

\* marktmu
Separate ==
    LET waiting   == tmudata \o ToFinalize
        separated == [o \in Memory |->
                        [Separated(obj[o], o) EXCEPT
                            !.colour = IF o \in ToSet(waiting) THEN white ELSE @]]
    IN
    /\ AtomicStep("remark again", "mark finalized")
    /\ Becomes(MarkAll([M EXCEPT !.obj = separated], ToSet(waiting)))
    /\ tmudata' = waiting
    /\ UNCHANGED <<white, unswept>>

\* iscleared: a weak entry loses its value before the finalizer is called, and
\* its key only with the object.
IsCleared(m, v, iskey) ==
    /\ Collectable(v) /\ m.obj[v].kind # "string"
    /\ \/ IsWhite(m, v)
       \/ m.obj[v].kind \in {"userdata", "file"} /\ ~iskey /\ m.obj[v].finalized

\* cleartable; strings count as values, and are marked.
ClearedEntry(x) ==
    x.val # Nil /\ (IsCleared(M, x.key, TRUE) \/ IsCleared(M, x.val, FALSE))
StringMarked(s) ==
    /\ obj[s].kind = "string"
    /\ \E t \in ToSet(weak) :
          /\ obj[t].val # Nil
          /\ obj[t].key = s \/ (obj[t].val = s /\ ~ClearedEntry(obj[t]))
ClearTables ==
    [o \in Memory |->
        IF o \in ToSet(weak) /\ ClearedEntry(obj[o])
        THEN RemoveEntry([obj[o] EXCEPT !.val = Nil])
        ELSE IF StringMarked(o) THEN [obj[o] EXCEPT !.colour = "gray"]
        ELSE obj[o]]

EndAtomic ==
    /\ AtomicStep("mark finalized", "sweepstring")
    /\ obj' = ClearTables
    /\ white' = Other(white)
    /\ unswept' = {o \in Memory \ (Opens(M) \union ToSet(tmudata)) :
                        obj[o].kind \notin {"free", "string"}}
    /\ UNCHANGED <<lists, tmudata>>

\* sweeplist: the main thread is fixed.
Swept_Finalized(S) ==
    [o \in Memory |-> IF o \notin S THEN obj[o]
                      ELSE IF o # Main /\ IsDead(M, o) /\ ~HasGC(obj[o]) THEN Free
                      ELSE [obj[o] EXCEPT !.colour = white]]
Swept(S) ==
    [o \in Memory |-> IF o \notin S THEN obj[o]
                      ELSE IF o # Main /\ IsDead(M, o) THEN Free
                      ELSE [obj[o] EXCEPT !.colour = white]]

SweepString ==
    /\ phase = "sweepstring"
    /\ obj' = Swept({o \in Memory : obj[o].kind = "string"})
    /\ phase' = "sweep"
    /\ UNCHANGED <<mix, stack, white, lists, unswept, tmudata>>

\* The thread's open upvalues are swept with it.
Sweep ==
    /\ phase = "sweep"
    /\ \E o \in unswept :
        /\ obj' = Swept({o} \union IF o = Main THEN Opens(M) ELSE {})
        /\ unswept' = unswept \ {o}
    /\ phase' = IF unswept' = {} THEN "finalize" ELSE "sweep"
    /\ UNCHANGED <<mix, stack, white, lists, tmudata>>

\* GCTM: the finalizer gets the userdata in a slot of its own and is then a
\* part of the program; one finalizer runs at a time.
CallFinalizer ==
    /\ phase = "finalize" /\ tmudata # <<>> /\ stack[Frame] = Nil
    /\ LET o == Head(tmudata) IN
        /\ obj' = [obj EXCEPT ![o].colour = white, ![o].called = TRUE]
        /\ stack' = [stack EXCEPT ![Frame] = o]
    /\ tmudata' = Tail(tmudata)
    /\ UNCHANGED <<mix, white, phase, lists, unswept>>

EndCycle ==
    /\ phase = "finalize" /\ tmudata = <<>>
    /\ phase' = "pause"
    /\ UNCHANGED <<mix, obj, stack, white, lists, unswept, tmudata>>

Collect ==
    \/ MarkRoot \/ PropagateMark
    \/ RemarkUpvals \/ RemarkWeak \/ RemarkAgain \/ Separate \/ EndAtomic
    \/ SweepString \/ Sweep \/ CallFinalizer \/ EndCycle

-----------------------------------------------------------------------------
(***************************************************************************)
(* The program, and finalizers while they run: they have the globals, what *)
(* is in the slots and, in registers of one instruction, what a global is. *)
(***************************************************************************)
Held == ({Globals, obj[Globals].val} \union {stack[i] : i \in 1..Frame}) \ {Nil}
HeldOf(kinds) == {o \in Held : Collectable(o) /\ obj[o].kind \in kinds}

\* luaC_barriert: a table that was traversed is traversed again.
BarrierBack(m, t, v) ==
    IF IsWhite(m, v) /\ IsBlack(m, t)
    THEN [Paint(m, t, "gray") EXCEPT !.again = <<t>> \o @] ELSE m

\* luaC_barrier: the new value is marked at once, or the object need not be
\* black any more.
Barrier(m, o, v) ==
    IF ~(IsWhite(m, v) /\ IsBlack(m, o)) THEN m
    ELSE IF phase = "propagate" THEN MarkAll(m, {v})
    ELSE Paint(m, o, white)

Store(m) == Becomes(m) /\ UNCHANGED <<mix, stack, white, phase, unswept, tmudata>>
Load(i, v) ==
    /\ stack' = [stack EXCEPT ![i] = v]
    /\ UNCHANGED <<mix, obj, white, phase, lists, unswept, tmudata>>

\* Where an object of kind k may be allocated.
Room(k)  == {n + 1 : n \in {m \in DOMAIN mix : mix[m] = k /\ obj[m + 1].kind = "free"}}
Least(S) == CHOOSE o \in S : \A p \in S : o <= p

\* luaH_new, luaS_newudata: link x, in the current white, and leave it in slot i.
Create(i, x) ==
    /\ Room(x.kind) # {}
    /\ obj' = [obj EXCEPT ![Least(Room(x.kind))] = x]
    /\ stack' = [stack EXCEPT ![i] = Least(Room(x.kind))]
    /\ UNCHANGED <<mix, white, phase, lists, unswept, tmudata>>

NewTable(i) == \E k \in Tables : Create(i, New(k, white))

NewUserdata(i) ==
    \E k \in {"userdata", "file"} : Create(i, [New(k, white) EXCEPT !.val = Globals])

\* luaS_newlstr: the string that exists, even one about to be swept.
Revived_Dead(s) == obj
Revived(s)      == IF IsDead(M, s) THEN [obj EXCEPT ![s].colour = white] ELSE obj

NewString(i) ==
    LET strings == {o \in Memory : obj[o].kind = "string"} IN
    /\ \/ strings = {} /\ Create(i, New("string", white))
       \/ \E s \in strings :
            /\ obj' = Revived(s)
            /\ stack' = [stack EXCEPT ![i] = s]
            /\ UNCHANGED <<mix, white, phase, lists, unswept, tmudata>>

\* luaF_findupval: the open upvalue of slot j, even one about to be swept.
FindUpval_Dead(m, u) == m
FindUpval(m, u)      == IF IsDead(m, u) THEN Paint(m, u, white) ELSE m

\* OP_CLOSURE, over slot j.
NewClosure(i, j) ==
    LET c     == Least(Room("closure"))
        u     == Least(Room("upvalue"))
        made  == [M EXCEPT !.obj[c] = New("closure", white)]
        opens == {o \in Opens(M) : obj[o].at = j}
    IN
    /\ Room("closure") # {}
    /\ \/ /\ opens = {} /\ Room("upvalue") # {}
          /\ Becomes([made EXCEPT !.obj[c].val = u,
                                  !.obj[u] = [New("upvalue", white) EXCEPT !.at = j]])
       \/ \E o \in opens :
            Becomes(FindUpval([made EXCEPT !.obj[c].val = o], o))
    /\ stack' = [stack EXCEPT ![i] = c]
    /\ UNCHANGED <<mix, white, phase, unswept, tmudata>>

Clear(i) == stack[i] # Nil /\ Load(i, Nil)

\* A value of a table, or by next a key of it.
GetTable(i) ==
    \E t \in HeldOf(Tables) :
        \E v \in ({obj[t].key, obj[t].val} \intersect Memory) :
            obj[t].val # Nil /\ Load(i, v)

\* The entries that the program makes: globals have names, a table is a set of
\* objects, and weak tables are whatever their weakness is about.
Entries(t) ==
    LET objects == Held \ {Globals}
        named   == {Number} \X objects
        members == objects \X {Number}
    IN  IF t = Globals THEN named
        ELSE CASE obj[t].kind = "table"       -> members
               [] obj[t].kind = "weak values" -> named
               [] obj[t].kind = "weak keys"   -> members \union (objects \X objects)
               [] OTHER                       -> objects \X objects

\* luaV_settable and newkey: a new entry, for which the table has room, or a
\* new value of the one it has.
NewEntry ==
    \E t \in HeldOf(Tables) : \E e \in Entries(t) :
        /\ obj[t].key # e[1] /\ obj[t].val = Nil
        /\ Store(BarrierBack(BarrierBack([M EXCEPT !.obj[t].key = e[1], !.obj[t].val = e[2]],
                                         t, e[1]), t, e[2]))

SetEntry ==
    \E t \in HeldOf(Tables) :
        \E v \in {e[2] : e \in {f \in Entries(t) : f[1] = obj[t].key}} \union {Nil} :
            /\ v # obj[t].val
            /\ Store(BarrierBack([M EXCEPT !.obj[t].val = v], t, v))

GetUpval(i) == \E c \in HeldOf({"closure"}) : Load(i, UpvalueOf(obj[obj[c].val]))

\* OP_SETUPVAL, to a slot or to the upvalue itself.
SetUpval(j) ==
    \E c \in HeldOf({"closure"}) :
        LET u == obj[c].val IN
        IF IsOpen(obj[u])
        THEN /\ stack' = [stack EXCEPT ![obj[u].at] = stack[j]]
             /\ Becomes(Barrier(M, u, stack[j]))
             /\ UNCHANGED <<mix, white, phase, unswept, tmudata>>
        ELSE Store(Barrier([M EXCEPT !.obj[u].val = stack[j]], u, stack[j]))

\* lua_setfenv on userdata.
SetEnv ==
    \E o \in HeldOf({"userdata", "file"}), t \in HeldOf(Tables) :
        Store(Barrier([M EXCEPT !.obj[o].val = t], o, t))

GetEnv(i) == \E o \in HeldOf({"userdata", "file"}) : Load(i, obj[o].val)

\* luaC_linkupval: an upvalue that was marked while open.
LinkUpval_Gray(x) == x
LinkUpval(x) ==
    IF x.colour # "gray" THEN x
    ELSE [x EXCEPT !.colour = IF phase = "propagate" THEN "black" ELSE white]

\* luaF_close: a dead upvalue is freed, any other gets the value of its slot.
CloseUpval(u) ==
    IF IsDead(M, u) THEN Free
    ELSE LinkUpval([obj[u] EXCEPT !.val = stack[obj[u].at], !.at = 0])

\* The end of a block or, for i = Frame, of a finalizer.
Leave(i) ==
    LET closing == {o \in Opens(M) : obj[o].at >= i}
        closed  == [M EXCEPT !.obj = [o \in Memory |-> IF o \in closing THEN CloseUpval(o)
                                                       ELSE obj[o]]]
        linked  == {stack[obj[u].at] : u \in {o \in closing : obj[o].colour = "gray"}}
    IN
    /\ \E j \in i..Frame : stack[j] # Nil \/ \E o \in Opens(M) : obj[o].at = j
    /\ Becomes(IF phase = "propagate" THEN MarkAll(closed, linked) ELSE closed)
    /\ stack' = [j \in 1..Frame |-> IF j < i THEN stack[j] ELSE Nil]
    /\ UNCHANGED <<mix, white, phase, unswept, tmudata>>

Operation ==
    \/ \E i \in 1..Slots :
        \/ NewTable(i) \/ NewUserdata(i) \/ NewString(i)
        \/ \E j \in 1..Slots : NewClosure(i, j)
        \/ Clear(i) \/ GetTable(i) \/ GetUpval(i) \/ GetEnv(i)
    \/ \E j \in 1..Frame : SetUpval(j) \/ Leave(j)
    \/ NewEntry \/ SetEntry \/ SetEnv

Program == phase \notin Atomic /\ Operation

Next == Collect \/ Program

Spec == Init /\ [][Next]_vars

\* Weak fairness of Collect: a step of the collector, told by what no other
\* step does, unless it waits for a finalizer.
Works ==
    \/ phase' # phase \/ unswept' # unswept \/ tmudata' # tmudata
    \/ gray # <<>> /\ Head(gray) \notin ToSet(gray')
Waits == phase = "finalize" /\ tmudata # <<>> /\ stack[Frame] # Nil

\* The program goes on allocating, and a finalizer returns.
Fairness == ([]<>Waits \/ []<><<Works>>_vars) /\ WF_vars(phase \notin Atomic /\ Leave(Frame))

FairSpec == Spec /\ Fairness

-----------------------------------------------------------------------------
\* What is reached from the program's roots, and from userdata that wait for
\* their finalizers, through references that keep alive.  A string in a weak
\* table counts as a value.
Entry(x)   == IF x.kind \in Tables /\ x.val # Nil THEN {x.key, x.val} \intersect Memory ELSE {}
Targets(o) == {o} \union (Strong(obj[o]) \intersect Memory)
                \union {v \in Entry(obj[o]) : obj[v].kind = "string"}
Roots == {Main} \union ToSet(tmudata)
Reachable ==
    LET reach[n \in 0 .. Size + 1] ==
            IF n = 0 THEN Roots ELSE UNION {Targets(o) : o \in reach[n - 1]}
    IN  reach[Size + 1]

Allocated == {o \in Memory : obj[o].kind # "free"}

\* The program never comes by an object that was freed (sweeplist, freeobj):
\* what it can reach, the entries of weak tables included, is allocated.
NoDangling == \A o \in Reachable : {o} \union Entry(obj[o]) \subseteq Allocated

\* The invariant that the barriers are for (luaC_barrierf, luaC_barrierback):
\* while marking goes on no black object refers to a white one, and while the
\* sweep goes on no object that can be reached has the colour of the dead.
Tricolour ==
    /\ phase \in Marking =>
          \A o \in Allocated : IsBlack(M, o) =>
              \A v \in Strong(obj[o]) : ~IsWhite(M, v)
    /\ phase \in {"sweepstring", "sweep"} =>
          \A o \in Reachable \ {Main} : ~IsDead(M, o)

\* The lists of the collector share one link in each object: an object that
\* is gray is in one of them, once, and no other object is.
ListsSound ==
    phase \in Marking =>
        /\ IsInjective(gray \o again \o weak)
        /\ ToSet(gray \o again \o weak) =
              {o \in Allocated : /\ obj[o].colour = "gray"
                                 /\ obj[o].kind \in Tables \union {"thread", "closure"}}

\* The collector is invisible: none of its steps changes what the program can
\* reach, but that weak entries lose what nothing else keeps alive, or a value
\* whose finalizer was called (cleartable; even when only the keys are weak),
\* and that a finalizer gets its userdata.
Loses(t) ==
    LET x == obj[t] IN
    \/ WeakKey(x) /\ x.key \notin Reachable
    \/ WeakValue(x) /\ x.val \notin Reachable
    \/ /\ WeakKey(x) \/ WeakValue(x)
       /\ x.val \in Memory /\ obj'[x.val].finalized
Same(x, y) ==
    /\ x.kind = y.kind /\ x.val = y.val /\ x.at = y.at
    /\ x.kind \in Tables /\ x.val # Nil => x.key = y.key
CollectorInvisible ==
    [][Collect =>
        /\ \A i \in 1..Slots : stack'[i] = stack[i]
        /\ \A o \in Reachable :
              \/ Same(obj[o], obj'[o])
              \/ obj[o].kind \in Tables /\ obj'[o].val = Nil /\ Loses(o)]_vars

\* A userdata's finalizer is called once, and only after the program cannot
\* reach it (luaC_separateudata, GCTM).
FinalizedOnce ==
    [][\A o \in ToSet(tmudata') \ ToSet(tmudata) :
          o \notin Reachable /\ HasGC(obj[o]) /\ ~obj[o].called]_vars

\* Whatever cannot be reached any more is freed, unless it comes back by a
\* weak table, by interning, or with a userdata that is finalized.
GarbageFreed ==
    \A o \in Watched :
        o \in Allocated \ Reachable ~> o \in Reachable \/ o \notin Allocated
=============================================================================
