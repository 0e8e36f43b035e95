---------------------------- MODULE LuaGC_proofs ----------------------------
(***************************************************************************)
(* Theorems about LuaGC, for a heap of any size, any number of locals and  *)
(* any programs.                                                           *)
(***************************************************************************)
EXTENDS LuaGC, FiniteSetTheorems, SequenceTheorems, WellFoundedInduction, TLAPS

-----------------------------------------------------------------------------
(* Lists as sequences.                                                     *)

\* The elements of a set, each once.
LEMMA SetToSeqIs ==
  ASSUME NEW S, IsFiniteSet(S)
  PROVE  SetToSeq(S) \in Seq(S) /\ IsInjective(SetToSeq(S)) /\ ToSet(SetToSeq(S)) = S
  <1> DEFINE n == Cardinality(S)
  <1>1. n \in Nat /\ \E f : f \in Bijection(1 .. n, S)
    BY FS_CardinalityType DEF ExistsBijection
  <1>2. \E f \in [1 .. n -> S] : IsInjective(f)
    BY <1>1 DEF Bijection, Injection, IsInjective
  <1>3. PICK f \in [1 .. n -> S] : f = SetToSeq(S) /\ IsInjective(f)
    BY <1>2 DEF SetToSeq
  <1>4. f \in Seq(S)
    BY <1>1, <1>3, IsASeq
  <1>5. f \in Injection(1 .. n, S)
    BY <1>3 DEF Injection, IsInjective
  <1>6. IsFiniteSet(1 .. n) /\ Cardinality(1 .. n) = n
    BY <1>1, FS_Interval
  <1>7. f \in Surjection(1 .. n, S)
    BY <1>5, <1>6, FS_Injection
  <1>8. ToSet(f) = S
    BY <1>3, <1>7 DEF Surjection, ToSet
  <1> QED
    BY <1>3, <1>4, <1>8

LEMMA ConcatList ==
  ASSUME NEW S, NEW a \in Seq(S), NEW b \in Seq(S)
  PROVE  /\ a \o b \in Seq(S)
         /\ ToSet(a \o b) = ToSet(a) \union ToSet(b)
         /\ IsInjective(a \o b) <=>
              IsInjective(a) /\ IsInjective(b) /\ ToSet(a) \intersect ToSet(b) = {}
  <1>1. a \o b \in Seq(S) /\ Len(a \o b) = Len(a) + Len(b)
    OBVIOUS
  <1>2. \A i \in 1 .. Len(a) : (a \o b)[i] = a[i] /\ i \in 1 .. Len(a \o b)
    OBVIOUS
  <1>3. \A i \in 1 .. Len(b) :
          (a \o b)[Len(a) + i] = b[i] /\ Len(a) + i \in 1 .. Len(a \o b)
    OBVIOUS
  <1>4. ASSUME NEW i \in 1 .. Len(a \o b)
        PROVE  \/ i \in 1 .. Len(a)
               \/ \E j \in 1 .. Len(b) : i = Len(a) + j
    <2>1. CASE i <= Len(a)
      BY <2>1
    <2>2. CASE i > Len(a)
      <3>1. i - Len(a) \in 1 .. Len(b) /\ i = Len(a) + (i - Len(a))
        BY <1>1, <2>2
      <3> QED
        BY <3>1
    <2> QED
      BY <1>1, <2>1, <2>2
  <1>5. ToSet(a \o b) = ToSet(a) \union ToSet(b)
    <2>1. /\ ToSet(a) = {a[i] : i \in 1 .. Len(a)}
          /\ ToSet(b) = {b[i] : i \in 1 .. Len(b)}
          /\ ToSet(a \o b) = {(a \o b)[i] : i \in 1 .. Len(a \o b)}
      BY <1>1 DEF ToSet
    <2> HIDE <1>1
    <2>2. ASSUME NEW x \in ToSet(a \o b) PROVE x \in ToSet(a) \union ToSet(b)
      <3>1. PICK i \in 1 .. Len(a \o b) : x = (a \o b)[i]
        BY <2>1, <2>2
      <3> QED
        BY <1>2, <1>3, <1>4, <2>1, <3>1
    <2>3. \A x \in ToSet(a) \union ToSet(b) : x \in ToSet(a \o b)
      BY <1>2, <1>3, <2>1
    <2> QED
      BY <2>2, <2>3
  <1>6. ASSUME IsInjective(a \o b)
        PROVE  IsInjective(a) /\ IsInjective(b) /\ ToSet(a) \intersect ToSet(b) = {}
    <2>1. \A i, j \in 1 .. Len(a \o b) : (a \o b)[i] = (a \o b)[j] => i = j
      BY <1>1, <1>6 DEF IsInjective
    <2>2. IsInjective(a)
      BY <1>2, <2>1 DEF IsInjective
    <2>3. ASSUME NEW i \in 1 .. Len(b), NEW j \in 1 .. Len(b), b[i] = b[j] PROVE i = j
      <3>1. Len(a) + i = Len(a) + j
        BY <1>3, <2>1, <2>3
      <3> QED
        BY <3>1
    <2>4. ASSUME NEW i \in 1 .. Len(a), NEW j \in 1 .. Len(b), a[i] = b[j] PROVE FALSE
      <3>1. i = Len(a) + j
        BY <1>2, <1>3, <2>1, <2>4
      <3> QED
        BY <3>1
    <2> QED
      BY <2>2, <2>3, <2>4 DEF IsInjective, ToSet
  <1>7. ASSUME IsInjective(a), IsInjective(b), ToSet(a) \intersect ToSet(b) = {},
               NEW i \in 1 .. Len(a \o b), NEW j \in 1 .. Len(a \o b),
               (a \o b)[i] = (a \o b)[j]
        PROVE  i = j
    <2>1. \A k \in 1 .. Len(a), l \in 1 .. Len(b) : a[k] # b[l]
      BY <1>7 DEF ToSet
    <2>2. CASE i \in 1 .. Len(a) /\ j \in 1 .. Len(a)
      BY <1>2, <1>7, <2>2 DEF IsInjective
    <2>3. CASE (\E k \in 1 .. Len(b) : i = Len(a) + k) /\ (\E k \in 1 .. Len(b) : j = Len(a) + k)
      <3>1. PICK k \in 1 .. Len(b) : i = Len(a) + k
        BY <2>3
      <3>2. PICK l \in 1 .. Len(b) : j = Len(a) + l
        BY <2>3
      <3> QED
        BY <1>3, <1>7, <3>1, <3>2 DEF IsInjective
    <2>4. CASE i \in 1 .. Len(a) /\ (\E k \in 1 .. Len(b) : j = Len(a) + k)
      <3>1. PICK k \in 1 .. Len(b) : j = Len(a) + k
        BY <2>4
      <3>2. a[i] = b[k]
        BY <1>2, <1>3, <1>7, <2>4, <3>1
      <3> QED
        BY <2>1, <2>4, <3>2
    <2>5. CASE j \in 1 .. Len(a) /\ (\E k \in 1 .. Len(b) : i = Len(a) + k)
      <3>1. PICK k \in 1 .. Len(b) : i = Len(a) + k
        BY <2>5
      <3>2. a[j] = b[k]
        BY <1>2, <1>3, <1>7, <2>5, <3>1
      <3> QED
        BY <2>1, <2>5, <3>2
    <2>6. /\ i \in 1 .. Len(a) \/ (\E k \in 1 .. Len(b) : i = Len(a) + k)
          /\ j \in 1 .. Len(a) \/ (\E k \in 1 .. Len(b) : j = Len(a) + k)
      BY <1>4
    <2> QED
      BY <2>2, <2>3, <2>4, <2>5, <2>6
  <1>8. (IsInjective(a) /\ IsInjective(b) /\ ToSet(a) \intersect ToSet(b) = {})
          => IsInjective(a \o b)
    BY <1>1, <1>7 DEF IsInjective
  <1> QED
    BY <1>1, <1>5, <1>6, <1>8

LEMMA ConsList ==
  ASSUME NEW S, NEW a \in S, NEW s \in Seq(S)
  PROVE  /\ <<a>> \o s \in Seq(S)
         /\ ToSet(<<a>> \o s) = {a} \union ToSet(s)
         /\ IsInjective(<<a>> \o s) <=> IsInjective(s) /\ a \notin ToSet(s)
  <1>1. <<a>> \in Seq(S) /\ ToSet(<<a>>) = {a} /\ IsInjective(<<a>>)
    BY DEF ToSet, IsInjective
  <1>2. {a} \intersect ToSet(s) = {} <=> a \notin ToSet(s)
    OBVIOUS
  <1>3. /\ <<a>> \o s \in Seq(S)
        /\ ToSet(<<a>> \o s) = ToSet(<<a>>) \union ToSet(s)
        /\ IsInjective(<<a>> \o s) <=>
              IsInjective(<<a>>) /\ IsInjective(s) /\ ToSet(<<a>>) \intersect ToSet(s) = {}
    <2> HIDE <1>2
    <2> QED
      BY <1>1, ConcatList
  <1> QED
    BY <1>1, <1>2, <1>3

LEMMA TailList ==
  ASSUME NEW S, NEW s \in Seq(S), s # <<>>, IsInjective(s)
  PROVE  /\ Head(s) \in S /\ Head(s) \in ToSet(s)
         /\ Tail(s) \in Seq(S) /\ IsInjective(Tail(s))
         /\ ToSet(Tail(s)) = ToSet(s) \ {Head(s)}
  <1>1. Len(s) > 0 /\ Head(s) = s[1] /\ Head(s) \in S
    OBVIOUS
  <1>2. /\ Tail(s) \in Seq(S) /\ Len(Tail(s)) = Len(s) - 1
        /\ \A i \in 1 .. Len(s) - 1 : Tail(s)[i] = s[i + 1]
    OBVIOUS
  <1>3. \A i, j \in 1 .. Len(s) : s[i] = s[j] => i = j
    BY DEF IsInjective
  <1>4. ASSUME NEW i \in 1 .. Len(s) - 1, NEW j \in 1 .. Len(s) - 1, Tail(s)[i] = Tail(s)[j]
        PROVE  i = j
    <2>1. i + 1 \in 1 .. Len(s) /\ j + 1 \in 1 .. Len(s) /\ s[i + 1] = s[j + 1]
      BY <1>2, <1>4
    <2>2. i + 1 = j + 1
      BY <1>3, <2>1
    <2> QED
      BY <2>2
  <1>5. \A i \in 1 .. Len(s) - 1 : Tail(s)[i] \in ToSet(s) /\ Tail(s)[i] # Head(s)
    <2>1. SUFFICES ASSUME NEW i \in 1 .. Len(s) - 1
                   PROVE  Tail(s)[i] \in ToSet(s) /\ Tail(s)[i] # Head(s)
      OBVIOUS
    <2>2. i + 1 \in 1 .. Len(s) /\ 1 \in 1 .. Len(s) /\ i + 1 # 1 /\ Tail(s)[i] = s[i + 1]
      BY <1>1, <1>2
    <2> QED
      BY <1>1, <1>3, <2>2 DEF ToSet
  <1>6. ASSUME NEW i \in 1 .. Len(s), s[i] # Head(s)
        PROVE  \E j \in 1 .. Len(s) - 1 : Tail(s)[j] = s[i]
    <2>1. i - 1 \in 1 .. Len(s) - 1 /\ Tail(s)[i - 1] = s[i]
      BY <1>1, <1>2, <1>6
    <2> QED
      BY <2>1
  <1>7. ToSet(s) = {s[i] : i \in 1 .. Len(s)} /\ ToSet(Tail(s)) = {Tail(s)[i] : i \in 1 .. Len(s) - 1}
    <2>1. DOMAIN s = 1 .. Len(s) /\ DOMAIN Tail(s) = 1 .. Len(s) - 1
      BY <1>2
    <2> QED
      BY <2>1 DEF ToSet
  <1>8. Head(s) \in ToSet(s)
    BY <1>1, <1>7
  <1>9. \A x \in ToSet(Tail(s)) : x \in ToSet(s) \ {Head(s)}
    BY <1>5, <1>7
  <1>10. \A x \in ToSet(s) \ {Head(s)} : x \in ToSet(Tail(s))
    BY <1>6, <1>7
  <1>11. IsInjective(Tail(s))
    BY <1>2, <1>4 DEF IsInjective
  <1> QED
    BY <1>1, <1>2, <1>8, <1>9, <1>10, <1>11

-----------------------------------------------------------------------------
(***************************************************************************)
(* The invariant.  Its parts are of an obj O, a currentwhite w and so on,  *)
(* so that a lemma can speak of those before a step, in the middle of it   *)
(* and after it.                                                           *)
(***************************************************************************)
Values  == Memory \union {Nil, Number}
Objects == [kind : Kinds \union {"thread", "free"}, colour : Whites \union {"gray", "black"},
            key : Values, val : Values, at : 0 .. Frame, finalized : BOOLEAN, called : BOOLEAN]
Heaps   == [Memory -> Objects]
Stacks  == [1..Frame -> Values]
Phases  == {"pause", "propagate", "remark upvalues", "remark weak", "remark again",
            "mark finalized", "sweepstring", "sweep", "finalize"}

HeapTyped ==
    /\ mix \in Mixes
    /\ obj \in Heaps
    /\ stack \in Stacks
    /\ white \in Whites
    /\ phase \in Phases
    /\ gray \in Seq(Memory) /\ again \in Seq(Memory) /\ weak \in Seq(Memory)
    /\ tmudata \in Seq(Memory)
    /\ unswept \subseteq Memory

(* References.  A live object is one that does not have the colour of the  *)
(* dead: what a live object refers to is live.                             *)
Alloc(O)     == {o \in Memory : O[o].kind # "free"}
LiveOf(O, w) == {o \in Alloc(O) : O[o].colour # Other(w)}

\* Something the program may hold: not an upvalue, and not dead.
ValueOf(O, w, v) == v \in Memory => v \in LiveOf(O, w) /\ O[v].kind # "upvalue"

RefsOf(O, w, x) ==
    /\ x.kind = "closure" => x.val \in LiveOf(O, w) /\ O[x.val].kind = "upvalue"
    /\ IsUserdata(x) => x.val \in LiveOf(O, w) /\ O[x.val].kind \in Tables
    /\ x.kind = "upvalue" /\ ~IsOpen(x) => ValueOf(O, w, x.val)
    /\ x.kind \in Tables /\ x.val # Nil => ValueOf(O, w, x.key) /\ ValueOf(O, w, x.val)
    /\ x.kind = "string" => x.val = Nil
    /\ IsOpen(x) => x.at \in 1 .. Frame /\ x.colour # "black"

SoundOf(O, w, st, tm) ==
    /\ \A o \in Memory : O[o].kind = "thread" <=> o = Main
    /\ O[Globals].kind = "table"
    /\ Main \in LiveOf(O, w) /\ Globals \in LiveOf(O, w)
    /\ \A i \in 1..Frame : ValueOf(O, w, st[i])
    /\ \A o \in LiveOf(O, w) : RefsOf(O, w, O[o])
    /\ \A o \in ToSet(tm) : o \in LiveOf(O, w) /\ O[o].kind = "file" /\ O[o].finalized

(* Colours.  Nothing is dead while marking goes on, and otherwise whatever *)
(* does not have the current white is to be swept or finalized.            *)
ToBeSwept(O, ph, us, o) ==
    \/ o \in us
    \/ ph = "sweepstring" /\ O[o].kind = "string"
    \/ Main \in us /\ IsOpen(O[o])

\* Of any object, even a dead one.
AnyOf(O) ==
    \A o \in Alloc(O) :
        /\ O[o].called => O[o].finalized
        /\ O[o].kind = "string" => O[o].val = Nil

ColouredOf(O, w, ph, us, tm) ==
    /\ ph \in Marking => \A o \in Alloc(O) : O[o].colour # Other(w)
    /\ ph \notin Marking =>
          \A o \in Alloc(O) : O[o].colour = w \/ o \in ToSet(tm) \/ ToBeSwept(O, ph, us, o)
    /\ ph \in {"pause", "finalize"} => us = {}
    /\ ph \in {"pause"} \union (Marking \ {"mark finalized"}) => tm = <<>>
    /\ AnyOf(O)

\* What an object other than the thread and an open upvalue keeps alive.
Keeps(x) ==
    IF x.kind = "closure" THEN {Globals, x.val}
    ELSE IF x.kind \in Tables
         THEN IF x.val = Nil THEN {}
              ELSE (IF WeakKey(x) THEN {} ELSE {x.key})
                     \union (IF WeakValue(x) THEN {} ELSE {x.val})
         ELSE {x.val}

NotWhite(O, S) == \A v \in S : v \in Memory => O[v].colour \notin Whites
StackOf(st)    == {st[i] : i \in 1..Frame}

\* A black table's key is marked even while it has no value: it may get one.
KeyMarked(O, k) == k \in Memory => k \in Alloc(O) /\ O[k].colour \notin Whites

\* An object that marking has come to, or has still to traverse.
ColourSound(O, x) ==
    /\ x.colour = "black" =>
          NotWhite(O, Keeps(x)) /\ ~StaysGray(x) /\ (x.kind \in Tables => KeyMarked(O, x.key))
    /\ x.colour = "gray" => Traversed(x) \/ x.kind = "string" \/ IsOpen(x)
MarkedOf(O, E) == \A o \in Alloc(O) \ E : ColourSound(O, O[o])

LinkedOf(O, g, a, k) ==
    /\ IsInjective(g) /\ IsInjective(a) /\ IsInjective(k)
    /\ ToSet(g) \intersect ToSet(a) = {}
    /\ ToSet(g) \intersect ToSet(k) = {}
    /\ ToSet(a) \intersect ToSet(k) = {}
    /\ ToSet(g) \union ToSet(a) \union ToSet(k) =
          {o \in Alloc(O) : O[o].colour = "gray" /\ Traversed(O[o])}

WeakOf(O, k) == \A o \in ToSet(k) : O[o].kind \in Tables \ {"table"}

\* What the steps of atomic have found so far.
OpensMarked(O, st) ==
    \A o \in Alloc(O) : IsOpen(O[o]) /\ O[o].colour = "gray" => NotWhite(O, {st[O[o].at]})
WeakMarked(O, k)       == \A o \in ToSet(k) : NotWhite(O, Keeps(O[o]))
AgainMarked(O, st, a)  == \A o \in ToSet(a) : o = Main /\ NotWhite(O, {Globals} \union StackOf(st))
RemarkedOf(O, st, ph, a, k, tm) ==
    /\ ph \in Atomic => OpensMarked(O, st)
    /\ ph \in {"remark weak", "remark again", "mark finalized"} => WeakMarked(O, k)
    /\ ph \in {"remark again", "mark finalized"} => AgainMarked(O, st, a)
    /\ ph = "mark finalized" => NotWhite(O, ToSet(tm))

MarkOf(O, st, ph, g, a, k, tm) ==
    ph \in Marking =>
        /\ NotWhite(O, {Main, Globals})
        /\ MarkedOf(O, {})
        /\ LinkedOf(O, g, a, k)
        /\ WeakOf(O, k)
        /\ RemarkedOf(O, st, ph, a, k, tm)

GCInv ==
    /\ HeapTyped
    /\ SoundOf(obj, white, stack, tmudata)
    /\ ColouredOf(obj, white, phase, unswept, tmudata)
    /\ MarkOf(obj, stack, phase, gray, again, weak, tmudata)

-----------------------------------------------------------------------------
(* Constants and the first facts about them.                               *)

LEMMA MemoryIs ==
  /\ Size \in Nat /\ Slots \in Nat /\ Slots > 0 /\ Frame \in Nat /\ Frame = Slots + 1
  /\ Frame \in 1..Frame /\ 1..Slots \subseteq 1..Frame /\ 1..Frame \subseteq Nat \ {0}
  /\ Main \in Memory /\ Globals \in Memory /\ Main # Globals
  /\ Nil \notin Memory /\ Number \notin Memory /\ Nil # Number
  /\ \A v \in Values : Collectable(v) <=> v \in Memory
  /\ IsFiniteSet(Memory)
  /\ \A S \in SUBSET Memory : IsFiniteSet(S)
  <1>1. Size \in Nat /\ Slots \in Nat /\ Slots > 0
    BY GCAssumption
  <1>2. IsFiniteSet(Memory)
    BY <1>1, FS_Interval DEF Memory
  <1>3. \A S \in SUBSET Memory : IsFiniteSet(S)
    BY <1>2, FS_Subset
  <1>4. Main \in Memory /\ Globals \in Memory /\ Main # Globals
    BY <1>1 DEF Memory, Main, Globals
  <1>5. /\ Nil \notin Memory /\ Number \notin Memory /\ Nil # Number
        /\ \A v \in Values : Collectable(v) <=> v \in Memory
    BY <1>1 DEF Memory, Nil, Number, Values, Collectable
  <1>6. /\ Frame \in Nat /\ Frame = Slots + 1
        /\ Frame \in 1..Frame /\ 1..Slots \subseteq 1..Frame /\ 1..Frame \subseteq Nat \ {0}
    BY <1>1 DEF Frame
  <1> QED
    BY <1>1, <1>2, <1>3, <1>4, <1>5, <1>6

LEMMA OtherIs ==
  ASSUME NEW w \in Whites
  PROVE  /\ Other(w) \in Whites /\ Other(w) # w /\ Other(Other(w)) = w
         /\ Whites = {w, Other(w)}
         /\ "gray" \notin Whites /\ "black" \notin Whites
  <1>1. \E d \in Whites : d # w
    BY DEF Whites
  <1>2. Other(w) \in Whites /\ Other(w) # w
    BY <1>1 DEF Other
  <1>3. Whites = {w, Other(w)}
    BY <1>2 DEF Whites
  <1>4. \E d \in Whites : d # Other(w)
    BY <1>2
  <1>5. Other(Other(w)) \in Whites /\ Other(Other(w)) # Other(w)
    BY <1>4 DEF Other
  <1>6. Other(Other(w)) = w
    BY <1>3, <1>5
  <1> QED
    BY <1>2, <1>3, <1>6 DEF Whites

\* No colour of an object decides what it keeps alive.
LEMMA StrongIs ==
  ASSUME NEW x, x.kind # "thread", ~IsOpen(x)
  PROVE  Strong(x) = Keeps(x)
  BY DEF Strong, Keeps, IsOpen, UpvalueOf, Tables

LEMMA StrongThread ==
  ASSUME NEW x, x.kind = "thread"
  PROVE  Strong(x) = {Globals} \union StackOf(stack)
  BY DEF Strong, StackOf, Tables

LEMMA StrongOpen ==
  ASSUME NEW x, IsOpen(x)
  PROVE  Strong(x) = {stack[x.at]}
  BY DEF Strong, IsOpen, UpvalueOf, Tables

-----------------------------------------------------------------------------
(* Soundness grows with what is live.                                      *)

SameRefs(x, y) ==
    /\ x.kind = y.kind /\ x.val = y.val /\ x.at = y.at
    /\ x.kind \in Tables /\ x.val # Nil => x.key = y.key
    /\ IsOpen(x) => y.colour # "black"

\* What refers to live objects still does when nothing dies.
LEMMA ValueGrows ==
  ASSUME NEW w, NEW O, NEW O2, NEW v,
         \A o \in LiveOf(O, w) : o \in LiveOf(O2, w) /\ O2[o].kind = O[o].kind,
         ValueOf(O, w, v)
  PROVE  ValueOf(O2, w, v)
  BY DEF ValueOf

LEMMA RefsGrow ==
  ASSUME NEW w, NEW O, NEW O2, NEW x, NEW y,
         \A o \in LiveOf(O, w) : o \in LiveOf(O2, w) /\ O2[o].kind = O[o].kind,
         RefsOf(O, w, x), SameRefs(x, y)
  PROVE  RefsOf(O2, w, y)
  <1>1. \A v : ValueOf(O, w, v) => ValueOf(O2, w, v)
    BY ValueGrows
  <1>2. /\ y.kind = "closure" => y.val \in LiveOf(O2, w) /\ O2[y.val].kind = "upvalue"
        /\ IsUserdata(y) => y.val \in LiveOf(O2, w) /\ O2[y.val].kind \in Tables
    BY DEF RefsOf, SameRefs, IsUserdata
  <1>3. /\ y.kind = "upvalue" /\ ~IsOpen(y) => ValueOf(O2, w, y.val)
        /\ y.kind \in Tables /\ y.val # Nil => ValueOf(O2, w, y.key) /\ ValueOf(O2, w, y.val)
    BY <1>1 DEF RefsOf, SameRefs, IsOpen
  <1>4. /\ y.kind = "string" => y.val = Nil
        /\ IsOpen(y) => y.at \in 1 .. Frame /\ y.colour # "black"
    BY DEF RefsOf, SameRefs, IsOpen
  <1> QED
    BY <1>2, <1>3, <1>4 DEF RefsOf

LEMMA SoundGrows ==
  ASSUME NEW w, NEW O, NEW O2, NEW st, NEW st2, NEW tm, NEW tm2,
         SoundOf(O, w, st, tm),
         \A o \in LiveOf(O, w) : o \in LiveOf(O2, w) /\ O2[o].kind = O[o].kind,
         \A o \in LiveOf(O2, w) :
            \/ o \in LiveOf(O, w) /\ SameRefs(O[o], O2[o])
            \/ RefsOf(O2, w, O2[o]),
         \A o \in Memory : O2[o].kind = "thread" <=> o = Main,
         \A i \in 1..Frame : ValueOf(O, w, st2[i]) \/ ValueOf(O2, w, st2[i]),
         \A o \in ToSet(tm2) : o \in LiveOf(O2, w) /\ O2[o].kind = "file" /\ O2[o].finalized
  PROVE  SoundOf(O2, w, st2, tm2)
  <1>1. \A i \in 1..Frame : ValueOf(O2, w, st2[i])
    BY ValueGrows
  <1>2. \A o \in LiveOf(O2, w) : RefsOf(O2, w, O2[o])
    <2>1. SUFFICES ASSUME NEW o \in LiveOf(O2, w), o \in LiveOf(O, w), SameRefs(O[o], O2[o])
                   PROVE  RefsOf(O2, w, O2[o])
      OBVIOUS
    <2>2. RefsOf(O, w, O[o])
      BY <2>1 DEF SoundOf
    <2> QED
      BY <2>1, <2>2, RefsGrow
  <1>3. Main \in LiveOf(O2, w) /\ Globals \in LiveOf(O2, w) /\ O2[Globals].kind = "table"
    BY DEF SoundOf
  <1> QED
    BY <1>1, <1>2, <1>3 DEF SoundOf

-----------------------------------------------------------------------------
(* Marking.                                                                *)

Marks == [obj : Heaps, gray : Seq(Memory), again : Seq(Memory), weak : Seq(Memory)]

\* Nothing is dead.
NoneDead(O, w) == \A o \in Alloc(O) : O[o].colour # Other(w)

Painted(x)     == [x EXCEPT !.colour = MarkedColour(x)]
Traversing(O, R) == {o \in R : Traversed(O[o])}

LEMMA NoneDeadLive ==
  ASSUME NEW w, NEW O, NoneDead(O, w)
  PROVE  LiveOf(O, w) = Alloc(O)
  BY DEF NoneDead, LiveOf

\* The values that marking reaches: white ones, allocated, those of S at least,
\* and what one that is not put on the list keeps alive.
LEMMA ReachedIs ==
  ASSUME NEW m \in Marks, NEW S \in SUBSET Values, NEW w \in Whites, NEW tm,
         stack \in Stacks, SoundOf(m.obj, w, stack, tm), NoneDead(m.obj, w),
         \A v \in S : v \in Memory => v \in Alloc(m.obj)
  PROVE  /\ Reached(m, S) \subseteq Alloc(m.obj)
         /\ \A o \in Reached(m, S) : m.obj[o].colour \in Whites
         /\ \A v \in S : v \in Memory /\ m.obj[v].colour \in Whites => v \in Reached(m, S)
         /\ \A o \in Reached(m, S) : m.obj[o].kind = "upvalue" =>
               LET v == UpvalueOf(m.obj[o])
               IN  v \in Memory /\ m.obj[v].colour \in Whites => v \in Reached(m, S)
         /\ \A o \in Reached(m, S) : IsUserdata(m.obj[o]) =>
               LET v == m.obj[o].val
               IN  v \in Memory /\ m.obj[v].colour \in Whites => v \in Reached(m, S)
  <1> DEFINE ups    == {v \in WhiteOf(m, S) : m.obj[v].kind = "upvalue"}
             values == S \union {UpvalueOf(m.obj[u]) : u \in ups}
             uds    == {v \in WhiteOf(m, values) : IsUserdata(m.obj[v])}
             envs   == {m.obj[u].val : u \in uds}
  <1>1. \A v \in Values : Collectable(v) <=> v \in Memory
    BY MemoryIs
  <1>2. \A T \in SUBSET Values :
          WhiteOf(m, T) = {v \in T : v \in Memory /\ m.obj[v].colour \in Whites}
    BY <1>1 DEF WhiteOf, IsWhite
  <1>3. Alloc(m.obj) = LiveOf(m.obj, w) /\ Alloc(m.obj) \subseteq Memory
    BY NoneDeadLive DEF Alloc
  <1>4. ASSUME NEW u \in Alloc(m.obj), m.obj[u].kind = "upvalue"
        PROVE  /\ UpvalueOf(m.obj[u]) \in Values
               /\ UpvalueOf(m.obj[u]) \in Memory =>
                    /\ UpvalueOf(m.obj[u]) \in Alloc(m.obj)
                    /\ m.obj[UpvalueOf(m.obj[u])].kind # "upvalue"
    <2>1. RefsOf(m.obj, w, m.obj[u])
      BY <1>3, <1>4 DEF SoundOf
    <2>2. CASE IsOpen(m.obj[u])
      <3>1. m.obj[u].at \in 1..Frame
        BY <2>1, <2>2 DEF RefsOf
      <3>2. stack[m.obj[u].at] \in Values /\ ValueOf(m.obj, w, stack[m.obj[u].at])
        BY <3>1 DEF SoundOf, Stacks, Values
      <3> QED
        BY <1>3, <2>2, <3>2 DEF UpvalueOf, ValueOf
    <2>3. CASE ~IsOpen(m.obj[u])
      <3>1. ValueOf(m.obj, w, m.obj[u].val)
        BY <1>4, <2>1, <2>3 DEF RefsOf
      <3>2. m.obj[u].val \in Values
        BY <1>3, <1>4 DEF Marks, Heaps, Objects
      <3> QED
        BY <1>3, <2>3, <3>1, <3>2 DEF UpvalueOf, ValueOf
    <2> QED
      BY <2>2, <2>3
  <1>5. ASSUME NEW u \in Alloc(m.obj), IsUserdata(m.obj[u])
        PROVE  m.obj[u].val \in Alloc(m.obj) /\ m.obj[m.obj[u].val].kind \in Tables
    <2>1. RefsOf(m.obj, w, m.obj[u])
      BY <1>3, <1>5 DEF SoundOf
    <2> QED
      BY <1>3, <1>5, <2>1 DEF RefsOf
  <1>6. WhiteOf(m, S) \subseteq Alloc(m.obj) /\ ups \subseteq Alloc(m.obj)
    BY <1>2
  <1>7. values \subseteq Values /\ \A v \in values : v \in Memory => v \in Alloc(m.obj)
    BY <1>4, <1>6
  <1>8. uds \subseteq Alloc(m.obj)
    BY <1>2, <1>7
  <1>9. values \union envs \subseteq Values
          /\ \A v \in values \union envs : v \in Memory => v \in Alloc(m.obj)
    BY <1>3, <1>5, <1>7, <1>8 DEF Values
  <1>10. Reached(m, S) = {v \in values \union envs : v \in Memory /\ m.obj[v].colour \in Whites}
    <2>1. Reached(m, S) = WhiteOf(m, values \union envs)
      BY DEF Reached
    <2> HIDE DEF values, envs
    <2> QED
      BY <1>2, <1>9, <2>1
  <1>11. Reached(m, S) \subseteq Alloc(m.obj) /\ \A o \in Reached(m, S) : m.obj[o].colour \in Whites
    <2> HIDE DEF values, envs
    <2> QED
      BY <1>9, <1>10
  <1>12. \A v \in S : v \in Memory /\ m.obj[v].colour \in Whites => v \in Reached(m, S)
    <2> HIDE DEF envs
    <2> QED
      BY <1>10
  <1>13. \A v \in envs : m.obj[v].kind \in Tables
    BY <1>5, <1>8
  <1>14. \A v \in values : v \in Memory /\ m.obj[v].kind = "upvalue" => v \in S
    BY <1>4, <1>6
  <1>15. ASSUME NEW o \in Reached(m, S), m.obj[o].kind = "upvalue"
         PROVE  LET v == UpvalueOf(m.obj[o])
                IN  v \in Memory /\ m.obj[v].colour \in Whites => v \in Reached(m, S)
    <2>1. o \in S /\ o \in Memory /\ m.obj[o].colour \in Whites
      <3> HIDE DEF values, envs
      <3> QED
        BY <1>10, <1>13, <1>14, <1>15 DEF Tables
    <2>2. o \in ups
      BY <1>2, <1>15, <2>1
    <2>3. UpvalueOf(m.obj[o]) \in values
      BY <2>2
    <2> HIDE DEF values, envs
    <2> QED
      BY <1>10, <2>3
  <1>16. ASSUME NEW o \in Reached(m, S), IsUserdata(m.obj[o])
         PROVE  LET v == m.obj[o].val
                IN  v \in Memory /\ m.obj[v].colour \in Whites => v \in Reached(m, S)
    <2>1. o \in values /\ o \in Memory /\ m.obj[o].colour \in Whites
      <3> HIDE DEF values, envs
      <3> QED
        BY <1>10, <1>13, <1>16 DEF Tables, IsUserdata
    <2>2. o \in uds
      <3> HIDE DEF values
      <3> QED
        BY <1>2, <1>7, <1>16, <2>1
    <2>3. m.obj[o].val \in envs
      BY <2>2
    <2> HIDE DEF values, envs
    <2> QED
      BY <1>10, <2>3
  <1> QED
    BY <1>11, <1>12, <1>15, <1>16

LEMMA MarksExcept ==
  ASSUME NEW m \in Marks, NEW a, NEW b
  PROVE  [m EXCEPT !.obj = a, !.gray = b]
            = [obj |-> a, gray |-> b, again |-> m.again, weak |-> m.weak]
  <1>1. PICK g, h, k, l : m = [obj |-> g, gray |-> h, again |-> k, weak |-> l]
    BY DEF Marks
  <1>2. m.again = k /\ m.weak = l
    BY <1>1
  <1>3. [m EXCEPT !.obj = a] = [obj |-> a, gray |-> h, again |-> k, weak |-> l]
    BY <1>1
  <1>4. ASSUME NEW z, z = [obj |-> a, gray |-> h, again |-> k, weak |-> l]
        PROVE  [z EXCEPT !.gray = b] = [obj |-> a, gray |-> b, again |-> k, weak |-> l]
    BY <1>4
  <1>5. [m EXCEPT !.obj = a, !.gray = b] = [[m EXCEPT !.obj = a] EXCEPT !.gray = b]
    BY DEF Marks
  <1>6. [[m EXCEPT !.obj = a] EXCEPT !.gray = b]
           = [obj |-> a, gray |-> b, again |-> k, weak |-> l]
    BY <1>3, <1>4
  <1> QED
    BY <1>2, <1>5, <1>6

\* What MarkAll does to the objects and to the lists.
LEMMA MarkAllIs ==
  ASSUME NEW m \in Marks, NEW S,
         Reached(m, S) \subseteq Alloc(m.obj)
  PROVE  /\ MarkAll(m, S) \in Marks
         /\ MarkAll(m, S).again = m.again /\ MarkAll(m, S).weak = m.weak
         /\ \A o \in Memory :
               MarkAll(m, S).obj[o] = IF o \in Reached(m, S) THEN Painted(m.obj[o]) ELSE m.obj[o]
         /\ ToSet(MarkAll(m, S).gray) = Traversing(m.obj, Reached(m, S)) \union ToSet(m.gray)
         /\ IsInjective(MarkAll(m, S).gray) <=>
               IsInjective(m.gray) /\ Traversing(m.obj, Reached(m, S)) \intersect ToSet(m.gray) = {}
  <1> DEFINE new == Reached(m, S)
             q   == SetToSeq(Traversing(m.obj, new))
             O2  == [o \in Memory |-> IF o \in new THEN Painted(m.obj[o]) ELSE m.obj[o]]
  <1>1. MarkAll(m, S) = [m EXCEPT !.obj = O2, !.gray = q \o @]
    BY DEF MarkAll, Painted, Traversing
  <1>2. /\ m.obj \in Heaps /\ m.gray \in Seq(Memory) /\ m.again \in Seq(Memory)
        /\ m.weak \in Seq(Memory)
    BY DEF Marks
  <1>3. Traversing(m.obj, new) \subseteq Memory
    BY DEF Traversing, Alloc
  <1>4. IsFiniteSet(Traversing(m.obj, new))
    BY <1>3, MemoryIs
  <1>5. q \in Seq(Traversing(m.obj, new)) /\ IsInjective(q) /\ ToSet(q) = Traversing(m.obj, new)
    BY <1>4, SetToSeqIs
  <1>6. q \in Seq(Memory)
    <2> HIDE DEF q
    <2> QED
      BY <1>3, <1>5
  <1>7. /\ q \o m.gray \in Seq(Memory)
        /\ ToSet(q \o m.gray) = ToSet(q) \union ToSet(m.gray)
        /\ IsInjective(q \o m.gray) <=>
             IsInjective(q) /\ IsInjective(m.gray) /\ ToSet(q) \intersect ToSet(m.gray) = {}
    <2> HIDE DEF q
    <2> QED
      BY <1>2, <1>6, ConcatList
  <1>8. O2 \in Heaps
    <2>1. \A o \in Memory : m.obj[o] \in Objects
      BY <1>2 DEF Heaps
    <2>2. \A x \in Objects : Painted(x) \in Objects
      BY DEF Objects, Painted, MarkedColour
    <2> QED
      BY <2>1, <2>2 DEF Heaps
  <1>9. [m EXCEPT !.obj = O2, !.gray = q \o @]
          = [obj |-> O2, gray |-> q \o m.gray, again |-> m.again, weak |-> m.weak]
    <2> HIDE DEF q, O2
    <2> QED
      BY MarksExcept
  <1>10. MarkAll(m, S) = [obj |-> O2, gray |-> q \o m.gray, again |-> m.again, weak |-> m.weak]
    BY <1>1, <1>9
  <1>11. /\ MarkAll(m, S).obj = O2 /\ MarkAll(m, S).gray = q \o m.gray
         /\ MarkAll(m, S).again = m.again /\ MarkAll(m, S).weak = m.weak
    <2> HIDE DEF q, O2
    <2> QED
      BY <1>10
  <1>12. MarkAll(m, S) \in Marks
    <2> HIDE DEF q, O2
    <2> QED
      BY <1>2, <1>7, <1>8, <1>10 DEF Marks
  <1>13. \A o \in Memory : O2[o] = IF o \in new THEN Painted(m.obj[o]) ELSE m.obj[o]
    OBVIOUS
  <1> HIDE DEF q, O2
  <1> QED
    BY <1>5, <1>7, <1>11, <1>12, <1>13

\* Objects as they were but for their colours, and no whiter.
Darker(O, O2) ==
    \A o \in Memory :
        \/ O2[o] = O[o]
        \/ O2[o] = Painted(O[o]) /\ O[o].colour \in Whites

LEMMA PaintedIs ==
  ASSUME NEW x \in Objects
  PROVE  LET y == Painted(x) IN
         /\ y \in Objects
         /\ y.kind = x.kind /\ y.key = x.key /\ y.val = x.val /\ y.at = x.at
         /\ y.finalized = x.finalized /\ y.called = x.called
         /\ y.colour = MarkedColour(x) /\ y.colour \in {"gray", "black"} /\ y.colour \notin Whites
         /\ y.colour = "black" <=> IsUserdata(x) \/ (x.kind = "upvalue" /\ ~IsOpen(x))
  BY DEF Painted, MarkedColour, Objects, Whites

LEMMA DarkerIs ==
  ASSUME NEW O \in Heaps, NEW O2 \in Heaps, Darker(O, O2)
  PROVE  /\ \A o \in Memory :
              /\ O2[o].kind = O[o].kind /\ O2[o].key = O[o].key /\ O2[o].val = O[o].val
              /\ O2[o].at = O[o].at
              /\ O2[o].finalized = O[o].finalized /\ O2[o].called = O[o].called
              /\ O[o].colour \notin Whites => O2[o].colour = O[o].colour
              /\ O2[o].colour = O[o].colour \/ O2[o].colour \notin Whites
              /\ IsOpen(O[o]) /\ O[o].colour # "black" => O2[o].colour # "black"
         /\ Alloc(O2) = Alloc(O)
         /\ \A S : NotWhite(O, S) => NotWhite(O2, S)
  <1>1. ASSUME NEW o \in Memory
        PROVE  /\ O2[o].kind = O[o].kind /\ O2[o].key = O[o].key /\ O2[o].val = O[o].val
               /\ O2[o].at = O[o].at
               /\ O2[o].finalized = O[o].finalized /\ O2[o].called = O[o].called
               /\ O[o].colour \notin Whites => O2[o].colour = O[o].colour
               /\ O2[o].colour = O[o].colour \/ O2[o].colour \notin Whites
               /\ IsOpen(O[o]) /\ O[o].colour # "black" => O2[o].colour # "black"
    <2>1. O[o] \in Objects
      BY DEF Heaps
    <2>2. O2[o] = O[o] \/ (O2[o] = Painted(O[o]) /\ O[o].colour \in Whites)
      BY DEF Darker
    <2> QED
      BY <2>1, <2>2, PaintedIs DEF IsOpen, IsUserdata
  <1>2. Alloc(O2) = Alloc(O)
    BY <1>1 DEF Alloc
  <1>3. \A S : NotWhite(O, S) => NotWhite(O2, S)
    BY <1>1 DEF NotWhite
  <1> QED
    BY <1>1, <1>2, <1>3

LEMMA DarkerKinds ==
  ASSUME NEW O \in Heaps, NEW O2 \in Heaps, Darker(O, O2)
  PROVE  \A o \in Memory : O2[o].kind = O[o].kind
  BY DarkerIs

\* Nothing dies, and what was sound stays so.
LEMMA DarkerSound ==
  ASSUME NEW O \in Heaps, NEW O2 \in Heaps, Darker(O, O2),
         NEW w \in Whites, NEW st, NEW tm, SoundOf(O, w, st, tm), NoneDead(O, w)
  PROVE  SoundOf(O2, w, st, tm) /\ NoneDead(O2, w)
  <1>1. /\ \A o \in Memory :
              /\ O2[o].kind = O[o].kind /\ O2[o].key = O[o].key /\ O2[o].val = O[o].val
              /\ O2[o].at = O[o].at
              /\ O2[o].finalized = O[o].finalized
              /\ O2[o].colour = O[o].colour \/ O2[o].colour \notin Whites
              /\ IsOpen(O[o]) /\ O[o].colour # "black" => O2[o].colour # "black"
        /\ Alloc(O2) = Alloc(O)
    BY DarkerIs
  <1>2. NoneDead(O2, w)
    BY <1>1, OtherIs DEF NoneDead, Alloc
  <1>3. LiveOf(O, w) = Alloc(O) /\ LiveOf(O2, w) = Alloc(O) /\ Alloc(O) \subseteq Memory
    BY <1>1, <1>2, NoneDeadLive DEF Alloc
  <1>4. ASSUME NEW o \in LiveOf(O2, w) PROVE o \in LiveOf(O, w) /\ SameRefs(O[o], O2[o])
    <2>1. RefsOf(O, w, O[o])
      BY <1>3, <1>4 DEF SoundOf
    <2> QED
      BY <1>1, <1>3, <1>4, <2>1 DEF SameRefs, RefsOf
  <1>5. \A o \in Memory : O2[o].kind = "thread" <=> o = Main
    BY <1>1 DEF SoundOf
  <1>6. \A o \in ToSet(tm) : o \in LiveOf(O2, w) /\ O2[o].kind = "file" /\ O2[o].finalized
    BY <1>1, <1>3 DEF SoundOf
  <1>7. \A i \in 1..Frame : ValueOf(O, w, st[i])
    BY DEF SoundOf
  <1>8. \A o \in LiveOf(O, w) : o \in LiveOf(O2, w) /\ O2[o].kind = O[o].kind
    BY <1>1, <1>3
  <1>9. SoundOf(O2, w, st, tm)
    BY <1>4, <1>5, <1>6, <1>7, <1>8, SoundGrows
  <1> QED
    BY <1>2, <1>9

\* Everything that one marking, of the values of S, does for the invariant.
LEMMA MarkAllMarks ==
  ASSUME NEW m \in Marks, NEW S \in SUBSET Values, NEW w \in Whites, NEW tm,
         stack \in Stacks, SoundOf(m.obj, w, stack, tm), NoneDead(m.obj, w),
         \A v \in S : v \in Memory => v \in Alloc(m.obj)
  PROVE  LET n == MarkAll(m, S) IN
         /\ n \in Marks /\ n.again = m.again /\ n.weak = m.weak
         /\ Darker(m.obj, n.obj)
         /\ NotWhite(n.obj, S)
         /\ \A E : MarkedOf(m.obj, E) => MarkedOf(n.obj, E)
         /\ OpensMarked(m.obj, stack) => OpensMarked(n.obj, stack)
         /\ \A o \in Alloc(n.obj) : IsOpen(n.obj[o]) /\ n.obj[o].colour = "gray" =>
               m.obj[o].colour = "gray" \/ NotWhite(n.obj, {stack[n.obj[o].at]})
         /\ LinkedOf(m.obj, m.gray, m.again, m.weak) => LinkedOf(n.obj, n.gray, n.again, n.weak)
  <1> DEFINE n == MarkAll(m, S)
             R == Reached(m, S)
  <1>1. /\ R \subseteq Alloc(m.obj)
        /\ \A o \in R : m.obj[o].colour \in Whites
        /\ \A v \in S : v \in Memory /\ m.obj[v].colour \in Whites => v \in R
        /\ \A o \in R : m.obj[o].kind = "upvalue" =>
             LET v == UpvalueOf(m.obj[o])
             IN  v \in Memory /\ m.obj[v].colour \in Whites => v \in R
        /\ \A o \in R : IsUserdata(m.obj[o]) =>
             LET v == m.obj[o].val
             IN  v \in Memory /\ m.obj[v].colour \in Whites => v \in R
    BY ReachedIs
  <1>2. /\ n \in Marks
        /\ n.again = m.again /\ n.weak = m.weak
        /\ \A o \in Memory : n.obj[o] = IF o \in R THEN Painted(m.obj[o]) ELSE m.obj[o]
        /\ ToSet(n.gray) = Traversing(m.obj, R) \union ToSet(m.gray)
        /\ IsInjective(n.gray) <=>
              IsInjective(m.gray) /\ Traversing(m.obj, R) \intersect ToSet(m.gray) = {}
    BY <1>1, MarkAllIs
  <1> HIDE DEF n, R
  <1>3. m.obj \in Heaps /\ n.obj \in Heaps /\ \A o \in Memory : m.obj[o] \in Objects
    BY <1>2 DEF Marks, Heaps
  <1>4. Darker(m.obj, n.obj)
    BY <1>1, <1>2 DEF Darker, Alloc
  <1>5. /\ \A o \in Memory :
              /\ n.obj[o].kind = m.obj[o].kind /\ n.obj[o].key = m.obj[o].key
              /\ n.obj[o].val = m.obj[o].val /\ n.obj[o].at = m.obj[o].at
              /\ m.obj[o].colour \notin Whites => n.obj[o].colour = m.obj[o].colour
        /\ Alloc(n.obj) = Alloc(m.obj)
        /\ \A T : NotWhite(m.obj, T) => NotWhite(n.obj, T)
    BY <1>3, <1>4, DarkerIs
  <1>6. \A o \in Memory : o \in R =>
          /\ n.obj[o].colour = MarkedColour(m.obj[o])
          /\ n.obj[o].colour \in {"gray", "black"} /\ n.obj[o].colour \notin Whites
          /\ n.obj[o].colour = "black" <=>
                IsUserdata(m.obj[o]) \/ (m.obj[o].kind = "upvalue" /\ ~IsOpen(m.obj[o]))
    BY <1>2, <1>3, PaintedIs
  <1>7. \A o \in Memory : o \notin R => n.obj[o] = m.obj[o]
    BY <1>2
  <1>8. NotWhite(n.obj, S)
    BY <1>1, <1>6, <1>7 DEF NotWhite
  <1>9. \A o \in R : m.obj[o].kind = "upvalue" => NotWhite(n.obj, {UpvalueOf(m.obj[o])})
    BY <1>1, <1>6, <1>7 DEF NotWhite
  <1>10. \A o \in R : IsUserdata(m.obj[o]) => NotWhite(n.obj, {m.obj[o].val})
    BY <1>1, <1>6, <1>7 DEF NotWhite
  <1>11. ASSUME NEW o \in R PROVE ColourSound(n.obj, n.obj[o])
    <2>0. o \in Memory
      BY <1>1 DEF Alloc
    <2>1. CASE IsUserdata(m.obj[o])
      <3>1. Keeps(n.obj[o]) = {m.obj[o].val} /\ ~StaysGray(n.obj[o]) /\ n.obj[o].colour = "black"
        BY <1>5, <1>6, <2>0, <2>1 DEF Keeps, IsUserdata, StaysGray, WeakKey, WeakValue, Tables
      <3> QED
        BY <1>5, <1>10, <2>0, <2>1, <3>1 DEF ColourSound, IsUserdata, Tables
    <2>2. CASE m.obj[o].kind = "upvalue" /\ ~IsOpen(m.obj[o])
      <3>1. Keeps(n.obj[o]) = {UpvalueOf(m.obj[o])} /\ ~StaysGray(n.obj[o]) /\ n.obj[o].colour = "black"
        BY <1>5, <1>6, <2>0, <2>2 DEF Keeps, UpvalueOf, StaysGray, WeakKey, WeakValue, Tables
      <3> QED
        BY <1>5, <1>9, <2>0, <2>2, <3>1 DEF ColourSound, Tables
    <2>3. CASE ~IsUserdata(m.obj[o]) /\ ~(m.obj[o].kind = "upvalue" /\ ~IsOpen(m.obj[o]))
      <3>1. n.obj[o].colour = "gray"
        BY <1>6, <2>0, <2>3
      <3>2. m.obj[o].kind \in Kinds \union {"thread"}
        BY <1>1, <1>3, <2>0 DEF Objects, Alloc
      <3>3. Traversed(n.obj[o]) \/ n.obj[o].kind = "string" \/ IsOpen(n.obj[o])
        BY <1>5, <2>0, <2>3, <3>2 DEF Traversed, IsOpen, IsUserdata, Kinds
      <3> QED
        BY <3>1, <3>3 DEF ColourSound
    <2> QED
      BY <2>1, <2>2, <2>3
  <1>12. ASSUME NEW E, MarkedOf(m.obj, E) PROVE MarkedOf(n.obj, E)
    <2>1. SUFFICES ASSUME NEW o \in Alloc(n.obj) \ E PROVE ColourSound(n.obj, n.obj[o])
      BY DEF MarkedOf
    <2>2. CASE o \notin R
      <3>1. o \in Memory /\ n.obj[o] = m.obj[o] /\ ColourSound(m.obj, m.obj[o])
        BY <1>5, <1>7, <1>12, <2>1, <2>2 DEF MarkedOf, Alloc
      <3> QED
        BY <1>5, <3>1 DEF ColourSound, KeyMarked
    <2> QED
      BY <1>11, <2>2
  <1>13. \A o \in Alloc(n.obj) : IsOpen(n.obj[o]) /\ n.obj[o].colour = "gray" =>
            m.obj[o].colour = "gray" \/ NotWhite(n.obj, {stack[n.obj[o].at]})
    BY <1>1, <1>5, <1>7, <1>9 DEF Alloc, IsOpen, UpvalueOf
  <1>14. OpensMarked(m.obj, stack) => OpensMarked(n.obj, stack)
    BY <1>5, <1>13 DEF OpensMarked, Alloc, IsOpen
  <1>15. ASSUME LinkedOf(m.obj, m.gray, m.again, m.weak)
         PROVE  LinkedOf(n.obj, n.gray, n.again, n.weak)
    <2>1. "gray" \notin Whites
      BY DEF Whites
    <2>2. /\ IsInjective(m.gray) /\ IsInjective(m.again) /\ IsInjective(m.weak)
          /\ ToSet(m.gray) \intersect ToSet(m.again) = {}
          /\ ToSet(m.gray) \intersect ToSet(m.weak) = {}
          /\ ToSet(m.again) \intersect ToSet(m.weak) = {}
          /\ ToSet(m.gray) \union ToSet(m.again) \union ToSet(m.weak) =
                {o \in Alloc(m.obj) : m.obj[o].colour = "gray" /\ Traversed(m.obj[o])}
      BY <1>15 DEF LinkedOf
    <2>3. \A o \in Traversing(m.obj, R) :
             o \notin ToSet(m.gray) /\ o \notin ToSet(m.again) /\ o \notin ToSet(m.weak)
      BY <1>1, <2>1, <2>2 DEF Traversing
    <2>4. {o \in Alloc(n.obj) : n.obj[o].colour = "gray" /\ Traversed(n.obj[o])}
            = {o \in Alloc(m.obj) : m.obj[o].colour = "gray" /\ Traversed(m.obj[o])}
                \union Traversing(m.obj, R)
      <3>1. ASSUME NEW o \in Alloc(m.obj), o \in R
            PROVE  n.obj[o].colour = "gray" /\ Traversed(n.obj[o]) <=> Traversed(m.obj[o])
        BY <1>5, <1>6, <3>1 DEF Traversed, IsUserdata, Tables, Alloc
      <3>2. ASSUME NEW o \in Alloc(m.obj), o \notin R
            PROVE  n.obj[o] = m.obj[o]
        BY <1>7, <3>2 DEF Alloc
      <3>3. \A o \in R : m.obj[o].colour # "gray"
        BY <1>1, <2>1
      <3> QED
        BY <1>1, <1>5, <3>1, <3>2, <3>3 DEF Traversing
    <2> QED
      BY <1>2, <2>2, <2>3, <2>4 DEF LinkedOf
  <1> QED
    BY <1>2, <1>4, <1>8, <1>12, <1>13, <1>14, <1>15 DEF n

-----------------------------------------------------------------------------
(* The steps of marking.                                                   *)

LEMMA EmptyList == ToSet(<<>>) = {} /\ IsInjective(<<>>)
  BY DEF ToSet, IsInjective

LEMMA ListIn ==
  ASSUME NEW S, NEW s \in Seq(S)
  PROVE  ToSet(s) \subseteq S
  <1>1. DOMAIN s = 1 .. Len(s) /\ \A i \in 1 .. Len(s) : s[i] \in S
    OBVIOUS
  <1> QED
    BY <1>1 DEF ToSet

LEMMA MarksIs ==
  ASSUME HeapTyped
  PROVE  /\ M \in Marks
         /\ M.obj = obj /\ M.gray = gray /\ M.again = again /\ M.weak = weak
  BY DEF HeapTyped, M, Marks

\* A record whose lists, or some of them, are replaced.
LEMMA MarksListsAll ==
  ASSUME NEW m \in Marks, NEW g \in Seq(Memory), NEW a \in Seq(Memory), NEW k \in Seq(Memory),
         NEW n, n = [m EXCEPT !.gray = g, !.again = a, !.weak = k]
  PROVE  n \in Marks
  <1>1. \A z \in Marks, s \in Seq(Memory) :
          [z EXCEPT !.gray = s] \in Marks /\ [z EXCEPT !.again = s] \in Marks
            /\ [z EXCEPT !.weak = s] \in Marks
    BY DEF Marks
  <1>2. [m EXCEPT !.gray = g] \in Marks
    BY <1>1
  <1>3. [[m EXCEPT !.gray = g] EXCEPT !.again = a] \in Marks
    BY <1>1, <1>2
  <1>4. [[[m EXCEPT !.gray = g] EXCEPT !.again = a] EXCEPT !.weak = k] \in Marks
    BY <1>1, <1>3
  <1>5. n = [[[m EXCEPT !.gray = g] EXCEPT !.again = a] EXCEPT !.weak = k]
    BY DEF Marks
  <1> QED
    BY <1>4, <1>5

LEMMA MarksGrayWeak ==
  ASSUME NEW m \in Marks, NEW g \in Seq(Memory), NEW k \in Seq(Memory),
         NEW n, n = [m EXCEPT !.gray = g, !.weak = k]
  PROVE  n \in Marks
  <1>1. [m EXCEPT !.gray = g] \in Marks
    BY DEF Marks
  <1>2. \A z \in Marks : [z EXCEPT !.weak = k] \in Marks
    BY DEF Marks
  <1>3. n = [[m EXCEPT !.gray = g] EXCEPT !.weak = k]
    BY DEF Marks
  <1> QED
    BY <1>1, <1>2, <1>3

LEMMA MarksGrayAgain ==
  ASSUME NEW m \in Marks, NEW g \in Seq(Memory), NEW a \in Seq(Memory),
         NEW n, n = [m EXCEPT !.gray = g, !.again = a]
  PROVE  n \in Marks
  <1>1. [m EXCEPT !.gray = g] \in Marks
    BY DEF Marks
  <1>2. \A z \in Marks : [z EXCEPT !.again = a] \in Marks
    BY DEF Marks
  <1>3. n = [[m EXCEPT !.gray = g] EXCEPT !.again = a]
    BY DEF Marks
  <1> QED
    BY <1>1, <1>2, <1>3

LEMMA ColouredMarking ==
  ASSUME NEW O, NEW w, NEW ph \in Marking, NEW us, NEW tm,
         NoneDead(O, w), AnyOf(O), ph # "mark finalized" => tm = <<>>
  PROVE  ColouredOf(O, w, ph, us, tm)
  BY DEF ColouredOf, Marking, Atomic, NoneDead, AnyOf

LEMMA DarkerAny ==
  ASSUME NEW O \in Heaps, NEW O2 \in Heaps, Darker(O, O2), AnyOf(O)
  PROVE  AnyOf(O2)
  BY DarkerIs DEF AnyOf, Alloc

\* A marking that leaves the invariant of its phase as it should be.
LEMMA MarkingStep ==
  ASSUME NEW m \in Marks, NEW S \in SUBSET Values, NEW w \in Whites, NEW tm,
         NEW ph \in Marking, NEW us,
         stack \in Stacks, SoundOf(m.obj, w, stack, tm), NoneDead(m.obj, w), AnyOf(m.obj),
         \A v \in S : v \in Memory => v \in Alloc(m.obj),
         ph # "mark finalized" => tm = <<>>,
         LinkedOf(m.obj, m.gray, m.again, m.weak), WeakOf(m.obj, m.weak),
         NEW n, n = MarkAll(m, S),
         NotWhite(n.obj, {Main, Globals}), MarkedOf(n.obj, {}),
         RemarkedOf(n.obj, stack, ph, m.again, m.weak, tm)
  PROVE  /\ n \in Marks
         /\ SoundOf(n.obj, w, stack, tm)
         /\ ColouredOf(n.obj, w, ph, us, tm)
         /\ MarkOf(n.obj, stack, ph, n.gray, n.again, n.weak, tm)
  <1>1. /\ n \in Marks /\ n.again = m.again /\ n.weak = m.weak
        /\ Darker(m.obj, n.obj)
        /\ LinkedOf(n.obj, n.gray, n.again, n.weak)
    BY MarkAllMarks
  <1>2. m.obj \in Heaps /\ n.obj \in Heaps /\ m.weak \in Seq(Memory)
    BY <1>1 DEF Marks
  <1>3. SoundOf(n.obj, w, stack, tm) /\ NoneDead(n.obj, w)
    BY <1>1, <1>2, DarkerSound
  <1>4. AnyOf(n.obj)
    BY <1>1, <1>2, DarkerAny
  <1>5. ColouredOf(n.obj, w, ph, us, tm)
    BY <1>3, <1>4, ColouredMarking
  <1>6. ToSet(m.weak) \subseteq Memory
    BY <1>2, ListIn
  <1>7. \A o \in Memory : n.obj[o].kind = m.obj[o].kind
    BY <1>1, <1>2, DarkerKinds
  <1>8. WeakOf(n.obj, n.weak)
    BY <1>1, <1>6, <1>7 DEF WeakOf
  <1> QED
    BY <1>1, <1>3, <1>5, <1>8 DEF MarkOf

LEMMA MarkRootKeeps ==
  ASSUME GCInv, MarkRoot
  PROVE  GCInv'
  <1> DEFINE m == [M EXCEPT !.gray = <<>>, !.again = <<>>, !.weak = <<>>]
             S == {Main, Globals}
             n == MarkAll(m, S)
  <1>1. HeapTyped /\ SoundOf(obj, white, stack, tmudata)
          /\ ColouredOf(obj, white, phase, unswept, tmudata)
    BY DEF GCInv
  <1>2. /\ phase = "pause" /\ phase' = "propagate"
        /\ obj' = n.obj /\ gray' = n.gray /\ again' = n.again /\ weak' = n.weak
        /\ mix' = mix /\ stack' = stack /\ white' = white
        /\ unswept' = unswept /\ tmudata' = tmudata
    BY DEF MarkRoot, Becomes
  <1>3. /\ m \in Marks /\ m.obj = obj
        /\ m.gray = <<>> /\ m.again = <<>> /\ m.weak = <<>>
    <2>1. M \in Marks /\ M.obj = obj /\ <<>> \in Seq(Memory)
      BY <1>1, MarksIs
    <2>2. m = [M EXCEPT !.gray = <<>>, !.again = <<>>, !.weak = <<>>]
      OBVIOUS
    <2> HIDE DEF m
    <2>3. m \in Marks
      BY <2>1, <2>2, MarksListsAll
    <2>4. m.obj = M.obj /\ m.gray = <<>> /\ m.again = <<>> /\ m.weak = <<>>
      BY <2>1, <2>2 DEF Marks
    <2> QED
      BY <2>1, <2>3, <2>4
  <1> HIDE DEF m, n
  <1>4. "pause" \notin Marking /\ "propagate" \in Marking /\ "propagate" \notin Atomic
    BY DEF Marking, Atomic
  <1>5. tmudata = <<>> /\ unswept = {} /\ \A o \in Alloc(obj) : obj[o].colour = white
    BY <1>1, <1>2, <1>4, EmptyList DEF ColouredOf, ToBeSwept
  <1>6. white \in Whites /\ stack \in Stacks /\ white # "black" /\ white # "gray"
    BY <1>1 DEF HeapTyped, Whites
  <1>7. NoneDead(obj, white)
    BY <1>5, <1>6, OtherIs DEF NoneDead
  <1>8. MarkedOf(obj, {})
    BY <1>5, <1>6 DEF MarkedOf, ColourSound
  <1>9. LinkedOf(m.obj, m.gray, m.again, m.weak)
    BY <1>3, <1>5, <1>6, EmptyList DEF LinkedOf
  <1>10. WeakOf(m.obj, m.weak)
    BY <1>3, EmptyList DEF WeakOf
  <1>11. S \in SUBSET Values /\ \A v \in S : v \in Memory => v \in Alloc(m.obj)
    BY <1>1, <1>3, MemoryIs DEF SoundOf, LiveOf, Values
  <1>12. NotWhite(n.obj, S) /\ MarkedOf(n.obj, {})
    BY <1>1, <1>3, <1>6, <1>7, <1>8, <1>11, MarkAllMarks DEF n
  <1>13. RemarkedOf(n.obj, stack, "propagate", m.again, m.weak, tmudata)
    BY <1>4 DEF RemarkedOf
  <1>14. AnyOf(m.obj)
    BY <1>1, <1>3 DEF ColouredOf, AnyOf
  <1>15. /\ n \in Marks
         /\ SoundOf(n.obj, white, stack, tmudata)
         /\ ColouredOf(n.obj, white, "propagate", unswept, tmudata)
         /\ MarkOf(n.obj, stack, "propagate", n.gray, n.again, n.weak, tmudata)
    BY <1>1, <1>3, <1>4, <1>5, <1>6, <1>7, <1>9, <1>10, <1>11, <1>12, <1>13, <1>14, MarkingStep
       DEF n
  <1>16. HeapTyped'
    BY <1>1, <1>2, <1>15 DEF HeapTyped, Marks, Phases
  <1> QED
    BY <1>2, <1>15, <1>16 DEF GCInv

\* The object that propagatemark traverses, as it is afterwards.
Traverse(x) ==
    [(IF x.kind \in Tables \ {"weak"} /\ x.val = Nil THEN RemoveEntry(x) ELSE x)
        EXCEPT !.colour = IF StaysGray(x) THEN "gray" ELSE "black"]

LEMMA TraverseIs ==
  ASSUME NEW x \in Objects
  PROVE  LET y == Traverse(x) IN
         /\ y \in Objects
         /\ y.kind = x.kind /\ y.val = x.val /\ y.at = x.at
         /\ y.finalized = x.finalized /\ y.called = x.called
         /\ x.val # Nil => y.key = x.key
         /\ x.kind = "table" /\ x.val = Nil => y.key = Nil
         /\ y.colour = IF StaysGray(x) THEN "gray" ELSE "black"
         /\ (x.kind \in Tables => Keeps(y) = Keeps(x))
         /\ (x.kind = "closure" => Keeps(y) = Keeps(x))
         /\ StaysGray(y) <=> StaysGray(x)
  <1> DEFINE z == IF x.kind \in Tables \ {"weak"} /\ x.val = Nil THEN RemoveEntry(x) ELSE x
             y == Traverse(x)
  <1>1. /\ z \in Objects
        /\ z.kind = x.kind /\ z.val = x.val /\ z.at = x.at
        /\ z.finalized = x.finalized /\ z.called = x.called
        /\ x.val # Nil => z.key = x.key
        /\ x.kind = "table" /\ x.val = Nil => z.key = Nil
    BY DEF Objects, RemoveEntry, Values, Tables
  <1>2. y = [z EXCEPT !.colour = IF StaysGray(x) THEN "gray" ELSE "black"]
    BY DEF Traverse
  <1> HIDE DEF z, y
  <1>3. /\ y \in Objects
        /\ y.kind = z.kind /\ y.val = z.val /\ y.at = z.at /\ y.key = z.key
        /\ y.finalized = z.finalized /\ y.called = z.called
        /\ y.colour = IF StaysGray(x) THEN "gray" ELSE "black"
    BY <1>1, <1>2 DEF Objects
  <1>4. (x.kind \in Tables => Keeps(y) = Keeps(x)) /\ (x.kind = "closure" => Keeps(y) = Keeps(x))
    BY <1>1, <1>3 DEF Keeps, WeakKey, WeakValue
  <1>5. StaysGray(y) <=> StaysGray(x)
    BY <1>1, <1>3 DEF StaysGray, WeakKey, WeakValue
  <1> QED
    BY <1>1, <1>3, <1>4, <1>5 DEF y

\* One object of a heap is replaced by y.
LEMMA MarksTraverse ==
  ASSUME NEW m \in Marks, NEW o \in Memory, NEW y \in Objects,
         NEW g \in Seq(Memory), NEW a \in Seq(Memory), NEW k \in Seq(Memory),
         NEW n, n = [m EXCEPT !.gray = g, !.again = a, !.weak = k, !.obj[o] = y]
  PROVE  n \in Marks
  <1>1. m.obj \in Heaps /\ [m.obj EXCEPT ![o] = y] \in Heaps
    BY DEF Marks, Heaps
  <1>2. [m EXCEPT !.obj = [m.obj EXCEPT ![o] = y]] \in Marks
    BY <1>1 DEF Marks
  <1>3. \A z \in Marks : [z EXCEPT !.gray = g] \in Marks
    BY DEF Marks
  <1>4. \A z \in Marks : [z EXCEPT !.again = a] \in Marks
    BY DEF Marks
  <1>5. \A z \in Marks : [z EXCEPT !.weak = k] \in Marks
    BY DEF Marks
  <1>6. n = [[[[m EXCEPT !.obj = [m.obj EXCEPT ![o] = y]] EXCEPT !.gray = g] EXCEPT !.again = a]
                EXCEPT !.weak = k]
    BY DEF Marks
  <1>7. [[m EXCEPT !.obj = [m.obj EXCEPT ![o] = y]] EXCEPT !.gray = g] \in Marks
    BY <1>2, <1>3
  <1>8. [[[m EXCEPT !.obj = [m.obj EXCEPT ![o] = y]] EXCEPT !.gray = g] EXCEPT !.again = a]
          \in Marks
    BY <1>4, <1>7
  <1> QED
    BY <1>5, <1>6, <1>8

LEMMA SoundSame ==
  ASSUME NEW w, NEW O, NEW O2, NEW st, NEW tm, SoundOf(O, w, st, tm),
         LiveOf(O2, w) = LiveOf(O, w),
         \A p \in LiveOf(O, w) : SameRefs(O[p], O2[p]),
         \A p \in Memory : O2[p].kind = O[p].kind /\ O2[p].finalized = O[p].finalized
  PROVE  SoundOf(O2, w, st, tm)
  <1>0. LiveOf(O, w) \subseteq Memory
    BY DEF LiveOf, Alloc
  <1>1. \A p \in LiveOf(O, w) : p \in LiveOf(O2, w) /\ O2[p].kind = O[p].kind
    BY <1>0
  <1>2. \A p \in LiveOf(O2, w) : p \in LiveOf(O, w) /\ SameRefs(O[p], O2[p])
    OBVIOUS
  <1>3. \A p \in Memory : O2[p].kind = "thread" <=> p = Main
    BY DEF SoundOf
  <1>4. \A p \in ToSet(tm) : p \in LiveOf(O2, w) /\ O2[p].kind = "file" /\ O2[p].finalized
    BY <1>0 DEF SoundOf
  <1>5. \A i \in 1..Frame : ValueOf(O, w, st[i])
    BY DEF SoundOf
  <1> QED
    BY <1>1, <1>2, <1>3, <1>4, <1>5, SoundGrows

\* What may change when a marked object is traversed: its colour and, when it
\* has no entry, its key.
LEMMA TraversedHeap ==
  ASSUME NEW O \in Heaps, NEW w \in Whites, NEW tm, NEW st, NEW o \in Alloc(O),
         SoundOf(O, w, st, tm), NoneDead(O, w), AnyOf(O),
         O[o].colour = "gray", Traversed(O[o]), MarkedOf(O, {}),
         NEW O1 \in Heaps, O1[o] = Traverse(O[o]), \A p \in Memory : p # o => O1[p] = O[p]
  PROVE  /\ Alloc(O1) = Alloc(O)
         /\ \A p \in Memory : O1[p].colour \in Whites <=> O[p].colour \in Whites
         /\ SoundOf(O1, w, st, tm) /\ NoneDead(O1, w) /\ AnyOf(O1)
         /\ MarkedOf(O1, {o})
  <1>1. o \in Memory /\ O[o] \in Objects
    BY DEF Alloc, Heaps
  <1>2. O1[o] = Traverse(O[o]) /\ \A p \in Memory : p # o => O1[p] = O[p]
    OBVIOUS
  <1>3. /\ O1[o].kind = O[o].kind /\ O1[o].val = O[o].val /\ O1[o].at = O[o].at
        /\ O1[o].finalized = O[o].finalized /\ O1[o].called = O[o].called
        /\ O[o].val # Nil => O1[o].key = O[o].key
        /\ O1[o].colour = IF StaysGray(O[o]) THEN "gray" ELSE "black"
    BY <1>1, <1>2, TraverseIs
  <1>4. Alloc(O1) = Alloc(O)
    BY <1>2, <1>3 DEF Alloc
  <1>5. \A p \in Memory : O1[p].colour \in Whites <=> O[p].colour \in Whites
    BY <1>2, <1>3 DEF Whites
  <1>6. Other(w) \in Whites /\ "gray" \notin Whites /\ "black" \notin Whites
    BY OtherIs
  <1>7. NoneDead(O1, w)
    BY <1>2, <1>3, <1>4, <1>6 DEF NoneDead, Alloc
  <1>8. AnyOf(O1)
    BY <1>2, <1>3, <1>4 DEF AnyOf, Alloc
  <1>9. LiveOf(O, w) = Alloc(O) /\ LiveOf(O1, w) = Alloc(O) /\ Alloc(O) \subseteq Memory
    <2>1. LiveOf(O, w) = Alloc(O)
      BY NoneDeadLive
    <2>2. LiveOf(O1, w) = Alloc(O1)
      BY <1>7, NoneDeadLive
    <2> QED
      BY <1>4, <2>1, <2>2 DEF Alloc
  <1>10. ASSUME NEW p \in Alloc(O) PROVE SameRefs(O[p], O1[p])
    <2>1. RefsOf(O, w, O[p])
      BY <1>9 DEF SoundOf
    <2>2. CASE p = o
      BY <1>3, <2>1, <2>2 DEF SameRefs, RefsOf, IsOpen, Traversed, Tables
    <2>3. CASE p # o
      BY <1>2, <1>9, <2>1, <2>3 DEF SameRefs, RefsOf
    <2> QED
      BY <2>2, <2>3
  <1>11. \A p \in Memory : O1[p].kind = O[p].kind /\ O1[p].finalized = O[p].finalized
    BY <1>2, <1>3
  <1>12. SoundOf(O1, w, st, tm)
    BY <1>9, <1>10, <1>11, SoundSame
  <1>13. MarkedOf(O1, {o})
    BY <1>2, <1>4, <1>5, <1>9 DEF MarkedOf, ColourSound, NotWhite, KeyMarked, Alloc
  <1> QED
    BY <1>2, <1>4, <1>5, <1>7, <1>8, <1>12, <1>13

\* The lists, when the first gray object is traversed.
AgainAfter(x, o, a) == IF x.kind = "thread" THEN <<o>> \o a ELSE a
WeakAfter(x, o, k)  == IF WeakKey(x) \/ WeakValue(x) THEN <<o>> \o k ELSE k

LEMMA TraversedLists ==
  ASSUME NEW O \in Heaps, NEW O1 \in Heaps, Alloc(O1) = Alloc(O),
         NEW g \in Seq(Memory), NEW a \in Seq(Memory), NEW k \in Seq(Memory),
         LinkedOf(O, g, a, k), g # <<>>, NEW o, o = Head(g),
         O1[o] = Traverse(O[o]), \A p \in Memory : p # o => O1[p] = O[p]
  PROVE  LET a1 == AgainAfter(O[o], o, a)
             k1 == WeakAfter(O[o], o, k)
         IN  /\ o \in Alloc(O) /\ O[o].colour = "gray" /\ Traversed(O[o])
             /\ o \notin ToSet(a) /\ o \notin ToSet(k)
             /\ Tail(g) \in Seq(Memory) /\ a1 \in Seq(Memory) /\ k1 \in Seq(Memory)
             /\ ToSet(a1) = ToSet(a) \union (IF O[o].kind = "thread" THEN {o} ELSE {})
             /\ ToSet(k1) = ToSet(k) \union (IF WeakKey(O[o]) \/ WeakValue(O[o]) THEN {o} ELSE {})
             /\ LinkedOf(O1, Tail(g), a1, k1)
  <1> DEFINE a1 == AgainAfter(O[o], o, a)
             k1 == WeakAfter(O[o], o, k)
  <1>1. /\ IsInjective(g) /\ IsInjective(a) /\ IsInjective(k)
        /\ ToSet(g) \intersect ToSet(a) = {}
        /\ ToSet(g) \intersect ToSet(k) = {}
        /\ ToSet(a) \intersect ToSet(k) = {}
        /\ ToSet(g) \union ToSet(a) \union ToSet(k) =
              {p \in Alloc(O) : O[p].colour = "gray" /\ Traversed(O[p])}
    BY DEF LinkedOf
  <1>2. /\ o \in Memory /\ o \in ToSet(g)
        /\ Tail(g) \in Seq(Memory) /\ IsInjective(Tail(g))
        /\ ToSet(Tail(g)) = ToSet(g) \ {o}
    BY <1>1, TailList
  <1>3. /\ o \in Alloc(O) /\ O[o].colour = "gray" /\ Traversed(O[o])
        /\ o \notin ToSet(a) /\ o \notin ToSet(k)
    BY <1>1, <1>2
  <1>4. /\ <<o>> \o a \in Seq(Memory) /\ ToSet(<<o>> \o a) = {o} \union ToSet(a)
        /\ IsInjective(<<o>> \o a) <=> IsInjective(a) /\ o \notin ToSet(a)
    BY <1>2, ConsList
  <1>5. /\ <<o>> \o k \in Seq(Memory) /\ ToSet(<<o>> \o k) = {o} \union ToSet(k)
        /\ IsInjective(<<o>> \o k) <=> IsInjective(k) /\ o \notin ToSet(k)
    BY <1>2, ConsList
  <1>6. /\ a1 \in Seq(Memory) /\ IsInjective(a1)
        /\ ToSet(a1) = ToSet(a) \union (IF O[o].kind = "thread" THEN {o} ELSE {})
    BY <1>1, <1>3, <1>4 DEF AgainAfter
  <1>7. /\ k1 \in Seq(Memory) /\ IsInjective(k1)
        /\ ToSet(k1) = ToSet(k) \union (IF WeakKey(O[o]) \/ WeakValue(O[o]) THEN {o} ELSE {})
    BY <1>1, <1>3, <1>5 DEF WeakAfter
  <1> HIDE DEF a1, k1
  <1>8. O[o] \in Objects
    BY <1>2 DEF Heaps
  <1>9. /\ O1[o].colour = IF StaysGray(O[o]) THEN "gray" ELSE "black"
        /\ O1[o].kind = O[o].kind
    BY <1>8, TraverseIs
  <1>10. StaysGray(O[o]) <=> O[o].kind = "thread" \/ WeakKey(O[o]) \/ WeakValue(O[o])
    BY DEF StaysGray
  <1>11. O[o].kind = "thread" => ~(WeakKey(O[o]) \/ WeakValue(O[o]))
    BY DEF WeakKey, WeakValue
  <1>12. {p \in Alloc(O1) : O1[p].colour = "gray" /\ Traversed(O1[p])}
            = {p \in Alloc(O) : O[p].colour = "gray" /\ Traversed(O[p]) /\ p # o}
                \union (IF StaysGray(O[o]) THEN {o} ELSE {})
    <2>1. ASSUME NEW p \in Alloc(O)
          PROVE  O1[p].colour = "gray" /\ Traversed(O1[p]) <=>
                    (O[p].colour = "gray" /\ Traversed(O[p]) /\ p # o) \/ (StaysGray(O[o]) /\ p = o)
      <3>1. CASE p = o
        BY <1>3, <1>9, <3>1 DEF Traversed
      <3>2. CASE p # o
        <4>1. O1[p] = O[p]
          BY <2>1, <3>2 DEF Alloc
        <4> QED
          BY <3>2, <4>1
      <3> QED
        BY <3>1, <3>2
    <2> QED
      BY <1>3, <2>1
  <1>13. LinkedOf(O1, Tail(g), a1, k1)
    <2>1. /\ ToSet(Tail(g)) \intersect ToSet(a1) = {}
          /\ ToSet(Tail(g)) \intersect ToSet(k1) = {}
      BY <1>1, <1>2, <1>6, <1>7
    <2>2. ToSet(a1) \intersect ToSet(k1) = {}
      BY <1>1, <1>3, <1>6, <1>7, <1>11
    <2>3. ToSet(Tail(g)) \union ToSet(a1) \union ToSet(k1) =
             {p \in Alloc(O) : O[p].colour = "gray" /\ Traversed(O[p]) /\ p # o}
                \union (IF StaysGray(O[o]) THEN {o} ELSE {})
      BY <1>1, <1>2, <1>3, <1>6, <1>7, <1>10
    <2> QED
      BY <1>2, <1>6, <1>7, <1>12, <2>1, <2>2, <2>3 DEF LinkedOf
  <1> QED
    BY <1>2, <1>3, <1>6, <1>7, <1>13 DEF a1, k1

\* What the traversal of a marked object keeps alive.
LEMMA StrongTraversed ==
  ASSUME NEW x \in Objects, Traversed(x)
  PROVE  /\ x.kind = "thread" => Strong(x) = {Globals} \union StackOf(stack)
         /\ x.kind # "thread" => Strong(x) = Keeps(x) /\ Keeps(Traverse(x)) = Keeps(x)
  <1>1. x.kind = "thread" \/ x.kind = "closure" \/ x.kind \in Tables
    BY DEF Traversed
  <1>2. ~IsOpen(x)
    BY <1>1 DEF IsOpen, Tables
  <1>3. x.kind # "thread" => Strong(x) = Keeps(x)
    BY <1>2, StrongIs
  <1>4. x.kind # "thread" => Keeps(Traverse(x)) = Keeps(x)
    BY <1>1, TraverseIs
  <1> QED
    BY <1>3, <1>4, StrongThread

LEMMA StrongAlloc ==
  ASSUME NEW O \in Heaps, NEW w, NEW tm, stack \in Stacks, SoundOf(O, w, stack, tm),
         NEW o \in LiveOf(O, w), Traversed(O[o])
  PROVE  /\ Strong(O[o]) \subseteq Values
         /\ \A v \in Strong(O[o]) : v \in Memory => v \in LiveOf(O, w)
  <1>1. o \in Memory /\ O[o] \in Objects
    BY DEF LiveOf, Alloc, Heaps
  <1>2. RefsOf(O, w, O[o]) /\ Globals \in LiveOf(O, w) /\ \A i \in 1..Frame : ValueOf(O, w, stack[i])
    BY DEF SoundOf
  <1>3. CASE O[o].kind = "thread"
    <2>1. Strong(O[o]) = {Globals} \union {stack[i] : i \in 1..Frame}
      BY <1>3, StrongThread DEF StackOf
    <2>2. \A i \in 1..Frame : stack[i] \in Values
      BY DEF Stacks, Values
    <2> QED
      BY <1>2, <2>1, <2>2, MemoryIs DEF ValueOf, Values
  <1>4. CASE O[o].kind = "closure"
    <2>1. Strong(O[o]) = {Globals, O[o].val}
      BY <1>4 DEF Strong, Tables
    <2> QED
      BY <1>1, <1>2, <1>4, <2>1, MemoryIs DEF RefsOf, Objects, Values
  <1>5. CASE O[o].kind \in Tables
    <2>1. O[o].val = Nil => Strong(O[o]) = {}
      BY <1>5 DEF Strong, Tables
    <2>2. Strong(O[o]) \subseteq {O[o].key, O[o].val}
      BY <1>5 DEF Strong, Tables
    <2>3. O[o].key \in Values /\ O[o].val \in Values
      BY <1>1 DEF Objects
    <2>4. O[o].val # Nil => ValueOf(O, w, O[o].key) /\ ValueOf(O, w, O[o].val)
      BY <1>2, <1>5 DEF RefsOf
    <2> QED
      BY <2>1, <2>2, <2>3, <2>4 DEF ValueOf
  <1> QED
    BY <1>3, <1>4, <1>5 DEF Traversed

LEMMA PropagateIs ==
  ASSUME HeapTyped, gray # <<>>, NEW o, o = Head(gray), NEW m,
         m = [M EXCEPT !.gray = Tail(gray),
                       !.again = AgainAfter(obj[o], o, again),
                       !.weak = WeakAfter(obj[o], o, weak),
                       !.obj[o] = Traverse(obj[o])]
  PROVE  Propagate(M) = MarkAll(m, Strong(obj[o]))
  BY MarksIs DEF Propagate, AgainAfter, WeakAfter, Traverse

LEMMA PropagateMarkKeeps ==
  ASSUME GCInv, PropagateMark
  PROVE  GCInv'
  <1> DEFINE o  == Head(gray)
             x  == obj[o]
             a1 == AgainAfter(x, o, again)
             k1 == WeakAfter(x, o, weak)
             m  == [M EXCEPT !.gray = Tail(gray), !.again = a1, !.weak = k1,
                             !.obj[o] = Traverse(x)]
             S  == Strong(x)
             n  == MarkAll(m, S)
  <1>1. /\ HeapTyped /\ SoundOf(obj, white, stack, tmudata)
        /\ ColouredOf(obj, white, phase, unswept, tmudata)
        /\ MarkOf(obj, stack, phase, gray, again, weak, tmudata)
    BY DEF GCInv
  <1>2. /\ phase \in Marking /\ gray # <<>>
        /\ obj' = Propagate(M).obj /\ gray' = Propagate(M).gray
        /\ again' = Propagate(M).again /\ weak' = Propagate(M).weak
        /\ mix' = mix /\ stack' = stack /\ white' = white /\ phase' = phase
        /\ unswept' = unswept /\ tmudata' = tmudata
    BY DEF PropagateMark, Becomes
  <1>3. Propagate(M) = n
    BY <1>1, <1>2, PropagateIs
  <1>4. /\ obj \in Heaps /\ white \in Whites /\ stack \in Stacks
        /\ gray \in Seq(Memory) /\ again \in Seq(Memory) /\ weak \in Seq(Memory)
    BY <1>1 DEF HeapTyped
  <1>5. /\ NotWhite(obj, {Main, Globals}) /\ MarkedOf(obj, {})
        /\ LinkedOf(obj, gray, again, weak) /\ WeakOf(obj, weak)
        /\ RemarkedOf(obj, stack, phase, again, weak, tmudata)
    BY <1>1, <1>2 DEF MarkOf
  <1>6. NoneDead(obj, white) /\ AnyOf(obj) /\ (phase # "mark finalized" => tmudata = <<>>)
    BY <1>1, <1>2 DEF ColouredOf, NoneDead, AnyOf
  <1>7. o \in Memory /\ x \in Objects /\ Traverse(x) \in Objects
    <2>1. o \in Memory
      BY <1>2, <1>4
    <2>2. x \in Objects
      BY <1>4, <2>1 DEF Heaps
    <2> QED
      BY <2>1, <2>2, TraverseIs
  <1> DEFINE O1 == [obj EXCEPT ![o] = Traverse(x)]
  <1>8. /\ O1 \in Heaps
        /\ O1[o] = Traverse(x) /\ \A p \in Memory : p # o => O1[p] = obj[p]
    BY <1>4, <1>7 DEF Heaps
  <1>9. M \in Marks /\ M.obj = obj
    BY <1>1, MarksIs
  <1>10. m.obj = O1 /\ m.gray = Tail(gray) /\ m.again = a1 /\ m.weak = k1
    <2> HIDE DEF a1, k1, x, o
    <2> QED
      BY <1>9 DEF Marks
  <1>11. m = [M EXCEPT !.gray = Tail(gray), !.again = a1, !.weak = k1, !.obj[o] = Traverse(x)]
    OBVIOUS
  <1>12. o = Head(gray) /\ x = obj[o]
    OBVIOUS
  <1>13. n = MarkAll(m, S) /\ S = Strong(obj[o])
    OBVIOUS
  <1> HIDE DEF o, O1, m, n, x, S
  <1>14. Alloc(O1) = Alloc(obj)
    <2>1. O1[o].kind = obj[o].kind
      BY <1>7, <1>8, <1>12, TraverseIs
    <2> QED
      BY <1>8, <2>1 DEF Alloc
  <1>15. /\ o \in Alloc(obj) /\ obj[o].colour = "gray" /\ Traversed(obj[o])
         /\ o \notin ToSet(again) /\ o \notin ToSet(weak)
         /\ Tail(gray) \in Seq(Memory) /\ a1 \in Seq(Memory) /\ k1 \in Seq(Memory)
         /\ ToSet(a1) = ToSet(again) \union (IF x.kind = "thread" THEN {o} ELSE {})
         /\ ToSet(k1) = ToSet(weak) \union (IF WeakKey(x) \/ WeakValue(x) THEN {o} ELSE {})
         /\ LinkedOf(O1, Tail(gray), a1, k1)
    <2>1. O1[o] = Traverse(obj[o])
      BY <1>8, <1>12
    <2>2. a1 = AgainAfter(obj[o], o, again) /\ k1 = WeakAfter(obj[o], o, weak)
      BY <1>12
    <2> HIDE DEF a1, k1
    <2>3. /\ o \in Alloc(obj) /\ obj[o].colour = "gray" /\ Traversed(obj[o])
          /\ o \notin ToSet(again) /\ o \notin ToSet(weak)
          /\ Tail(gray) \in Seq(Memory) /\ a1 \in Seq(Memory) /\ k1 \in Seq(Memory)
          /\ ToSet(a1) = ToSet(again) \union (IF obj[o].kind = "thread" THEN {o} ELSE {})
          /\ ToSet(k1) = ToSet(weak)
                \union (IF WeakKey(obj[o]) \/ WeakValue(obj[o]) THEN {o} ELSE {})
          /\ LinkedOf(O1, Tail(gray), a1, k1)
      BY <1>2, <1>4, <1>5, <1>8, <1>12, <1>14, <2>1, <2>2, TraversedLists
    <2> QED
      BY <1>12, <2>3
  <1> HIDE DEF a1, k1
  <1>16. /\ \A p \in Memory : O1[p].colour \in Whites <=> obj[p].colour \in Whites
         /\ SoundOf(O1, white, stack, tmudata) /\ NoneDead(O1, white) /\ AnyOf(O1)
         /\ MarkedOf(O1, {o})
    <2>1. /\ obj \in Heaps /\ O1 \in Heaps /\ white \in Whites /\ o \in Alloc(obj)
          /\ SoundOf(obj, white, stack, tmudata) /\ NoneDead(obj, white) /\ AnyOf(obj)
          /\ obj[o].colour = "gray" /\ Traversed(obj[o]) /\ MarkedOf(obj, {})
          /\ O1[o] = Traverse(obj[o]) /\ \A p \in Memory : p # o => O1[p] = obj[p]
      BY <1>1, <1>4, <1>5, <1>6, <1>8, <1>12, <1>15
    <2> QED
      BY <2>1, TraversedHeap
  <1>17. m \in Marks
    BY <1>7, <1>9, <1>11, <1>15, MarksTraverse
  <1>18. S \in SUBSET Values /\ \A v \in S : v \in Memory => v \in Alloc(m.obj)
    <2>1. o \in LiveOf(obj, white) /\ LiveOf(obj, white) = Alloc(obj)
      BY <1>6, <1>15, NoneDeadLive
    <2> QED
      BY <1>1, <1>4, <1>10, <1>13, <1>14, <1>15, <2>1, StrongAlloc
  <1>19. /\ n \in Marks /\ n.again = m.again /\ n.weak = m.weak
         /\ Darker(m.obj, n.obj) /\ NotWhite(n.obj, S) /\ MarkedOf(n.obj, {o})
         /\ OpensMarked(m.obj, stack) => OpensMarked(n.obj, stack)
    BY <1>4, <1>10, <1>13, <1>16, <1>17, <1>18, MarkAllMarks
  <1>20. /\ \A T : NotWhite(obj, T) => NotWhite(n.obj, T)
         /\ Alloc(n.obj) = Alloc(obj)
         /\ \A p \in Memory :
              /\ n.obj[p].kind = O1[p].kind /\ n.obj[p].key = O1[p].key
              /\ n.obj[p].val = O1[p].val /\ n.obj[p].at = O1[p].at
              /\ O1[p].colour \notin Whites => n.obj[p].colour = O1[p].colour
    <2>1. O1 \in Heaps /\ n.obj \in Heaps /\ Darker(O1, n.obj)
      BY <1>8, <1>10, <1>19 DEF Marks
    <2>2. \A T : NotWhite(O1, T) => NotWhite(n.obj, T)
      BY <2>1, DarkerIs
    <2>3. \A T : NotWhite(obj, T) => NotWhite(O1, T)
      BY <1>16 DEF NotWhite
    <2>4. Alloc(n.obj) = Alloc(O1)
      BY <2>1, DarkerIs
    <2>5. \A p \in Memory :
              /\ n.obj[p].kind = O1[p].kind /\ n.obj[p].key = O1[p].key
              /\ n.obj[p].val = O1[p].val /\ n.obj[p].at = O1[p].at
              /\ O1[p].colour \notin Whites => n.obj[p].colour = O1[p].colour
      BY <2>1, DarkerIs
    <2> QED
      BY <1>14, <2>2, <2>3, <2>4, <2>5
  <1>21. \A p \in Memory : Keeps(n.obj[p]) = Keeps(O1[p]) /\ (StaysGray(n.obj[p]) <=> StaysGray(O1[p]))
    BY <1>20 DEF Keeps, StaysGray, WeakKey, WeakValue
  <1>22. /\ O1[o].kind = x.kind /\ O1[o].colour = IF StaysGray(x) THEN "gray" ELSE "black"
         /\ StaysGray(O1[o]) <=> StaysGray(x)
         /\ x.kind # "thread" => S = Keeps(x) /\ Keeps(O1[o]) = Keeps(x)
         /\ x.kind = "thread" => S = {Globals} \union StackOf(stack)
    BY <1>7, <1>8, <1>12, <1>13, <1>15, TraverseIs, StrongTraversed
  <1>23. MarkedOf(n.obj, {})
    <2>1. ColourSound(n.obj, n.obj[o])
      <3>1. n.obj[o].colour = O1[o].colour /\ n.obj[o].kind = x.kind
        BY <1>7, <1>20, <1>22 DEF Whites
      <3>2. n.obj[o].colour = "gray" => Traversed(n.obj[o])
        BY <1>12, <1>15, <3>1 DEF Traversed
      <3>3. n.obj[o].colour = "black" => ~StaysGray(x) /\ x.kind # "thread"
        BY <1>22, <3>1 DEF StaysGray
      <3>4. x.kind \in Tables /\ ~StaysGray(x) => KeyMarked(n.obj, n.obj[o].key)
        <4>1. SUFFICES ASSUME x.kind \in Tables, ~StaysGray(x), n.obj[o].key \in Memory
                       PROVE  n.obj[o].key \in Alloc(n.obj) /\ n.obj[o].key \in S
          BY <1>19 DEF KeyMarked, NotWhite
        <4>2. x.kind = "table"
          BY <4>1 DEF Tables, StaysGray, WeakKey, WeakValue
        <4>3. n.obj[o].key = O1[o].key /\ O1[o] = Traverse(x)
          BY <1>7, <1>8, <1>20
        <4>4. x.val # Nil /\ n.obj[o].key = x.key
          BY <1>7, <4>1, <4>2, <4>3, TraverseIs, MemoryIs
        <4>5. x.key \in S
          BY <1>22, <4>2, <4>4 DEF Keeps, Tables, WeakKey, WeakValue
        <4> QED
          BY <1>10, <1>14, <1>18, <1>20, <4>1, <4>4, <4>5
      <3> QED
        BY <1>7, <1>19, <1>21, <1>22, <3>1, <3>2, <3>3, <3>4 DEF ColourSound
    <2> QED
      BY <1>19, <2>1 DEF MarkedOf
  <1>24. WeakOf(O1, k1)
    <2>1. ToSet(weak) \subseteq Memory
      BY <1>4, ListIn
    <2>2. WeakKey(x) \/ WeakValue(x) => O1[o].kind \in Tables \ {"table"}
      BY <1>22 DEF WeakKey, WeakValue, Tables
    <2> QED
      BY <1>5, <1>8, <1>15, <2>1, <2>2 DEF WeakOf
  <1>25. RemarkedOf(n.obj, stack, phase, a1, k1, tmudata)
    <2>1. OpensMarked(obj, stack) => OpensMarked(n.obj, stack)
      <3>1. SUFFICES ASSUME OpensMarked(obj, stack) PROVE OpensMarked(O1, stack)
        BY <1>10, <1>19
      <3>2. ~IsOpen(O1[o])
        BY <1>12, <1>15, <1>22 DEF IsOpen, Traversed, Tables
      <3> QED
        BY <1>8, <1>14, <1>16, <3>1, <3>2 DEF OpensMarked, NotWhite, Alloc
    <2>2. WeakMarked(obj, weak) => WeakMarked(n.obj, k1)
      <3>1. SUFFICES ASSUME WeakMarked(obj, weak), NEW p \in ToSet(k1)
                     PROVE  NotWhite(n.obj, Keeps(n.obj[p]))
        BY DEF WeakMarked
      <3>2. CASE p \in ToSet(weak)
        <4>1. p \in Memory /\ p # o
          BY <1>4, <1>15, <3>2, ListIn
        <4> QED
          BY <1>8, <1>20, <1>21, <3>1, <3>2, <4>1 DEF WeakMarked
      <3>3. CASE p \notin ToSet(weak)
        <4>1. p = o /\ x.kind # "thread"
          BY <1>15, <3>1, <3>3 DEF WeakKey, WeakValue
        <4> QED
          BY <1>7, <1>19, <1>21, <1>22, <4>1
      <3> QED
        BY <3>2, <3>3
    <2>3. AgainMarked(obj, stack, again) => AgainMarked(n.obj, stack, a1)
      <3>1. SUFFICES ASSUME AgainMarked(obj, stack, again), NEW p \in ToSet(a1)
                     PROVE  p = Main /\ NotWhite(n.obj, {Globals} \union StackOf(stack))
        BY DEF AgainMarked
      <3>2. CASE p \in ToSet(again)
        BY <1>20, <3>1, <3>2 DEF AgainMarked
      <3>3. CASE p \notin ToSet(again)
        <4>1. p = o /\ x.kind = "thread"
          BY <1>15, <3>1, <3>3
        <4>2. o = Main
          BY <1>1, <1>7, <1>12, <4>1 DEF SoundOf
        <4> QED
          BY <1>19, <1>22, <4>1, <4>2
      <3> QED
        BY <3>2, <3>3
    <2>4. NotWhite(obj, ToSet(tmudata)) => NotWhite(n.obj, ToSet(tmudata))
      BY <1>20
    <2> QED
      BY <1>5, <2>1, <2>2, <2>3, <2>4 DEF RemarkedOf
  <1>26. NotWhite(n.obj, {Main, Globals})
    BY <1>5, <1>20
  <1>27. /\ n \in Marks
         /\ SoundOf(n.obj, white, stack, tmudata)
         /\ ColouredOf(n.obj, white, phase, unswept, tmudata)
         /\ MarkOf(n.obj, stack, phase, n.gray, n.again, n.weak, tmudata)
    BY <1>2, <1>4, <1>6, <1>10, <1>13, <1>15, <1>16, <1>17, <1>18, <1>23, <1>24, <1>25, <1>26,
       MarkingStep
  <1>28. HeapTyped'
    BY <1>1, <1>2, <1>3, <1>27 DEF HeapTyped, Marks
  <1> QED
    BY <1>2, <1>3, <1>27, <1>28 DEF GCInv

\* What is known in a phase of marking.
LEMMA MarkingIs ==
  ASSUME GCInv, phase \in Marking
  PROVE  /\ HeapTyped /\ SoundOf(obj, white, stack, tmudata)
         /\ obj \in Heaps /\ white \in Whites /\ stack \in Stacks
         /\ gray \in Seq(Memory) /\ again \in Seq(Memory) /\ weak \in Seq(Memory)
         /\ NotWhite(obj, {Main, Globals}) /\ MarkedOf(obj, {})
         /\ LinkedOf(obj, gray, again, weak) /\ WeakOf(obj, weak)
         /\ RemarkedOf(obj, stack, phase, again, weak, tmudata)
         /\ NoneDead(obj, white) /\ AnyOf(obj) /\ (phase # "mark finalized" => tmudata = <<>>)
         /\ LiveOf(obj, white) = Alloc(obj)
  <1>1. /\ HeapTyped /\ SoundOf(obj, white, stack, tmudata)
        /\ ColouredOf(obj, white, phase, unswept, tmudata)
        /\ MarkOf(obj, stack, phase, gray, again, weak, tmudata)
    BY DEF GCInv
  <1>2. /\ obj \in Heaps /\ white \in Whites /\ stack \in Stacks
        /\ gray \in Seq(Memory) /\ again \in Seq(Memory) /\ weak \in Seq(Memory)
    BY <1>1 DEF HeapTyped
  <1>3. /\ NotWhite(obj, {Main, Globals}) /\ MarkedOf(obj, {})
        /\ LinkedOf(obj, gray, again, weak) /\ WeakOf(obj, weak)
        /\ RemarkedOf(obj, stack, phase, again, weak, tmudata)
    BY <1>1 DEF MarkOf
  <1>4. NoneDead(obj, white) /\ AnyOf(obj) /\ (phase # "mark finalized" => tmudata = <<>>)
    BY <1>1 DEF ColouredOf, NoneDead, AnyOf
  <1> QED
    BY <1>1, <1>2, <1>3, <1>4, NoneDeadLive

LEMMA PhasesAre ==
  /\ Marking \subseteq Phases /\ Atomic \subseteq Marking /\ "propagate" \in Marking
  /\ "remark upvalues" \in Atomic /\ "remark weak" \in Atomic
  /\ "remark again" \in Atomic /\ "mark finalized" \in Atomic
  /\ "propagate" \notin Atomic
  /\ "pause" \notin Marking /\ "sweepstring" \notin Marking
  /\ "sweep" \notin Marking /\ "finalize" \notin Marking
  BY DEF Marking, Atomic, Phases

LEMMA RemarkUpvalsKeeps ==
  ASSUME GCInv, RemarkUpvals
  PROVE  GCInv'
  <1> DEFINE S == {stack[obj[o].at] : o \in {u \in Opens(M) : obj[u].colour = "gray"}}
             n == MarkAll(M, S)
  <1>1. /\ phase = "propagate" /\ phase' = "remark upvalues"
        /\ obj' = n.obj /\ gray' = n.gray /\ again' = n.again /\ weak' = n.weak
        /\ mix' = mix /\ stack' = stack /\ white' = white
        /\ unswept' = unswept /\ tmudata' = tmudata
    BY DEF RemarkUpvals, AtomicStep, Becomes
  <1>2. n = MarkAll(M, S)
    OBVIOUS
  <1>3. phase \in Marking /\ "remark upvalues" \in Marking
    BY <1>1, PhasesAre
  <1>4. /\ HeapTyped /\ SoundOf(obj, white, stack, tmudata)
        /\ obj \in Heaps /\ white \in Whites /\ stack \in Stacks
        /\ NotWhite(obj, {Main, Globals}) /\ MarkedOf(obj, {})
        /\ LinkedOf(obj, gray, again, weak) /\ WeakOf(obj, weak)
        /\ NoneDead(obj, white) /\ AnyOf(obj) /\ tmudata = <<>>
        /\ LiveOf(obj, white) = Alloc(obj)
    BY <1>1, <1>3, MarkingIs
  <1>5. M \in Marks /\ M.obj = obj /\ M.gray = gray /\ M.again = again /\ M.weak = weak
    BY <1>4, MarksIs
  <1>6. \A o \in Opens(M) : /\ o \in Alloc(obj) /\ IsOpen(obj[o]) /\ obj[o].at \in 1..Frame
    <2>1. \A o \in Opens(M) : o \in Alloc(obj) /\ IsOpen(obj[o])
      BY <1>5 DEF Opens, IsOpen, Alloc
    <2>2. \A o \in Alloc(obj) : RefsOf(obj, white, obj[o])
      BY <1>4 DEF SoundOf
    <2> QED
      BY <2>1, <2>2 DEF RefsOf
  <1>7. S \in SUBSET Values /\ \A v \in S : v \in Memory => v \in Alloc(obj)
    <2>1. \A i \in 1..Frame : stack[i] \in Values /\ (stack[i] \in Memory => stack[i] \in Alloc(obj))
      BY <1>4 DEF Stacks, Values, SoundOf, ValueOf
    <2> QED
      BY <1>6, <2>1
  <1>8. \A o \in Alloc(obj) : IsOpen(obj[o]) /\ obj[o].colour = "gray" => stack[obj[o].at] \in S
    BY <1>5 DEF Opens, Alloc
  <1> HIDE DEF n, S
  <1>9. /\ n \in Marks /\ Darker(obj, n.obj) /\ NotWhite(n.obj, S) /\ MarkedOf(n.obj, {})
        /\ \A o \in Alloc(n.obj) : IsOpen(n.obj[o]) /\ n.obj[o].colour = "gray" =>
              obj[o].colour = "gray" \/ NotWhite(n.obj, {stack[n.obj[o].at]})
    BY <1>2, <1>4, <1>5, <1>7, MarkAllMarks
  <1>10. /\ NotWhite(n.obj, {Main, Globals})
         /\ Alloc(n.obj) = Alloc(obj)
         /\ \A o \in Memory : n.obj[o].kind = obj[o].kind /\ n.obj[o].at = obj[o].at
    <2>1. n.obj \in Heaps
      BY <1>9 DEF Marks
    <2> QED
      BY <1>4, <1>9, <2>1, DarkerIs
  <1>11. OpensMarked(n.obj, stack)
    BY <1>8, <1>9, <1>10 DEF OpensMarked, IsOpen, NotWhite, Alloc
  <1>12. RemarkedOf(n.obj, stack, "remark upvalues", again, weak, tmudata)
    BY <1>11 DEF RemarkedOf
  <1>13. /\ n \in Marks
         /\ SoundOf(n.obj, white, stack, tmudata)
         /\ ColouredOf(n.obj, white, "remark upvalues", unswept, tmudata)
         /\ MarkOf(n.obj, stack, "remark upvalues", n.gray, n.again, n.weak, tmudata)
    BY <1>2, <1>3, <1>4, <1>5, <1>7, <1>9, <1>10, <1>12, MarkingStep
  <1>14. HeapTyped'
    BY <1>1, <1>4, <1>13 DEF HeapTyped, Marks, Phases
  <1> QED
    BY <1>1, <1>13, <1>14 DEF GCInv

LEMMA LinkedMoves ==
  ASSUME NEW O, NEW a, NEW k, LinkedOf(O, <<>>, a, k)
  PROVE  LinkedOf(O, k, a, <<>>) /\ LinkedOf(O, a, <<>>, k)
  BY EmptyList DEF LinkedOf

LEMMA RemarkWeakKeeps ==
  ASSUME GCInv, RemarkWeak
  PROVE  GCInv'
  <1> DEFINE m == [M EXCEPT !.gray = weak, !.weak = <<>>]
             S == {Main}
             n == MarkAll(m, S)
  <1>1. /\ phase = "remark upvalues" /\ gray = <<>> /\ phase' = "remark weak"
        /\ obj' = n.obj /\ gray' = n.gray /\ again' = n.again /\ weak' = n.weak
        /\ mix' = mix /\ stack' = stack /\ white' = white
        /\ unswept' = unswept /\ tmudata' = tmudata
    BY DEF RemarkWeak, AtomicStep, Becomes
  <1>2. n = MarkAll(m, S)
    OBVIOUS
  <1>3. phase \in Marking /\ "remark weak" \in Marking /\ phase \in Atomic
    BY <1>1, PhasesAre
  <1>4. /\ HeapTyped /\ SoundOf(obj, white, stack, tmudata)
        /\ obj \in Heaps /\ white \in Whites /\ stack \in Stacks
        /\ again \in Seq(Memory) /\ weak \in Seq(Memory)
        /\ NotWhite(obj, {Main, Globals}) /\ MarkedOf(obj, {})
        /\ LinkedOf(obj, gray, again, weak) /\ WeakOf(obj, weak)
        /\ RemarkedOf(obj, stack, phase, again, weak, tmudata)
        /\ NoneDead(obj, white) /\ AnyOf(obj) /\ tmudata = <<>>
        /\ LiveOf(obj, white) = Alloc(obj)
    BY <1>1, <1>3, MarkingIs
  <1>5. M \in Marks /\ M.obj = obj /\ M.gray = gray /\ M.again = again /\ M.weak = weak
    BY <1>4, MarksIs
  <1>6. m = [M EXCEPT !.gray = weak, !.weak = <<>>] /\ <<>> \in Seq(Memory)
    OBVIOUS
  <1>7. m.obj = obj /\ m.gray = weak /\ m.again = again /\ m.weak = <<>>
    BY <1>5 DEF Marks
  <1> HIDE DEF n, m
  <1>8. m \in Marks
    BY <1>4, <1>5, <1>6, MarksGrayWeak
  <1>9. S \in SUBSET Values /\ \A v \in S : v \in Memory => v \in Alloc(obj)
    BY <1>4, MemoryIs DEF SoundOf, Values
  <1>10. OpensMarked(obj, stack)
    BY <1>3, <1>4 DEF RemarkedOf
  <1>11. n \in Marks /\ Darker(obj, n.obj) /\ MarkedOf(n.obj, {}) /\ OpensMarked(n.obj, stack)
    BY <1>2, <1>4, <1>7, <1>8, <1>9, <1>10, MarkAllMarks
  <1>12. NotWhite(n.obj, {Main, Globals})
    <2>1. n.obj \in Heaps
      BY <1>11 DEF Marks
    <2> QED
      BY <1>4, <1>11, <2>1, DarkerIs
  <1>13. RemarkedOf(n.obj, stack, "remark weak", m.again, m.weak, tmudata)
    BY <1>7, <1>11, EmptyList DEF RemarkedOf, WeakMarked
  <1>14. LinkedOf(m.obj, m.gray, m.again, m.weak) /\ WeakOf(m.obj, m.weak)
    BY <1>1, <1>4, <1>7, EmptyList, LinkedMoves DEF WeakOf
  <1>15. /\ n \in Marks
         /\ SoundOf(n.obj, white, stack, tmudata)
         /\ ColouredOf(n.obj, white, "remark weak", unswept, tmudata)
         /\ MarkOf(n.obj, stack, "remark weak", n.gray, n.again, n.weak, tmudata)
    BY <1>2, <1>3, <1>4, <1>7, <1>8, <1>9, <1>11, <1>12, <1>13, <1>14, MarkingStep
  <1>16. HeapTyped'
    BY <1>1, <1>4, <1>15 DEF HeapTyped, Marks, Phases
  <1> QED
    BY <1>1, <1>15, <1>16 DEF GCInv

LEMMA RemarkAgainKeeps ==
  ASSUME GCInv, RemarkAgain
  PROVE  GCInv'
  <1> DEFINE m == [M EXCEPT !.gray = again, !.again = <<>>]
  <1>1. /\ phase = "remark weak" /\ gray = <<>> /\ phase' = "remark again"
        /\ obj' = m.obj /\ gray' = m.gray /\ again' = m.again /\ weak' = m.weak
        /\ mix' = mix /\ stack' = stack /\ white' = white
        /\ unswept' = unswept /\ tmudata' = tmudata
    BY DEF RemarkAgain, AtomicStep, Becomes
  <1>2. phase \in Marking /\ "remark again" \in Marking /\ phase \in Atomic
    BY <1>1, PhasesAre
  <1>3. /\ HeapTyped /\ SoundOf(obj, white, stack, tmudata)
        /\ obj \in Heaps /\ white \in Whites /\ stack \in Stacks
        /\ again \in Seq(Memory) /\ weak \in Seq(Memory)
        /\ NotWhite(obj, {Main, Globals}) /\ MarkedOf(obj, {})
        /\ LinkedOf(obj, gray, again, weak) /\ WeakOf(obj, weak)
        /\ RemarkedOf(obj, stack, phase, again, weak, tmudata)
        /\ NoneDead(obj, white) /\ AnyOf(obj) /\ tmudata = <<>>
    BY <1>1, <1>2, MarkingIs
  <1>4. M \in Marks /\ M.obj = obj /\ M.gray = gray /\ M.again = again /\ M.weak = weak
    BY <1>3, MarksIs
  <1>5. m.obj = obj /\ m.gray = again /\ m.again = <<>> /\ m.weak = weak
    BY <1>4 DEF Marks
  <1> HIDE DEF m
  <1>6. OpensMarked(obj, stack) /\ WeakMarked(obj, weak)
    BY <1>1, <1>2, <1>3 DEF RemarkedOf
  <1>7. RemarkedOf(obj, stack, "remark again", <<>>, weak, tmudata)
    BY <1>6, EmptyList DEF RemarkedOf, AgainMarked
  <1>8. LinkedOf(obj, again, <<>>, weak)
    BY <1>1, <1>3, LinkedMoves
  <1>9. MarkOf(obj, stack, "remark again", again, <<>>, weak, tmudata)
    BY <1>3, <1>7, <1>8 DEF MarkOf
  <1>10. ColouredOf(obj, white, "remark again", unswept, tmudata)
    BY <1>2, <1>3, ColouredMarking
  <1>11. HeapTyped'
    BY <1>1, <1>3, <1>5 DEF HeapTyped, Phases
  <1> QED
    BY <1>1, <1>3, <1>5, <1>9, <1>10, <1>11 DEF GCInv

\* Heaps that differ in the flags of userdata only.
FlagsOnly(O, O1) ==
    \A o \in Memory :
        /\ O1[o].kind = O[o].kind /\ O1[o].key = O[o].key /\ O1[o].val = O[o].val
        /\ O1[o].at = O[o].at /\ O1[o].colour = O[o].colour

LEMMA FlagsOnlyIs ==
  ASSUME NEW O, NEW O1, FlagsOnly(O, O1)
  PROVE  /\ Alloc(O1) = Alloc(O)
         /\ \A S : NotWhite(O1, S) <=> NotWhite(O, S)
         /\ \A o \in Memory :
              /\ Keeps(O1[o]) = Keeps(O[o]) /\ (StaysGray(O1[o]) <=> StaysGray(O[o]))
              /\ Traversed(O1[o]) <=> Traversed(O[o])
              /\ IsOpen(O1[o]) <=> IsOpen(O[o])
  <1>1. Alloc(O1) = Alloc(O)
    BY DEF FlagsOnly, Alloc
  <1>2. \A S : NotWhite(O1, S) <=> NotWhite(O, S)
    BY DEF FlagsOnly, NotWhite
  <1>3. \A o \in Memory : Keeps(O1[o]) = Keeps(O[o]) /\ (StaysGray(O1[o]) <=> StaysGray(O[o]))
    BY DEF FlagsOnly, Keeps, StaysGray, WeakKey, WeakValue
  <1>4. \A o \in Memory :
           /\ Traversed(O1[o]) <=> Traversed(O[o])
           /\ IsOpen(O1[o]) <=> IsOpen(O[o])
    BY DEF FlagsOnly, Traversed, IsOpen
  <1> QED
    BY <1>1, <1>2, <1>3, <1>4

LEMMA FlagsOnlyKeys ==
  ASSUME NEW O, NEW O1, FlagsOnly(O, O1)
  PROVE  \A o \in Memory : KeyMarked(O, O[o].key) => KeyMarked(O1, O1[o].key)
  BY FlagsOnlyIs DEF FlagsOnly, KeyMarked

LEMMA FlagsOnlyMarked ==
  ASSUME NEW O, NEW O1, FlagsOnly(O, O1), NEW st, NEW g, NEW a, NEW k \in Seq(Memory)
  PROVE  /\ MarkedOf(O, {}) => MarkedOf(O1, {})
         /\ LinkedOf(O, g, a, k) => LinkedOf(O1, g, a, k)
         /\ WeakOf(O, k) => WeakOf(O1, k)
         /\ OpensMarked(O, st) => OpensMarked(O1, st)
         /\ WeakMarked(O, k) => WeakMarked(O1, k)
         /\ AgainMarked(O, st, a) => AgainMarked(O1, st, a)
  <1>1. /\ Alloc(O1) = Alloc(O) /\ Alloc(O) \subseteq Memory
        /\ \A S : NotWhite(O1, S) <=> NotWhite(O, S)
        /\ \A o \in Memory :
              /\ Keeps(O1[o]) = Keeps(O[o]) /\ (StaysGray(O1[o]) <=> StaysGray(O[o]))
              /\ Traversed(O1[o]) <=> Traversed(O[o])
              /\ IsOpen(O1[o]) <=> IsOpen(O[o])
    BY FlagsOnlyIs DEF Alloc
  <1>2. \A o \in Memory :
           O1[o].kind = O[o].kind /\ O1[o].colour = O[o].colour /\ O1[o].at = O[o].at
    BY DEF FlagsOnly
  <1>3. ToSet(k) \subseteq Memory
    BY ListIn
  <1>4. MarkedOf(O, {}) => MarkedOf(O1, {})
    BY <1>1, <1>2, FlagsOnlyKeys DEF MarkedOf, ColourSound
  <1>5. LinkedOf(O, g, a, k) => LinkedOf(O1, g, a, k)
    <2>1. {o \in Alloc(O1) : O1[o].colour = "gray" /\ Traversed(O1[o])}
             = {o \in Alloc(O) : O[o].colour = "gray" /\ Traversed(O[o])}
      BY <1>1, <1>2
    <2> QED
      BY <2>1 DEF LinkedOf
  <1>6. WeakOf(O, k) => WeakOf(O1, k)
    BY <1>2, <1>3 DEF WeakOf
  <1>7. OpensMarked(O, st) => OpensMarked(O1, st)
    BY <1>1, <1>2 DEF OpensMarked
  <1>8. WeakMarked(O, k) => WeakMarked(O1, k)
    BY <1>1, <1>3 DEF WeakMarked
  <1>9. AgainMarked(O, st, a) => AgainMarked(O1, st, a)
    BY <1>1 DEF AgainMarked
  <1> QED
    BY <1>4, <1>5, <1>6, <1>7, <1>8, <1>9

LEMMA DarkerMarked ==
  ASSUME NEW O \in Heaps, NEW O2 \in Heaps, Darker(O, O2), NEW st, NEW a, NEW k \in Seq(Memory)
  PROVE  /\ WeakMarked(O, k) => WeakMarked(O2, k)
         /\ AgainMarked(O, st, a) => AgainMarked(O2, st, a)
  <1>1. \A S : NotWhite(O, S) => NotWhite(O2, S)
    BY DarkerIs
  <1>2. \A o \in Memory :
           O2[o].kind = O[o].kind /\ O2[o].key = O[o].key /\ O2[o].val = O[o].val
    BY DarkerIs
  <1>3. \A o \in Memory : Keeps(O2[o]) = Keeps(O[o])
    BY <1>2 DEF Keeps, WeakKey, WeakValue
  <1>4. ToSet(k) \subseteq Memory
    BY ListIn
  <1>5. WeakMarked(O, k) => WeakMarked(O2, k)
    BY <1>1, <1>3, <1>4 DEF WeakMarked
  <1>6. AgainMarked(O, st, a) => AgainMarked(O2, st, a)
    BY <1>1 DEF AgainMarked
  <1> QED
    BY <1>5, <1>6

\* The userdata that luaC_separateudata finds.
LEMMA ToFinalizeIs ==
  ToFinalize \in Seq(Memory) /\ ToSet(ToFinalize) = {o \in Dying : HasGC(obj[o])}
  <1>1. {o \in Dying : HasGC(obj[o])} \subseteq Memory
    BY DEF Dying
  <1>2. IsFiniteSet({o \in Dying : HasGC(obj[o])})
    BY <1>1, MemoryIs
  <1>3. /\ ToFinalize \in Seq({o \in Dying : HasGC(obj[o])})
        /\ ToSet(ToFinalize) = {o \in Dying : HasGC(obj[o])}
    BY <1>2, SetToSeqIs DEF ToFinalize
  <1>4. ToFinalize \in Seq(Memory)
    <2>1. \A S : S \subseteq Memory => Seq(S) \subseteq Seq(Memory)
      OBVIOUS
    <2> QED
      BY <1>1, <1>3, <2>1
  <1> QED
    BY <1>3, <1>4

LEMMA SeparateKeeps ==
  ASSUME GCInv, Separate
  PROVE  GCInv'
  <1> DEFINE waiting == tmudata \o ToFinalize
             F  == {o \in Dying : HasGC(obj[o])}
             O1 == [o \in Memory |->
                       [Separated(obj[o], o) EXCEPT
                           !.colour = IF o \in ToSet(waiting) THEN white ELSE @]]
             m  == [M EXCEPT !.obj = O1]
             S  == ToSet(waiting)
             n  == MarkAll(m, S)
  <1>1. /\ phase = "remark again" /\ gray = <<>> /\ phase' = "mark finalized"
        /\ obj' = n.obj /\ gray' = n.gray /\ again' = n.again /\ weak' = n.weak
        /\ tmudata' = waiting
        /\ mix' = mix /\ stack' = stack /\ white' = white /\ unswept' = unswept
    BY DEF Separate, AtomicStep, Becomes
  <1>2. n = MarkAll(m, S)
    OBVIOUS
  <1>3. phase \in Marking /\ "mark finalized" \in Marking /\ phase \in Atomic
    BY <1>1, PhasesAre
  <1>4. /\ HeapTyped /\ SoundOf(obj, white, stack, tmudata)
        /\ obj \in Heaps /\ white \in Whites /\ stack \in Stacks
        /\ gray \in Seq(Memory) /\ again \in Seq(Memory) /\ weak \in Seq(Memory)
        /\ NotWhite(obj, {Main, Globals}) /\ MarkedOf(obj, {})
        /\ LinkedOf(obj, gray, again, weak) /\ WeakOf(obj, weak)
        /\ RemarkedOf(obj, stack, phase, again, weak, tmudata)
        /\ NoneDead(obj, white) /\ AnyOf(obj) /\ tmudata = <<>>
        /\ LiveOf(obj, white) = Alloc(obj)
    BY <1>1, <1>3, MarkingIs
  <1>5. M \in Marks /\ M.obj = obj /\ M.gray = gray /\ M.again = again /\ M.weak = weak
    BY <1>4, MarksIs
  <1>6. waiting = ToFinalize /\ waiting \in Seq(Memory) /\ S = F
    BY <1>4, ToFinalizeIs
  <1> HIDE DEF waiting
  <1>7. \A o \in F : /\ o \in Alloc(obj) /\ obj[o].kind = "file" /\ obj[o].colour = white
                     /\ o \in Dying
    <2>1. \A o \in F : o \in Memory /\ obj[o].kind = "file" /\ obj[o].colour \in Whites
      BY <1>5 DEF Dying, HasGC, IsWhite
    <2> QED
      BY <1>4, <2>1, OtherIs DEF NoneDead, Alloc
  <1>8. \A o \in Memory : obj[o] \in Objects
    BY <1>4 DEF Heaps
  <1>9. ASSUME NEW o \in Memory
        PROVE  /\ O1[o] \in Objects
               /\ O1[o].kind = obj[o].kind /\ O1[o].key = obj[o].key /\ O1[o].val = obj[o].val
               /\ O1[o].at = obj[o].at /\ O1[o].colour = obj[o].colour
               /\ O1[o].called = obj[o].called
               /\ O1[o].finalized <=> obj[o].finalized \/ o \in Dying
    <2> DEFINE x == Separated(obj[o], o)
    <2>1. /\ x \in Objects
          /\ x.kind = obj[o].kind /\ x.key = obj[o].key /\ x.val = obj[o].val
          /\ x.at = obj[o].at /\ x.colour = obj[o].colour
          /\ x.called = obj[o].called
          /\ x.finalized <=> obj[o].finalized \/ o \in Dying
      BY <1>8 DEF Separated, Objects
    <2>2. O1[o] = [x EXCEPT !.colour = IF o \in S THEN white ELSE @]
      OBVIOUS
    <2> HIDE DEF x, O1, S
    <2>3. (IF o \in S THEN white ELSE x.colour) = x.colour
      BY <1>6, <1>7, <2>1
    <2>4. O1[o] = [x EXCEPT !.colour = x.colour]
      BY <2>2, <2>3
    <2>5. O1[o] = x
      BY <2>1, <2>4 DEF Objects
    <2> QED
      BY <2>1, <2>5
  <1>10. O1 \in Heaps
    BY <1>9 DEF Heaps
  <1>11. m \in Marks /\ m.obj = O1 /\ m.gray = gray /\ m.again = again /\ m.weak = weak
    <2> HIDE DEF O1
    <2> QED
      BY <1>5, <1>10 DEF Marks
  <1> HIDE DEF n, m, O1, S, F
  <1>12. FlagsOnly(obj, O1)
    BY <1>9 DEF FlagsOnly
  <1>13. Alloc(O1) = Alloc(obj) /\ \A T : NotWhite(O1, T) <=> NotWhite(obj, T)
    BY <1>12, FlagsOnlyIs
  <1>14. NoneDead(O1, white) /\ AnyOf(O1) /\ LiveOf(O1, white) = Alloc(obj)
    <2>1. NoneDead(O1, white)
      BY <1>4, <1>9, <1>13 DEF NoneDead, Alloc
    <2>2. AnyOf(O1)
      BY <1>4, <1>9, <1>13 DEF AnyOf, Alloc
    <2>3. LiveOf(O1, white) = Alloc(O1)
      BY <2>1, NoneDeadLive
    <2> QED
      BY <1>13, <2>1, <2>2, <2>3
  <1>15. SoundOf(O1, white, stack, waiting)
    <2>1. \A p \in LiveOf(obj, white) :
             p \in Memory /\ p \in LiveOf(O1, white) /\ O1[p].kind = obj[p].kind
      BY <1>4, <1>9, <1>14 DEF Alloc
    <2>2. \A p \in LiveOf(O1, white) : p \in LiveOf(obj, white) /\ SameRefs(obj[p], O1[p])
      <3>1. SUFFICES ASSUME NEW p \in LiveOf(obj, white) PROVE SameRefs(obj[p], O1[p])
        BY <1>4, <1>14
      <3>2. RefsOf(obj, white, obj[p])
        BY <1>4 DEF SoundOf
      <3> QED
        BY <1>9, <2>1, <3>2 DEF SameRefs, RefsOf
    <2>3. \A p \in Memory : O1[p].kind = "thread" <=> p = Main
      BY <1>4, <1>9 DEF SoundOf
    <2>4. \A i \in 1..Frame : ValueOf(obj, white, stack[i])
      BY <1>4 DEF SoundOf
    <2>5. \A p \in ToSet(waiting) :
             p \in LiveOf(O1, white) /\ O1[p].kind = "file" /\ O1[p].finalized
      BY <1>6, <1>7, <1>9, <1>14 DEF Alloc, S
    <2> QED
      BY <1>4, <2>1, <2>2, <2>3, <2>4, <2>5, SoundGrows
  <1>16. S \in SUBSET Values /\ \A v \in S : v \in Memory => v \in Alloc(O1)
    <2>1. S \subseteq Memory
      BY <1>6, ListIn DEF S
    <2> QED
      BY <1>6, <1>7, <1>13, <2>1 DEF Values
  <1>17. OpensMarked(obj, stack) /\ WeakMarked(obj, weak) /\ AgainMarked(obj, stack, again)
    BY <1>1, <1>3, <1>4 DEF RemarkedOf
  <1>18. /\ MarkedOf(O1, {}) /\ LinkedOf(O1, gray, again, weak) /\ WeakOf(O1, weak)
         /\ OpensMarked(O1, stack) /\ WeakMarked(O1, weak) /\ AgainMarked(O1, stack, again)
    BY <1>4, <1>12, <1>17, FlagsOnlyMarked
  <1>19. /\ n \in Marks /\ Darker(O1, n.obj) /\ NotWhite(n.obj, S) /\ MarkedOf(n.obj, {})
         /\ OpensMarked(n.obj, stack)
    BY <1>2, <1>4, <1>11, <1>14, <1>15, <1>16, <1>18, MarkAllMarks
  <1>20. n.obj \in Heaps
    BY <1>19 DEF Marks
  <1>21. WeakMarked(n.obj, weak) /\ AgainMarked(n.obj, stack, again)
    BY <1>4, <1>10, <1>18, <1>19, <1>20, DarkerMarked
  <1>22. NotWhite(n.obj, {Main, Globals})
    BY <1>4, <1>10, <1>13, <1>19, <1>20, DarkerIs
  <1>23. RemarkedOf(n.obj, stack, "mark finalized", again, weak, waiting)
    BY <1>19, <1>21 DEF RemarkedOf, S
  <1>24. LinkedOf(m.obj, m.gray, m.again, m.weak) /\ WeakOf(m.obj, m.weak)
           /\ RemarkedOf(n.obj, stack, "mark finalized", m.again, m.weak, waiting)
    BY <1>11, <1>18, <1>23
  <1>25. /\ n \in Marks
         /\ SoundOf(n.obj, white, stack, waiting)
         /\ ColouredOf(n.obj, white, "mark finalized", unswept, waiting)
         /\ MarkOf(n.obj, stack, "mark finalized", n.gray, n.again, n.weak, waiting)
    BY <1>2, <1>3, <1>4, <1>11, <1>14, <1>15, <1>16, <1>19, <1>22, <1>24, MarkingStep
  <1>26. HeapTyped'
    BY <1>1, <1>4, <1>6, <1>25 DEF HeapTyped, Marks, Phases
  <1> QED
    BY <1>1, <1>25, <1>26 DEF GCInv

-----------------------------------------------------------------------------
(* The end of marking: what is not white keeps nothing white alive.        *)

LEMMA NonWhiteClosed ==
  ASSUME GCInv, phase \in {"remark again", "mark finalized"}, gray = <<>>,
         NEW o \in Alloc(obj), obj[o].colour \notin Whites
  PROVE  NotWhite(obj, Strong(obj[o]))
  <1>1. phase \in Marking /\ phase \in Atomic
    BY PhasesAre
  <1>2. /\ SoundOf(obj, white, stack, tmudata) /\ obj \in Heaps
        /\ MarkedOf(obj, {}) /\ LinkedOf(obj, gray, again, weak) /\ WeakOf(obj, weak)
        /\ RemarkedOf(obj, stack, phase, again, weak, tmudata)
        /\ LiveOf(obj, white) = Alloc(obj)
    BY <1>1, MarkingIs
  <1>3. OpensMarked(obj, stack) /\ WeakMarked(obj, weak) /\ AgainMarked(obj, stack, again)
    BY <1>1, <1>2 DEF RemarkedOf
  <1>4. RefsOf(obj, white, obj[o]) /\ ColourSound(obj, obj[o])
    BY <1>2 DEF SoundOf, MarkedOf
  <1>5. o \in Memory /\ obj[o] \in Objects
    BY <1>2 DEF Alloc, Heaps
  <1>6. obj[o].colour \in {"gray", "black"}
    BY <1>5 DEF Objects
  <1>7. CASE obj[o].colour = "black"
    <2>1. NotWhite(obj, Keeps(obj[o])) /\ ~StaysGray(obj[o])
      BY <1>4, <1>7 DEF ColourSound
    <2>2. obj[o].kind # "thread" /\ ~IsOpen(obj[o])
      BY <1>4, <1>7, <2>1 DEF StaysGray, RefsOf
    <2> QED
      BY <2>1, <2>2, StrongIs
  <1>8. CASE obj[o].colour = "gray" /\ Traversed(obj[o])
    <2>1. o \in ToSet(again) \/ o \in ToSet(weak)
      BY <1>2, <1>8, EmptyList DEF LinkedOf
    <2>2. CASE o \in ToSet(again)
      <3>1. o = Main /\ NotWhite(obj, {Globals} \union StackOf(stack))
        BY <1>3, <2>2 DEF AgainMarked
      <3>2. obj[o].kind = "thread"
        BY <1>2, <1>5, <3>1 DEF SoundOf
      <3> QED
        BY <3>1, <3>2, StrongThread
    <2>3. CASE o \in ToSet(weak)
      <3>1. NotWhite(obj, Keeps(obj[o])) /\ obj[o].kind \in Tables
        BY <1>2, <1>3, <2>3 DEF WeakMarked, WeakOf
      <3>2. obj[o].kind # "thread" /\ ~IsOpen(obj[o])
        BY <3>1 DEF IsOpen, Tables
      <3> QED
        BY <3>1, <3>2, StrongIs
    <2> QED
      BY <2>1, <2>2, <2>3
  <1>9. CASE obj[o].colour = "gray" /\ obj[o].kind = "string"
    <2>1. Strong(obj[o]) = {obj[o].val}
      BY <1>9 DEF Strong, Tables
    <2> QED
      BY <1>4, <1>9, <2>1, MemoryIs DEF RefsOf, NotWhite
  <1>10. CASE obj[o].colour = "gray" /\ IsOpen(obj[o])
    BY <1>3, <1>10, StrongOpen DEF OpensMarked
  <1> QED
    BY <1>4, <1>6, <1>7, <1>8, <1>9, <1>10 DEF ColourSound

\* What cleartable leaves of an object.
LEMMA ClearTablesIs ==
  ASSUME obj \in Heaps, NEW o \in Memory
  PROVE  LET O2 == ClearTables IN
         /\ O2[o] \in Objects
         /\ O2[o].kind = obj[o].kind /\ O2[o].at = obj[o].at
         /\ O2[o].finalized = obj[o].finalized /\ O2[o].called = obj[o].called
         /\ \/ /\ o \in ToSet(weak) /\ ClearedEntry(obj[o])
               /\ O2[o].val = Nil /\ O2[o].colour = obj[o].colour
            \/ /\ ~(o \in ToSet(weak) /\ ClearedEntry(obj[o]))
               /\ O2[o].val = obj[o].val /\ O2[o].key = obj[o].key
               /\ O2[o].colour = IF StringMarked(o) THEN "gray" ELSE obj[o].colour
  <1> DEFINE x == obj[o]
             y == ClearTables[o]
  <1>1. x \in Objects
    BY DEF Heaps
  <1>2. y = IF o \in ToSet(weak) /\ ClearedEntry(x) THEN RemoveEntry([x EXCEPT !.val = Nil])
            ELSE IF StringMarked(o) THEN [x EXCEPT !.colour = "gray"] ELSE x
    BY DEF ClearTables
  <1> HIDE DEF x, y
  <1>3. CASE o \in ToSet(weak) /\ ClearedEntry(x)
    <2>1. y = RemoveEntry([x EXCEPT !.val = Nil])
      BY <1>2, <1>3
    <2>2. /\ y \in Objects /\ y.kind = x.kind /\ y.at = x.at
          /\ y.finalized = x.finalized /\ y.called = x.called
          /\ y.val = Nil /\ y.colour = x.colour
      BY <1>1, <2>1 DEF RemoveEntry, Objects, Values
    <2> QED
      BY <1>3, <2>2 DEF x, y
  <1>4. CASE ~(o \in ToSet(weak) /\ ClearedEntry(x))
    <2>1. y = IF StringMarked(o) THEN [x EXCEPT !.colour = "gray"] ELSE x
      BY <1>2, <1>4
    <2>2. /\ y \in Objects /\ y.kind = x.kind /\ y.at = x.at
          /\ y.finalized = x.finalized /\ y.called = x.called
          /\ y.val = x.val /\ y.key = x.key
          /\ y.colour = IF StringMarked(o) THEN "gray" ELSE x.colour
      BY <1>1, <2>1 DEF Objects
    <2> QED
      BY <1>4, <2>2 DEF x, y
  <1> QED
    BY <1>3, <1>4

LEMMA EndAtomicKeeps ==
  ASSUME GCInv, EndAtomic
  PROVE  GCInv'
  <1> DEFINE O2 == ClearTables
             w2 == Other(white)
             us == {o \in Memory \ (Opens(M) \union ToSet(tmudata)) :
                        obj[o].kind \notin {"free", "string"}}
  <1>1. /\ phase = "mark finalized" /\ gray = <<>> /\ phase' = "sweepstring"
        /\ obj' = O2 /\ white' = w2 /\ unswept' = us
        /\ gray' = gray /\ again' = again /\ weak' = weak /\ tmudata' = tmudata
        /\ mix' = mix /\ stack' = stack
    BY DEF EndAtomic, AtomicStep, lists
  <1>2. phase \in Marking /\ phase \in Atomic
    BY <1>1, PhasesAre
  <1>3. /\ HeapTyped /\ SoundOf(obj, white, stack, tmudata)
        /\ obj \in Heaps /\ white \in Whites /\ stack \in Stacks
        /\ gray \in Seq(Memory) /\ again \in Seq(Memory) /\ weak \in Seq(Memory)
        /\ NotWhite(obj, {Main, Globals}) /\ MarkedOf(obj, {})
        /\ LinkedOf(obj, gray, again, weak) /\ WeakOf(obj, weak)
        /\ RemarkedOf(obj, stack, phase, again, weak, tmudata)
        /\ NoneDead(obj, white) /\ AnyOf(obj)
        /\ LiveOf(obj, white) = Alloc(obj)
    BY <1>1, <1>2, MarkingIs
  <1>4. M \in Marks /\ M.obj = obj
    BY <1>3, MarksIs
  <1>5. w2 = Other(white) /\ w2 \in Whites /\ Other(w2) = white /\ white # "gray" /\ white # "black" /\ w2 # white
        /\ Whites = {white, w2}
    BY <1>3, OtherIs
  <1> HIDE DEF w2
  <1>6. /\ Alloc(obj) \subseteq Memory
        /\ Main \in Memory /\ Globals \in Memory /\ Nil \notin Memory
        /\ \A v \in Values : Collectable(v) <=> v \in Memory
        /\ \A o \in Memory : obj[o] \in Objects
    BY <1>3, MemoryIs DEF Alloc, Heaps
  <1>7. \A o \in Memory :
         /\ O2[o] \in Objects
         /\ O2[o].kind = obj[o].kind /\ O2[o].at = obj[o].at
         /\ O2[o].finalized = obj[o].finalized /\ O2[o].called = obj[o].called
         /\ \/ /\ o \in ToSet(weak) /\ ClearedEntry(obj[o])
               /\ O2[o].val = Nil /\ O2[o].colour = obj[o].colour
            \/ /\ ~(o \in ToSet(weak) /\ ClearedEntry(obj[o]))
               /\ O2[o].val = obj[o].val /\ O2[o].key = obj[o].key
               /\ O2[o].colour = IF StringMarked(o) THEN "gray" ELSE obj[o].colour
    BY <1>3, ClearTablesIs
  <1>8. O2 \in Heaps
    BY <1>7 DEF Heaps, ClearTables
  <1> HIDE DEF O2, us
  <1>9. Alloc(O2) = Alloc(obj)
    BY <1>7 DEF Alloc
  \* The live are now those that are not white, and the strings of weak tables.
  <1>10. \A o \in Alloc(obj) : obj[o].colour \notin Whites => o \in LiveOf(O2, w2)
    BY <1>5, <1>6, <1>7, <1>9 DEF LiveOf
  <1>11. \A o \in Alloc(obj) : o \in LiveOf(O2, w2) =>
            obj[o].colour \notin Whites \/ StringMarked(o)
    <2>1. \A o \in Alloc(obj) : obj[o].colour \in Whites => obj[o].colour = white
      BY <1>3, <1>5 DEF NoneDead
    <2>2. \A o \in LiveOf(O2, w2) : O2[o].colour # white
      BY <1>5 DEF LiveOf
    <2> QED
      BY <1>6, <1>7, <2>1, <2>2
  <1>12. \A o \in Memory : StringMarked(o) => obj[o].kind = "string" /\ o \in LiveOf(O2, w2)
    <2>1. \A o \in Memory : StringMarked(o) => obj[o].kind = "string" /\ o \in Alloc(obj)
      BY DEF StringMarked, Alloc
    <2>2. \A o \in Memory : obj[o].kind = "string" => o \notin ToSet(weak)
      BY <1>3 DEF WeakOf, Tables
    <2> QED
      BY <1>5, <1>6, <1>7, <1>9, <2>1, <2>2 DEF LiveOf
  <1>13. \A o \in Alloc(obj) : obj[o].colour \notin Whites => NotWhite(obj, Strong(obj[o]))
    BY <1>1, NonWhiteClosed
  <1>14. \A o \in Alloc(obj) : RefsOf(obj, white, obj[o])
    BY <1>3 DEF SoundOf
  <1>15. ASSUME NEW o \in LiveOf(O2, w2)
         PROVE  RefsOf(O2, w2, O2[o])
    <2>1. o \in Alloc(obj) /\ o \in Memory
      BY <1>6, <1>9, <1>15 DEF LiveOf
    <2>2. O2[o].kind = obj[o].kind /\ O2[o].at = obj[o].at
      BY <1>7, <2>1
    <2>3. CASE o \in ToSet(weak) /\ ClearedEntry(obj[o])
      <3>1. O2[o].val = Nil /\ O2[o].kind \in Tables
        BY <1>3, <1>7, <2>1, <2>3 DEF WeakOf
      <3> QED
        BY <3>1 DEF RefsOf, IsUserdata, IsOpen, Tables
    <2>4. CASE o \in ToSet(weak) /\ ~ClearedEntry(obj[o])
      <3>1. /\ O2[o].val = obj[o].val /\ O2[o].key = obj[o].key
            /\ O2[o].kind = obj[o].kind /\ obj[o].kind \in Tables
        BY <1>3, <1>7, <2>1, <2>4 DEF WeakOf
      <3>2. SUFFICES ASSUME obj[o].val # Nil
                     PROVE  ValueOf(O2, w2, obj[o].key) /\ ValueOf(O2, w2, obj[o].val)
        BY <3>1 DEF RefsOf, IsUserdata, IsOpen, Tables
      <3>3. /\ ValueOf(obj, white, obj[o].key) /\ ValueOf(obj, white, obj[o].val)
            /\ obj[o].key \in Values /\ obj[o].val \in Values
        BY <1>6, <1>14, <2>1, <3>1, <3>2 DEF RefsOf, Objects
      <3>4. ~IsCleared(M, obj[o].key, TRUE) /\ ~IsCleared(M, obj[o].val, FALSE)
        BY <2>4, <3>2 DEF ClearedEntry
      <3>5. \A v \in {obj[o].key, obj[o].val} :
              v \in Memory => obj[v].kind = "string" \/ obj[v].colour \notin Whites
        BY <1>4, <1>6, <3>3, <3>4 DEF IsCleared, IsWhite
      <3>6. \A v \in {obj[o].key, obj[o].val} :
              v \in Memory /\ obj[v].kind = "string" => StringMarked(v)
        BY <2>4, <3>2 DEF StringMarked
      <3>7. \A v \in {obj[o].key, obj[o].val} :
              v \in Memory => v \in Alloc(obj) /\ obj[v].kind # "upvalue" /\ v \in LiveOf(O2, w2)
        BY <1>3, <1>10, <1>12, <3>3, <3>5, <3>6 DEF ValueOf
      <3> QED
        BY <1>7, <3>7 DEF ValueOf
    <2>5. CASE o \notin ToSet(weak) /\ StringMarked(o)
      <3>1. O2[o].kind = "string" /\ O2[o].val = Nil
        BY <1>7, <1>12, <1>14, <2>1, <2>5 DEF RefsOf
      <3> QED
        BY <3>1 DEF RefsOf, IsUserdata, IsOpen, Tables
    <2>6. CASE o \notin ToSet(weak) /\ ~StringMarked(o)
      <3>1. /\ O2[o].val = obj[o].val /\ O2[o].key = obj[o].key
            /\ O2[o].kind = obj[o].kind /\ O2[o].colour = obj[o].colour /\ O2[o].at = obj[o].at
        BY <1>7, <2>1, <2>6
      <3>2. obj[o].colour \notin Whites
        BY <1>11, <1>15, <2>1, <2>6
      <3>3. NotWhite(obj, Strong(obj[o])) /\ RefsOf(obj, white, obj[o])
        BY <1>13, <1>14, <2>1, <3>2
      <3>4. ASSUME NEW v, v \in Strong(obj[o]), ValueOf(obj, white, v) PROVE ValueOf(O2, w2, v)
        <4>1. v \in Memory => v \in Alloc(obj) /\ obj[v].kind # "upvalue" /\ obj[v].colour \notin Whites
          BY <1>3, <3>3, <3>4 DEF ValueOf, NotWhite
        <4> QED
          BY <1>7, <1>10, <4>1 DEF ValueOf
      <3>5. obj[o].kind = "closure" => O2[o].val \in LiveOf(O2, w2) /\ O2[O2[o].val].kind = "upvalue"
        <4>1. SUFFICES ASSUME obj[o].kind = "closure"
                       PROVE  obj[o].val \in LiveOf(O2, w2) /\ O2[obj[o].val].kind = "upvalue"
          BY <3>1
        <4>2. obj[o].val \in Strong(obj[o])
          BY <4>1 DEF Strong, Tables
        <4>3. obj[o].val \in Alloc(obj) /\ obj[obj[o].val].kind = "upvalue"
          BY <1>3, <3>3, <4>1 DEF RefsOf
        <4> QED
          BY <1>6, <1>7, <1>10, <3>3, <4>2, <4>3 DEF NotWhite
      <3>6. IsUserdata(obj[o]) => O2[o].val \in LiveOf(O2, w2) /\ O2[O2[o].val].kind \in Tables
        <4>1. SUFFICES ASSUME IsUserdata(obj[o])
                       PROVE  obj[o].val \in LiveOf(O2, w2) /\ O2[obj[o].val].kind \in Tables
          BY <3>1
        <4>2. obj[o].val \in Strong(obj[o])
          BY <4>1 DEF Strong, Tables, IsUserdata
        <4>3. obj[o].val \in Alloc(obj) /\ obj[obj[o].val].kind \in Tables
          BY <1>3, <3>3, <4>1 DEF RefsOf
        <4> QED
          BY <1>6, <1>7, <1>10, <3>3, <4>2, <4>3 DEF NotWhite
      <3>7. obj[o].kind = "upvalue" /\ ~IsOpen(obj[o]) => ValueOf(O2, w2, O2[o].val)
        <4>1. SUFFICES ASSUME obj[o].kind = "upvalue", ~IsOpen(obj[o])
                       PROVE  ValueOf(O2, w2, obj[o].val)
          BY <3>1
        <4>2. obj[o].val \in Strong(obj[o])
          BY <4>1 DEF Strong, Tables, UpvalueOf
        <4>3. ValueOf(obj, white, obj[o].val)
          BY <3>3, <4>1 DEF RefsOf
        <4> QED
          BY <3>4, <4>2, <4>3
      <3>8. obj[o].kind \in Tables /\ obj[o].val # Nil =>
               ValueOf(O2, w2, O2[o].key) /\ ValueOf(O2, w2, O2[o].val)
        <4>1. SUFFICES ASSUME obj[o].kind \in Tables, obj[o].val # Nil
                       PROVE  ValueOf(O2, w2, obj[o].key) /\ ValueOf(O2, w2, obj[o].val)
          BY <3>1
        <4>2. obj[o].colour = "black"
          <5>1. obj[o].colour = "gray" => o \in ToSet(again)
            BY <1>1, <1>3, <2>1, <2>6, <4>1, EmptyList DEF LinkedOf, Traversed
          <5>2. o \in ToSet(again) => o = Main
            BY <1>1, <1>3 DEF RemarkedOf, AgainMarked
          <5>3. o # Main
            BY <1>3, <2>1, <4>1 DEF SoundOf, Tables
          <5> QED
            BY <1>6, <2>1, <3>2, <5>1, <5>2, <5>3 DEF Objects
        <4>3. ~WeakKey(obj[o]) /\ ~WeakValue(obj[o])
          BY <1>3, <2>1, <4>2 DEF MarkedOf, ColourSound, StaysGray
        <4>4. obj[o].key \in Strong(obj[o]) /\ obj[o].val \in Strong(obj[o])
          BY <4>1, <4>3 DEF Strong, Tables
        <4>5. ValueOf(obj, white, obj[o].key) /\ ValueOf(obj, white, obj[o].val)
          BY <3>3, <4>1 DEF RefsOf
        <4> QED
          BY <3>4, <4>4, <4>5
      <3>9. /\ obj[o].kind = "string" => O2[o].val = Nil
            /\ IsOpen(obj[o]) => O2[o].at \in 1 .. Frame /\ O2[o].colour # "black"
        BY <3>1, <3>3 DEF RefsOf
      <3>10. (IsOpen(O2[o]) <=> IsOpen(obj[o])) /\ (IsUserdata(O2[o]) <=> IsUserdata(obj[o]))
        BY <3>1 DEF IsOpen, IsUserdata
      <3> QED
        BY <3>1, <3>5, <3>6, <3>7, <3>8, <3>9, <3>10 DEF RefsOf
    <2> QED
      BY <2>3, <2>4, <2>5, <2>6
  <1>16. SoundOf(O2, w2, stack, tmudata)
    <2>1. \A o \in Memory : O2[o].kind = "thread" <=> o = Main
      BY <1>3, <1>7 DEF SoundOf
    <2>2. O2[Globals].kind = "table" /\ Main \in LiveOf(O2, w2) /\ Globals \in LiveOf(O2, w2)
      BY <1>3, <1>6, <1>7, <1>10 DEF SoundOf, NotWhite
    <2>3. \A i \in 1..Frame : ValueOf(O2, w2, stack[i])
      <3>1. Main \in Alloc(obj) /\ obj[Main].colour \notin Whites /\ obj[Main].kind = "thread"
        BY <1>3, <1>6 DEF SoundOf, NotWhite
      <3>2. NotWhite(obj, StackOf(stack))
        BY <1>13, <3>1, StrongThread DEF NotWhite
      <3>3. \A i \in 1..Frame : ValueOf(obj, white, stack[i])
        BY <1>3 DEF SoundOf
      <3> QED
        BY <1>3, <1>7, <1>10, <3>2, <3>3 DEF NotWhite, StackOf, ValueOf
    <2>4. \A o \in ToSet(tmudata) : o \in LiveOf(O2, w2) /\ O2[o].kind = "file" /\ O2[o].finalized
      <3>1. NotWhite(obj, ToSet(tmudata))
        BY <1>1, <1>3 DEF RemarkedOf
      <3>2. \A o \in ToSet(tmudata) : o \in Alloc(obj) /\ obj[o].kind = "file" /\ obj[o].finalized
        BY <1>3 DEF SoundOf
      <3> QED
        BY <1>6, <1>7, <1>10, <3>1, <3>2 DEF NotWhite
    <2> QED
      BY <1>15, <2>1, <2>2, <2>3, <2>4 DEF SoundOf
  <1>17. Main \in us
    <2>1. obj[Main].kind = "thread" /\ \A o \in ToSet(tmudata) : obj[o].kind = "file"
      BY <1>3, <1>6 DEF SoundOf
    <2> QED
      BY <1>4, <1>6, <2>1 DEF us, Opens, IsOpen
  <1>18. ColouredOf(O2, w2, "sweepstring", us, tmudata)
    <2>1. \A o \in Alloc(O2) : o \in ToSet(tmudata) \/ ToBeSwept(O2, "sweepstring", us, o)
      <3>1. SUFFICES ASSUME NEW o \in Alloc(obj), o \notin ToSet(tmudata), obj[o].kind # "string"
                     PROVE  ToBeSwept(O2, "sweepstring", us, o)
        BY <1>6, <1>7, <1>9 DEF ToBeSwept
      <3>2. CASE IsOpen(obj[o])
        BY <1>6, <1>7, <1>17, <3>2 DEF ToBeSwept, IsOpen
      <3>3. CASE ~IsOpen(obj[o])
        BY <1>4, <1>6, <3>1, <3>3 DEF ToBeSwept, us, Opens, Alloc
      <3> QED
        BY <3>2, <3>3
    <2>2. AnyOf(O2)
      BY <1>3, <1>6, <1>7, <1>9 DEF AnyOf, WeakOf, Tables
    <2> QED
      BY <2>1, <2>2, PhasesAre DEF ColouredOf
  <1>19. MarkOf(O2, stack, "sweepstring", gray, again, weak, tmudata)
    BY PhasesAre DEF MarkOf
  <1>20. HeapTyped'
    BY <1>1, <1>3, <1>5, <1>8 DEF HeapTyped, Phases, us
  <1> QED
    BY <1>1, <1>16, <1>18, <1>19, <1>20 DEF GCInv

-----------------------------------------------------------------------------
(* The sweep, and the end of the cycle.                                    *)

\* Out of marking.
LEMMA NotMarkingIs ==
  ASSUME GCInv, phase \notin Marking
  PROVE  /\ HeapTyped /\ SoundOf(obj, white, stack, tmudata)
         /\ obj \in Heaps /\ white \in Whites /\ stack \in Stacks /\ tmudata \in Seq(Memory)
         /\ \A o \in Alloc(obj) :
               \/ obj[o].colour = white \/ o \in ToSet(tmudata)
               \/ ToBeSwept(obj, phase, unswept, o)
         /\ AnyOf(obj)
         /\ phase \in {"pause", "finalize"} => unswept = {}
         /\ phase = "pause" => tmudata = <<>>
         /\ unswept \subseteq Memory
  <1>1. /\ HeapTyped /\ SoundOf(obj, white, stack, tmudata)
        /\ ColouredOf(obj, white, phase, unswept, tmudata)
    BY DEF GCInv
  <1>2. /\ obj \in Heaps /\ white \in Whites /\ stack \in Stacks /\ tmudata \in Seq(Memory)
        /\ unswept \subseteq Memory
    BY <1>1 DEF HeapTyped
  <1>3. /\ \A o \in Alloc(obj) :
               \/ obj[o].colour = white \/ o \in ToSet(tmudata)
               \/ ToBeSwept(obj, phase, unswept, o)
        /\ AnyOf(obj)
        /\ phase \in {"pause", "finalize"} => unswept = {}
        /\ phase = "pause" => tmudata = <<>>
    BY <1>1 DEF ColouredOf, AnyOf
  <1> QED
    BY <1>1, <1>2, <1>3

LEMMA FreeIs ==
  Free \in Objects /\ Free.kind = "free"
  BY MemoryIs DEF Free, Objects, Whites, Values

LEMMA SweptIs ==
  ASSUME GCInv, NEW S \in SUBSET Memory
  PROVE  /\ Swept(S) \in Heaps
         /\ \A o \in Memory \ S : Swept(S)[o] = obj[o]
         /\ \A o \in S : o \in Alloc(Swept(S)) => Swept(S)[o].colour = white
         /\ Alloc(Swept(S)) \subseteq Alloc(obj)
         /\ \A o \in Alloc(Swept(S)) : Swept(S)[o].kind = obj[o].kind /\ Swept(S)[o].at = obj[o].at
         /\ SoundOf(Swept(S), white, stack, tmudata)
         /\ AnyOf(Swept(S))
  <1> DEFINE O2 == Swept(S)
  <1>1. /\ HeapTyped /\ SoundOf(obj, white, stack, tmudata) /\ AnyOf(obj)
    BY DEF GCInv, ColouredOf, AnyOf
  <1>2. /\ obj \in Heaps /\ white \in Whites /\ \A o \in Memory : obj[o] \in Objects
    BY <1>1 DEF HeapTyped, Heaps
  <1>3. M.obj = obj
    BY <1>1, MarksIs
  <1>4. \A o \in Memory \ S : O2[o] = obj[o]
    BY DEF Swept
  <1>5. \A o \in S : O2[o] = IF o # Main /\ obj[o].colour = Other(white) THEN Free
                             ELSE [obj[o] EXCEPT !.colour = white]
    BY <1>3 DEF Swept, IsDead
  <1>6. white # Other(white) /\ white # "black"
    BY <1>2, OtherIs
  <1>7. Main \in LiveOf(obj, white) /\ Main \in Memory
    BY <1>1, MemoryIs DEF SoundOf
  <1>8. O2 \in Heaps
    <2>1. \A o \in Memory : O2[o] \in Objects
      <3>1. \A o \in Memory : [obj[o] EXCEPT !.colour = white] \in Objects
        BY <1>2 DEF Objects
      <3> HIDE DEF O2
      <3> QED
        BY <1>2, <1>4, <1>5, <3>1, FreeIs
    <2> QED
      BY <2>1 DEF Heaps, Swept
  <1> HIDE DEF O2
  <1>9. ASSUME NEW o \in S, ~(o # Main /\ obj[o].colour = Other(white))
        PROVE  /\ O2[o].kind = obj[o].kind /\ O2[o].key = obj[o].key /\ O2[o].val = obj[o].val
               /\ O2[o].at = obj[o].at /\ O2[o].colour = white
               /\ O2[o].finalized = obj[o].finalized /\ O2[o].called = obj[o].called
    <2>1. O2[o] = [obj[o] EXCEPT !.colour = white] /\ obj[o] \in Objects
      BY <1>2, <1>5, <1>9
    <2> QED
      BY <2>1 DEF Objects
  <1>10. \A o \in S : o # Main /\ obj[o].colour = Other(white) => O2[o].kind = "free"
    BY <1>5, FreeIs
  <1>11. \A o \in Alloc(O2) :
            /\ O2[o].kind = obj[o].kind /\ O2[o].key = obj[o].key /\ O2[o].val = obj[o].val
            /\ O2[o].at = obj[o].at
            /\ O2[o].finalized = obj[o].finalized /\ O2[o].called = obj[o].called
            /\ o \in S => O2[o].colour = white
            /\ o \notin S => O2[o] = obj[o]
            /\ o \in Alloc(obj)
    BY <1>4, <1>9, <1>10 DEF Alloc
  <1>12. LiveOf(O2, white) = LiveOf(obj, white)
    <2>1. ASSUME NEW o \in LiveOf(obj, white) PROVE o \in LiveOf(O2, white)
      <3>1. o \in Memory /\ obj[o].kind # "free" /\ obj[o].colour # Other(white)
        BY <2>1 DEF LiveOf, Alloc
      <3>2. CASE o \in S
        BY <1>6, <1>9, <3>1, <3>2 DEF LiveOf, Alloc
      <3>3. CASE o \notin S
        BY <1>4, <3>1, <3>3 DEF LiveOf, Alloc
      <3> QED
        BY <3>2, <3>3
    <2>2. ASSUME NEW o \in LiveOf(O2, white) PROVE o \in LiveOf(obj, white)
      <3>1. o \in Alloc(O2) /\ o \in Memory /\ O2[o].colour # Other(white)
        BY <2>2 DEF LiveOf, Alloc
      <3>2. CASE obj[o].colour = Other(white)
        <4>1. o \in S
          BY <1>4, <3>1, <3>2
        <4>2. o = Main
          BY <1>10, <3>1, <3>2, <4>1 DEF Alloc
        <4> QED
          BY <1>7, <4>2
      <3> QED
        BY <1>11, <3>1, <3>2 DEF LiveOf
    <2> QED
      BY <2>1, <2>2
  <1>13. SoundOf(O2, white, stack, tmudata)
    <2>0. \A o \in LiveOf(O2, white) : o \in Alloc(O2)
      BY DEF LiveOf
    <2>1. \A p \in LiveOf(obj, white) : p \in LiveOf(O2, white) /\ O2[p].kind = obj[p].kind
      BY <1>11, <1>12, <2>0
    <2>2. ASSUME NEW p \in LiveOf(O2, white)
          PROVE  p \in LiveOf(obj, white) /\ SameRefs(obj[p], O2[p])
      <3>1. RefsOf(obj, white, obj[p])
        BY <1>1, <1>12 DEF SoundOf
      <3> QED
        BY <1>6, <1>11, <1>12, <2>0, <3>1 DEF SameRefs, RefsOf
    <2>3. \A p \in Memory : O2[p].kind = "thread" <=> p = Main
      <3>1. O2[Main].kind = "thread"
        BY <1>1, <1>7, <2>1 DEF SoundOf
      <3>2. ASSUME NEW p \in Memory, O2[p].kind = "thread" PROVE p = Main
        <4>1. p \in Alloc(O2)
          BY <3>2 DEF Alloc
        <4> QED
          BY <1>1, <1>11, <3>2, <4>1 DEF SoundOf
      <3> QED
        BY <3>1, <3>2
    <2>4. \A p \in ToSet(tmudata) : p \in LiveOf(O2, white) /\ O2[p].kind = "file" /\ O2[p].finalized
      BY <1>1, <1>11, <1>12, <2>0 DEF SoundOf
    <2>5. \A i \in 1..Frame : ValueOf(obj, white, stack[i])
      BY <1>1 DEF SoundOf
    <2> QED
      BY <1>1, <2>1, <2>2, <2>3, <2>4, <2>5, SoundGrows
  <1>14. AnyOf(O2)
    BY <1>1, <1>11 DEF AnyOf
  <1> QED
    BY <1>4, <1>8, <1>11, <1>13, <1>14 DEF O2

LEMMA SweepStringKeeps ==
  ASSUME GCInv, SweepString
  PROVE  GCInv'
  <1> DEFINE S  == {o \in Memory : obj[o].kind = "string"}
             O2 == Swept(S)
  <1>1. /\ phase = "sweepstring" /\ phase' = "sweep" /\ obj' = O2
        /\ mix' = mix /\ stack' = stack /\ white' = white /\ tmudata' = tmudata
        /\ gray' = gray /\ again' = again /\ weak' = weak /\ unswept' = unswept
    BY DEF SweepString, lists
  <1>2. /\ HeapTyped /\ obj \in Heaps /\ white \in Whites
        /\ \A o \in Alloc(obj) :
               \/ obj[o].colour = white \/ o \in ToSet(tmudata)
               \/ ToBeSwept(obj, phase, unswept, o)
    BY <1>1, NotMarkingIs, PhasesAre
  <1>3. /\ O2 \in Heaps
        /\ \A o \in Memory \ S : O2[o] = obj[o]
        /\ \A o \in S : o \in Alloc(O2) => O2[o].colour = white
        /\ Alloc(O2) \subseteq Alloc(obj)
        /\ SoundOf(O2, white, stack, tmudata) /\ AnyOf(O2)
    BY SweptIs
  <1> HIDE DEF O2
  <1>4. ASSUME NEW o \in Alloc(O2)
        PROVE  O2[o].colour = white \/ o \in ToSet(tmudata) \/ ToBeSwept(O2, "sweep", unswept, o)
    <2>1. o \in Memory /\ o \in Alloc(obj)
      BY <1>3, <1>4 DEF Alloc
    <2>2. CASE o \in S
      BY <1>3, <1>4, <2>2
    <2>3. CASE o \notin S
      BY <1>2, <1>3, <2>1, <2>3 DEF ToBeSwept
    <2> QED
      BY <2>2, <2>3
  <1>5. ColouredOf(O2, white, "sweep", unswept, tmudata)
    BY <1>3, <1>4, PhasesAre DEF ColouredOf, AnyOf
  <1>6. MarkOf(O2, stack, "sweep", gray, again, weak, tmudata)
    BY PhasesAre DEF MarkOf
  <1>7. HeapTyped'
    BY <1>1, <1>2, <1>3 DEF HeapTyped, Phases
  <1> QED
    BY <1>1, <1>3, <1>5, <1>6, <1>7 DEF GCInv

LEMMA SweepKeeps ==
  ASSUME GCInv, Sweep
  PROVE  GCInv'
  <1>1. PICK o \in unswept :
           /\ obj' = Swept({o} \union IF o = Main THEN Opens(M) ELSE {})
           /\ unswept' = unswept \ {o}
    BY DEF Sweep
  <1> DEFINE S  == {o} \union IF o = Main THEN Opens(M) ELSE {}
             O2 == Swept(S)
             us == unswept \ {o}
             ph == IF us = {} THEN "finalize" ELSE "sweep"
  <1>2. /\ phase = "sweep" /\ phase' = ph /\ obj' = O2 /\ unswept' = us
        /\ mix' = mix /\ stack' = stack /\ white' = white /\ tmudata' = tmudata
        /\ gray' = gray /\ again' = again /\ weak' = weak
    BY <1>1 DEF Sweep, lists
  <1>3. /\ HeapTyped /\ obj \in Heaps /\ white \in Whites /\ unswept \subseteq Memory
        /\ \A p \in Alloc(obj) :
               \/ obj[p].colour = white \/ p \in ToSet(tmudata)
               \/ ToBeSwept(obj, phase, unswept, p)
    BY <1>2, NotMarkingIs, PhasesAre
  <1>4. M.obj = obj
    BY <1>3, MarksIs
  <1>5. S \subseteq Memory
    BY <1>3 DEF Opens
  <1>6. /\ O2 \in Heaps
        /\ \A p \in Memory \ S : O2[p] = obj[p]
        /\ \A p \in S : p \in Alloc(O2) => O2[p].colour = white
        /\ Alloc(O2) \subseteq Alloc(obj)
        /\ SoundOf(O2, white, stack, tmudata) /\ AnyOf(O2)
    BY <1>5, SweptIs
  <1>7. o \in S /\ (o = Main => \A p \in Memory : IsOpen(obj[p]) => p \in S)
    BY <1>4 DEF Opens
  <1>8. phase' \in {"sweep", "finalize"} /\ (phase' = "finalize" => us = {}) /\ ph = phase'
    BY <1>2
  <1> HIDE DEF O2, S, ph
  <1>9. ASSUME NEW p \in Alloc(O2)
        PROVE  O2[p].colour = white \/ p \in ToSet(tmudata) \/ ToBeSwept(O2, ph, us, p)
    <2>1. p \in Memory /\ p \in Alloc(obj)
      BY <1>6, <1>9 DEF Alloc
    <2>2. CASE p \in S
      BY <1>6, <1>9, <2>2
    <2>3. CASE p \notin S
      <3>1. O2[p] = obj[p] /\ p # o
        BY <1>6, <1>7, <2>1, <2>3
      <3>2. obj[p].colour = white \/ p \in ToSet(tmudata) \/ p \in unswept
               \/ (Main \in unswept /\ IsOpen(obj[p]))
        BY <1>2, <1>3, <2>1 DEF ToBeSwept
      <3>3. IsOpen(obj[p]) => o # Main
        BY <1>7, <2>1, <2>3
      <3> QED
        BY <3>1, <3>2, <3>3 DEF ToBeSwept
    <2> QED
      BY <2>2, <2>3
  <1>10. ph \notin Marking /\ ph # "pause" /\ (ph = "finalize" => us = {})
    BY <1>8, PhasesAre
  <1>11. ColouredOf(O2, white, ph, us, tmudata)
    BY <1>6, <1>9, <1>10, PhasesAre DEF ColouredOf, AnyOf
  <1>12. MarkOf(O2, stack, ph, gray, again, weak, tmudata)
    BY <1>10 DEF MarkOf
  <1>13. HeapTyped'
    BY <1>2, <1>3, <1>6, <1>8 DEF HeapTyped, Phases
  <1> QED
    BY <1>2, <1>6, <1>11, <1>12, <1>13 DEF GCInv

LEMMA RestOfList ==
  ASSUME NEW S, NEW s \in Seq(S), s # <<>>
  PROVE  /\ Head(s) \in S /\ Head(s) \in ToSet(s)
         /\ Tail(s) \in Seq(S)
         /\ ToSet(s) = {Head(s)} \union ToSet(Tail(s))
  <1>1. Len(s) > 0 /\ Head(s) = s[1] /\ Head(s) \in S
    OBVIOUS
  <1>2. /\ Tail(s) \in Seq(S) /\ Len(Tail(s)) = Len(s) - 1
        /\ \A i \in 1 .. Len(s) - 1 : Tail(s)[i] = s[i + 1]
    OBVIOUS
  <1>3. ToSet(s) = {s[i] : i \in 1 .. Len(s)} /\ ToSet(Tail(s)) = {Tail(s)[i] : i \in 1 .. Len(s) - 1}
    <2>1. DOMAIN s = 1 .. Len(s) /\ DOMAIN Tail(s) = 1 .. Len(s) - 1
      BY <1>2
    <2> QED
      BY <2>1 DEF ToSet
  <1>4. Head(s) \in ToSet(s)
    BY <1>1, <1>3
  <1>5. \A i \in 1 .. Len(s) - 1 : Tail(s)[i] \in ToSet(s)
    BY <1>2, <1>3
  <1>6. ASSUME NEW i \in 1 .. Len(s), s[i] # Head(s)
        PROVE  \E j \in 1 .. Len(s) - 1 : Tail(s)[j] = s[i]
    <2>1. i - 1 \in 1 .. Len(s) - 1 /\ Tail(s)[i - 1] = s[i]
      BY <1>1, <1>2, <1>6
    <2> QED
      BY <2>1
  <1>7. \A i \in 1 .. Len(s) : s[i] \in {Head(s)} \union ToSet(Tail(s))
    BY <1>3, <1>6
  <1> QED
    BY <1>1, <1>2, <1>3, <1>4, <1>5, <1>7

LEMMA CallFinalizerKeeps ==
  ASSUME GCInv, CallFinalizer
  PROVE  GCInv'
  <1> DEFINE o  == Head(tmudata)
             O2 == [obj EXCEPT ![o].colour = white, ![o].called = TRUE]
             st == [stack EXCEPT ![Frame] = o]
             tm == Tail(tmudata)
  <1>1. /\ phase = "finalize" /\ tmudata # <<>> /\ phase' = phase
        /\ obj' = O2 /\ stack' = st /\ tmudata' = tm
        /\ mix' = mix /\ white' = white /\ unswept' = unswept
        /\ gray' = gray /\ again' = again /\ weak' = weak
    BY DEF CallFinalizer, lists
  <1>2. /\ HeapTyped /\ SoundOf(obj, white, stack, tmudata)
        /\ obj \in Heaps /\ white \in Whites /\ stack \in Stacks /\ tmudata \in Seq(Memory)
        /\ \A p \in Alloc(obj) :
               \/ obj[p].colour = white \/ p \in ToSet(tmudata)
               \/ ToBeSwept(obj, phase, unswept, p)
        /\ AnyOf(obj) /\ unswept = {}
    BY <1>1, NotMarkingIs, PhasesAre
  <1>3. /\ o \in Memory /\ o \in ToSet(tmudata) /\ tm \in Seq(Memory)
        /\ ToSet(tmudata) = {o} \union ToSet(tm)
    BY <1>1, <1>2, RestOfList
  <1>4. o \in LiveOf(obj, white) /\ obj[o].kind = "file" /\ obj[o].finalized /\ obj[o] \in Objects
    BY <1>2, <1>3 DEF SoundOf, Heaps
  <1>5. white # Other(white) /\ white # "black"
    BY <1>2, OtherIs
  <1>6. O2[o] = [obj[o] EXCEPT !.colour = white, !.called = TRUE]
          /\ \A p \in Memory : p # o => O2[p] = obj[p]
    BY <1>2, <1>3 DEF Heaps
  <1>7. /\ O2[o] \in Objects /\ O2[o].colour = white /\ O2[o].called = TRUE
        /\ O2[o].kind = obj[o].kind /\ O2[o].key = obj[o].key /\ O2[o].val = obj[o].val
        /\ O2[o].at = obj[o].at /\ O2[o].finalized = obj[o].finalized
    <2> HIDE DEF O2
    <2>1. [obj[o] EXCEPT !.colour = white, !.called = TRUE]
             = [[obj[o] EXCEPT !.colour = white] EXCEPT !.called = TRUE]
      BY <1>4 DEF Objects
    <2>2. [obj[o] EXCEPT !.colour = white] \in Objects
      BY <1>2, <1>4 DEF Objects
    <2>3. \A x \in Objects : [x EXCEPT !.called = TRUE] \in Objects
      BY DEF Objects
    <2>4. O2[o] \in Objects
      BY <1>6, <2>1, <2>2, <2>3
    <2> QED
      BY <1>4, <1>6, <2>4 DEF Objects
  <1>8. O2 \in Heaps /\ st \in Stacks
    <2>1. O2 \in Heaps
      BY <1>2, <1>6, <1>7 DEF Heaps
    <2>2. st \in Stacks
      BY <1>2, <1>3, MemoryIs DEF Stacks, Values
    <2> QED
      BY <2>1, <2>2
  <1>9. st[Frame] = o /\ \A i \in 1..Frame : i # Frame => st[i] = stack[i]
    BY <1>2, MemoryIs DEF Stacks
  <1> HIDE DEF O2, st, o, tm
  <1>10. \A p \in Memory :
            /\ O2[p].kind = obj[p].kind /\ O2[p].key = obj[p].key /\ O2[p].val = obj[p].val
            /\ O2[p].at = obj[p].at /\ O2[p].finalized = obj[p].finalized
            /\ O2[p].colour = obj[p].colour \/ O2[p].colour = white
    BY <1>6, <1>7
  <1>11. Alloc(O2) = Alloc(obj) /\ LiveOf(O2, white) = LiveOf(obj, white)
    <2>1. Alloc(O2) = Alloc(obj)
      BY <1>10 DEF Alloc
    <2>2. \A p \in Memory \ {o} : O2[p] = obj[p]
      BY <1>6
    <2>3. o \in LiveOf(O2, white)
      BY <1>4, <1>5, <1>7, <2>1 DEF LiveOf
    <2> QED
      BY <1>4, <2>1, <2>2, <2>3 DEF LiveOf, Alloc
  <1>12. SoundOf(O2, white, st, tm)
    <2>1. \A p \in LiveOf(obj, white) : p \in LiveOf(O2, white) /\ O2[p].kind = obj[p].kind
      BY <1>10, <1>11 DEF LiveOf, Alloc
    <2>2. ASSUME NEW p \in LiveOf(O2, white)
          PROVE  p \in LiveOf(obj, white) /\ SameRefs(obj[p], O2[p])
      <3>1. RefsOf(obj, white, obj[p]) /\ p \in Memory
        BY <1>2, <1>11 DEF SoundOf, LiveOf, Alloc
      <3> QED
        BY <1>5, <1>10, <1>11, <3>1 DEF SameRefs, RefsOf
    <2>3. \A p \in Memory : O2[p].kind = "thread" <=> p = Main
      BY <1>2, <1>10 DEF SoundOf
    <2>4. \A p \in ToSet(tm) : p \in LiveOf(O2, white) /\ O2[p].kind = "file" /\ O2[p].finalized
      <3>1. \A p \in ToSet(tm) : p \in Memory
        BY <1>3, ListIn
      <3> QED
        BY <1>2, <1>3, <1>10, <1>11, <3>1 DEF SoundOf
    <2>5. \A i \in 1..Frame : ValueOf(obj, white, st[i])
      BY <1>2, <1>4, <1>9 DEF SoundOf, ValueOf
    <2> QED
      BY <1>2, <2>1, <2>2, <2>3, <2>4, <2>5, SoundGrows
  <1>13. ColouredOf(O2, white, "finalize", unswept, tm)
    <2>1. ASSUME NEW p \in Alloc(O2)
          PROVE  O2[p].colour = white \/ p \in ToSet(tm)
      <3>1. obj[p].colour = white \/ p = o \/ p \in ToSet(tm)
        BY <1>1, <1>2, <1>3, <1>11, <2>1 DEF ToBeSwept
      <3>2. p \in Memory
        BY <2>1 DEF Alloc
      <3> QED
        BY <1>6, <1>7, <3>1, <3>2
    <2>2. AnyOf(O2)
      BY <1>2, <1>4, <1>6, <1>7, <1>11 DEF AnyOf, Alloc
    <2> QED
      BY <1>2, <2>1, <2>2, PhasesAre DEF ColouredOf, AnyOf
  <1>14. MarkOf(O2, st, "finalize", gray, again, weak, tm)
    BY PhasesAre DEF MarkOf
  <1>15. HeapTyped'
    BY <1>1, <1>2, <1>3, <1>8 DEF HeapTyped, Phases
  <1> QED
    BY <1>1, <1>12, <1>13, <1>14, <1>15 DEF GCInv

LEMMA EndCycleKeeps ==
  ASSUME GCInv, EndCycle
  PROVE  GCInv'
  <1>1. /\ phase = "finalize" /\ tmudata = <<>> /\ phase' = "pause"
        /\ obj' = obj /\ stack' = stack /\ tmudata' = tmudata
        /\ mix' = mix /\ white' = white /\ unswept' = unswept
        /\ gray' = gray /\ again' = again /\ weak' = weak
    BY DEF EndCycle, lists
  <1>2. /\ HeapTyped /\ SoundOf(obj, white, stack, tmudata)
        /\ \A p \in Alloc(obj) :
               \/ obj[p].colour = white \/ p \in ToSet(tmudata)
               \/ ToBeSwept(obj, phase, unswept, p)
        /\ AnyOf(obj) /\ unswept = {}
    BY <1>1, NotMarkingIs, PhasesAre
  <1>3. \A p \in Alloc(obj) : obj[p].colour = white
    BY <1>1, <1>2, EmptyList DEF ToBeSwept
  <1>4. ColouredOf(obj, white, "pause", unswept, tmudata)
    BY <1>1, <1>2, <1>3, PhasesAre DEF ColouredOf, AnyOf
  <1>5. MarkOf(obj, stack, "pause", gray, again, weak, tmudata)
    BY PhasesAre DEF MarkOf
  <1>6. HeapTyped'
    BY <1>1, <1>2 DEF HeapTyped, Phases
  <1> QED
    BY <1>1, <1>2, <1>4, <1>5, <1>6 DEF GCInv

-----------------------------------------------------------------------------
(* The beginning.                                                          *)

LEMMA InitKeeps ==
  ASSUME Init
  PROVE  GCInv
  <1>1. /\ mix \in Mixes /\ stack = [i \in 1..Frame |-> Nil]
        /\ white = "white0" /\ phase = "pause"
        /\ gray = <<>> /\ again = <<>> /\ weak = <<>> /\ unswept = {} /\ tmudata = <<>>
    BY DEF Init
  <1>2. Main \in Memory /\ Globals \in Memory /\ Main # Globals /\ Nil \notin Memory /\ Nil \in Values
    BY MemoryIs DEF Values
  <1>3. /\ DOMAIN obj = Memory /\ obj = [o \in Memory |-> obj[o]]
        /\ obj[Main] = New("thread", "white0") /\ obj[Globals] = New("table", "white0")
        /\ \A o \in Memory : o # Main /\ o # Globals => obj[o] = Free
    BY <1>2 DEF Init
  <1>4. \A k \in {"thread", "table"} :
          LET x == New(k, "white0") IN
          /\ x.kind = k /\ x.colour = "white0" /\ x.key = Nil /\ x.val = Nil /\ x.at = 0
          /\ x.finalized = FALSE /\ x.called = FALSE
    BY DEF New, Free
  <1>5. Free.kind = "free" /\ Free \in Objects
    BY FreeIs
  <1>6. \A o \in {Main, Globals} : obj[o] \in Objects
    <2>1. New("thread", "white0") = [Free EXCEPT !.kind = "thread", !.colour = "white0"]
            /\ New("table", "white0") = [Free EXCEPT !.kind = "table", !.colour = "white0"]
      BY DEF New
    <2>2. \A x \in Objects : /\ [x EXCEPT !.kind = "thread"] \in Objects
                            /\ [x EXCEPT !.kind = "table"] \in Objects
                            /\ [x EXCEPT !.colour = "white0"] \in Objects
      BY DEF Objects, Kinds, Tables, Whites
    <2>3. /\ [[Free EXCEPT !.kind = "thread"] EXCEPT !.colour = "white0"] \in Objects
          /\ [[Free EXCEPT !.kind = "table"] EXCEPT !.colour = "white0"] \in Objects
      BY <1>5, <2>2
    <2>4. \A k : [Free EXCEPT !.kind = k, !.colour = "white0"]
                   = [[Free EXCEPT !.kind = k] EXCEPT !.colour = "white0"]
      BY DEF Free
    <2> QED
      BY <1>3, <2>1, <2>3, <2>4
  <1>7. obj \in Heaps
    BY <1>3, <1>5, <1>6 DEF Heaps
  <1>8. Alloc(obj) = {Main, Globals}
    BY <1>2, <1>3, <1>4, <1>5 DEF Alloc
  <1>9. white \in Whites /\ Other(white) # "white0"
    <2>1. white \in Whites
      BY <1>1 DEF Whites
    <2> QED
      BY <1>1, <2>1, OtherIs
  <1>10. LiveOf(obj, white) = {Main, Globals}
    BY <1>3, <1>4, <1>8, <1>9 DEF LiveOf
  <1>11. SoundOf(obj, white, stack, tmudata)
    <2>1. \A o \in Memory : obj[o].kind = "thread" <=> o = Main
      BY <1>2, <1>3, <1>4, <1>5
    <2>2. \A i \in 1..Frame : ValueOf(obj, white, stack[i])
      BY <1>1, <1>2 DEF ValueOf
    <2>3. \A o \in {Main, Globals} : RefsOf(obj, white, obj[o])
      BY <1>3, <1>4 DEF RefsOf, IsOpen, IsUserdata, Tables
    <2> QED
      BY <1>1, <1>3, <1>4, <1>10, <2>1, <2>2, <2>3, EmptyList DEF SoundOf
  <1>12. ColouredOf(obj, white, phase, unswept, tmudata)
    BY <1>1, <1>3, <1>4, <1>8, PhasesAre DEF ColouredOf, AnyOf
  <1>13. MarkOf(obj, stack, phase, gray, again, weak, tmudata)
    BY <1>1, PhasesAre DEF MarkOf
  <1>14. HeapTyped
    BY <1>1, <1>2, <1>7, <1>9 DEF HeapTyped, Stacks, Phases
  <1> QED
    BY <1>11, <1>12, <1>13, <1>14 DEF GCInv

-----------------------------------------------------------------------------
(* The program, which runs in no step of atomic.                           *)

MarksOf(O, ph, g, a, k) ==
    ph = "propagate" =>
        NotWhite(O, {Main, Globals}) /\ MarkedOf(O, {}) /\ LinkedOf(O, g, a, k) /\ WeakOf(O, k)

LEMMA MarksOfIs ==
  ASSUME NEW O, NEW st, NEW ph, ph \notin Atomic, NEW g, NEW a, NEW k, NEW tm
  PROVE  MarkOf(O, st, ph, g, a, k, tm) <=> MarksOf(O, ph, g, a, k)
  BY DEF MarkOf, MarksOf, Marking, RemarkedOf, Atomic

LEMMA ProgramIs ==
  ASSUME GCInv, phase \notin Atomic
  PROVE  /\ HeapTyped /\ SoundOf(obj, white, stack, tmudata)
         /\ obj \in Heaps /\ white \in Whites /\ stack \in Stacks
         /\ gray \in Seq(Memory) /\ again \in Seq(Memory) /\ weak \in Seq(Memory)
         /\ ColouredOf(obj, white, phase, unswept, tmudata) /\ AnyOf(obj)
         /\ MarksOf(obj, phase, gray, again, weak)
         /\ phase \in Marking <=> phase = "propagate"
         /\ phase = "propagate" => NoneDead(obj, white) /\ tmudata = <<>>
  <1>1. /\ HeapTyped /\ SoundOf(obj, white, stack, tmudata)
        /\ ColouredOf(obj, white, phase, unswept, tmudata)
        /\ MarkOf(obj, stack, phase, gray, again, weak, tmudata)
    BY DEF GCInv
  <1>2. /\ obj \in Heaps /\ white \in Whites /\ stack \in Stacks
        /\ gray \in Seq(Memory) /\ again \in Seq(Memory) /\ weak \in Seq(Memory)
    BY <1>1 DEF HeapTyped
  <1>3. MarksOf(obj, phase, gray, again, weak)
    BY <1>1, MarksOfIs
  <1>4. phase \in Marking <=> phase = "propagate"
    BY DEF Marking
  <1>5. AnyOf(obj)
    BY <1>1 DEF ColouredOf, AnyOf
  <1>6. phase = "propagate" => NoneDead(obj, white) /\ tmudata = <<>>
    BY <1>1, <1>4 DEF ColouredOf, NoneDead
  <1> QED
    BY <1>1, <1>2, <1>3, <1>4, <1>5, <1>6

\* A step of the program, by what it makes of the heap, of the lists and of the
\* slots.
LEMMA ProgramStep ==
  ASSUME GCInv, phase \notin Atomic,
         UNCHANGED <<mix, white, phase, unswept, tmudata>>,
         obj' \in Heaps, stack' \in Stacks,
         gray' \in Seq(Memory), again' \in Seq(Memory), weak' \in Seq(Memory),
         SoundOf(obj', white, stack', tmudata),
         ColouredOf(obj', white, phase, unswept, tmudata),
         MarksOf(obj', phase, gray', again', weak')
  PROVE  GCInv'
  <1>1. HeapTyped
    BY ProgramIs
  <1>2. HeapTyped'
    BY <1>1 DEF HeapTyped
  <1>3. MarkOf(obj', stack', phase, gray', again', weak', tmudata)
    BY MarksOfIs
  <1> QED
    BY <1>2, <1>3 DEF GCInv

\* What keeps the colours as they should be.
LEMMA ColouredKeeps ==
  ASSUME NEW O, NEW O2, NEW w, NEW ph, NEW us, NEW tm, w \in Whites,
         ColouredOf(O, w, ph, us, tm), ph \in Marking => ph = "propagate",
         \A o \in Alloc(O2) :
            \/ O2[o].colour = w
            \/ ph = "propagate" /\ O2[o].colour # Other(w)
            \/ /\ o \in Alloc(O) /\ O2[o].kind = O[o].kind /\ (IsOpen(O[o]) => IsOpen(O2[o]))
               /\ \/ O2[o].colour = O[o].colour
                  \/ O2[o].colour # Other(w) /\ O[o].colour # w,
         AnyOf(O2)
  PROVE  ColouredOf(O2, w, ph, us, tm)
  <1>1. w # Other(w)
    BY OtherIs
  <1>2. CASE ph \in Marking
    BY <1>1, <1>2 DEF ColouredOf, AnyOf
  <1>3. CASE ph \notin Marking
    <2>1. ph # "propagate"
      BY <1>3, PhasesAre
    <2>2. \A o \in Alloc(O2) : O2[o].colour = w \/ o \in ToSet(tm) \/ ToBeSwept(O2, ph, us, o)
      BY <1>3, <2>1 DEF ColouredOf, ToBeSwept
    <2> QED
      BY <1>3, <2>2 DEF ColouredOf, AnyOf
  <1> QED
    BY <1>2, <1>3

\* Another value in a slot.
LEMMA LoadKeeps ==
  ASSUME GCInv, phase \notin Atomic, NEW i \in 1..Frame, NEW v \in Values,
         ValueOf(obj, white, v), Load(i, v)
  PROVE  GCInv'
  <1>1. /\ stack' = [stack EXCEPT ![i] = v]
        /\ UNCHANGED <<mix, obj, white, phase, gray, again, weak, unswept, tmudata>>
    BY DEF Load, lists
  <1>2. /\ SoundOf(obj, white, stack, tmudata)
        /\ obj \in Heaps /\ white \in Whites /\ stack \in Stacks
        /\ gray \in Seq(Memory) /\ again \in Seq(Memory) /\ weak \in Seq(Memory)
        /\ ColouredOf(obj, white, phase, unswept, tmudata)
        /\ MarksOf(obj, phase, gray, again, weak)
    BY ProgramIs
  <1>3. stack' \in Stacks /\ \A j \in 1..Frame : stack'[j] = IF j = i THEN v ELSE stack[j]
    BY <1>1, <1>2 DEF Stacks
  <1>4. SoundOf(obj, white, stack', tmudata)
    BY <1>2, <1>3 DEF SoundOf
  <1> QED
    BY <1>1, <1>2, <1>3, <1>4, ProgramStep

\* What the program holds.
LEMMA HeldIs ==
  ASSUME GCInv, phase \notin Atomic, NEW v \in Held
  PROVE  v \in Values /\ v # Nil /\ ValueOf(obj, white, v)
  <1>1. SoundOf(obj, white, stack, tmudata) /\ obj \in Heaps /\ stack \in Stacks
    BY ProgramIs
  <1>2. Globals \in LiveOf(obj, white) /\ obj[Globals].kind = "table" /\ Globals \in Memory
    BY <1>1, MemoryIs DEF SoundOf
  <1>3. RefsOf(obj, white, obj[Globals]) /\ obj[Globals].val \in Values /\ Globals \in Values
    BY <1>1, <1>2 DEF SoundOf, Heaps, Objects, Values
  <1>4. ValueOf(obj, white, Globals)
    BY <1>2 DEF ValueOf
  <1>5. obj[Globals].val # Nil => ValueOf(obj, white, obj[Globals].val)
    BY <1>2, <1>3 DEF RefsOf, Tables
  <1>6. \A i \in 1..Frame : stack[i] \in Values /\ ValueOf(obj, white, stack[i])
    BY <1>1 DEF SoundOf, Stacks
  <1> QED
    BY <1>3, <1>4, <1>5, <1>6 DEF Held

LEMMA HeldOfIs ==
  ASSUME GCInv, phase \notin Atomic, NEW K, NEW o \in HeldOf(K)
  PROVE  /\ o \in Memory /\ o \in LiveOf(obj, white) /\ o \in Alloc(obj) /\ obj[o].kind \in K
         /\ RefsOf(obj, white, obj[o]) /\ obj[o] \in Objects
  <1>1. o \in Held /\ Collectable(o) /\ obj[o].kind \in K
    BY DEF HeldOf
  <1>2. o \in Values /\ ValueOf(obj, white, o)
    BY <1>1, HeldIs
  <1>3. o \in Memory /\ o \in LiveOf(obj, white) /\ o \in Alloc(obj)
    BY <1>1, <1>2, MemoryIs DEF ValueOf, LiveOf
  <1>4. SoundOf(obj, white, stack, tmudata) /\ obj \in Heaps
    BY ProgramIs
  <1> QED
    BY <1>1, <1>3, <1>4 DEF SoundOf, Heaps

LEMMA NilIs ==
  ASSUME NEW O, NEW w
  PROVE  ValueOf(O, w, Nil) /\ ValueOf(O, w, Number) /\ Nil \in Values /\ Number \in Values
  BY MemoryIs DEF ValueOf, Values

LEMMA ClearKeeps ==
  ASSUME GCInv, phase \notin Atomic, NEW i \in 1..Slots, Clear(i)
  PROVE  GCInv'
  <1>1. i \in 1..Frame /\ Load(i, Nil)
    BY MemoryIs DEF Clear
  <1> QED
    BY <1>1, NilIs, LoadKeeps

LEMMA GetTableKeeps ==
  ASSUME GCInv, phase \notin Atomic, NEW i \in 1..Slots, GetTable(i)
  PROVE  GCInv'
  <1>1. PICK t \in HeldOf(Tables) :
          \E v \in ({obj[t].key, obj[t].val} \intersect Memory) :
            obj[t].val # Nil /\ Load(i, v)
    BY DEF GetTable
  <1>2. PICK v \in ({obj[t].key, obj[t].val} \intersect Memory) : obj[t].val # Nil /\ Load(i, v)
    BY <1>1
  <1>3. RefsOf(obj, white, obj[t]) /\ obj[t].kind \in Tables
    BY HeldOfIs
  <1>4. ValueOf(obj, white, v) /\ v \in Values /\ i \in 1..Frame
    BY <1>2, <1>3, MemoryIs DEF RefsOf, Values
  <1> QED
    BY <1>2, <1>4, LoadKeeps

\* The upvalue of a closure that the program holds, and its value.
LEMMA ClosureIs ==
  ASSUME GCInv, phase \notin Atomic, NEW c \in HeldOf({"closure"}), NEW u, u = obj[c].val
  PROVE  /\ u \in Memory /\ u \in LiveOf(obj, white) /\ u \in Alloc(obj)
         /\ obj[u].kind = "upvalue" /\ obj[u] \in Objects
         /\ IsOpen(obj[u]) => obj[u].at \in 1..Frame /\ obj[u].colour # "black"
         /\ UpvalueOf(obj[u]) \in Values /\ ValueOf(obj, white, UpvalueOf(obj[u]))
  <1>1. SoundOf(obj, white, stack, tmudata) /\ obj \in Heaps /\ stack \in Stacks
    BY ProgramIs
  <1>2. u \in LiveOf(obj, white) /\ obj[u].kind = "upvalue"
    BY HeldOfIs DEF RefsOf
  <1>3. u \in Memory /\ u \in Alloc(obj) /\ obj[u] \in Objects
    BY <1>1, <1>2 DEF LiveOf, Alloc, Heaps
  <1>4. RefsOf(obj, white, obj[u])
    BY <1>1, <1>2 DEF SoundOf
  <1>5. CASE IsOpen(obj[u])
    <2>1. obj[u].at \in 1..Frame /\ obj[u].colour # "black"
      BY <1>4, <1>5 DEF RefsOf
    <2>2. stack[obj[u].at] \in Values /\ ValueOf(obj, white, stack[obj[u].at])
      BY <1>1, <2>1 DEF Stacks, SoundOf
    <2> QED
      BY <1>2, <1>3, <1>5, <2>1, <2>2 DEF UpvalueOf
  <1>6. CASE ~IsOpen(obj[u])
    <2>1. obj[u].val \in Values /\ ValueOf(obj, white, obj[u].val)
      BY <1>2, <1>3, <1>4, <1>6 DEF RefsOf, Objects
    <2> QED
      BY <1>2, <1>3, <1>6, <2>1 DEF UpvalueOf
  <1> QED
    BY <1>5, <1>6

LEMMA GetUpvalKeeps ==
  ASSUME GCInv, phase \notin Atomic, NEW i \in 1..Slots, GetUpval(i)
  PROVE  GCInv'
  <1>1. PICK c \in HeldOf({"closure"}) : Load(i, UpvalueOf(obj[obj[c].val]))
    BY DEF GetUpval
  <1>2. /\ UpvalueOf(obj[obj[c].val]) \in Values
        /\ ValueOf(obj, white, UpvalueOf(obj[obj[c].val]))
        /\ i \in 1..Frame
    BY ClosureIs, MemoryIs
  <1> QED
    BY <1>1, <1>2, LoadKeeps

LEMMA GetEnvKeeps ==
  ASSUME GCInv, phase \notin Atomic, NEW i \in 1..Slots, GetEnv(i)
  PROVE  GCInv'
  <1>1. PICK o \in HeldOf({"userdata", "file"}) : Load(i, obj[o].val)
    BY DEF GetEnv
  <1>2. /\ RefsOf(obj, white, obj[o]) /\ IsUserdata(obj[o]) /\ obj[o] \in Objects
        /\ i \in 1..Frame
    BY HeldOfIs, MemoryIs DEF IsUserdata
  <1>3. obj[o].val \in LiveOf(obj, white) /\ obj[obj[o].val].kind # "upvalue"
    BY <1>2 DEF RefsOf, Tables
  <1>4. ValueOf(obj, white, obj[o].val) /\ obj[o].val \in Values
    BY <1>2, <1>3 DEF ValueOf, Objects
  <1> QED
    BY <1>1, <1>2, <1>4, LoadKeeps

-----------------------------------------------------------------------------
(* Stores, and their barriers.                                             *)

\* A heap and lists in the middle of a store: what is known of m, but for the
\* colours of the objects of E.
StoredOf(m, E) ==
    /\ m \in Marks
    /\ SoundOf(m.obj, white, stack, tmudata)
    /\ ColouredOf(m.obj, white, phase, unswept, tmudata)
    /\ phase = "propagate" =>
          /\ NotWhite(m.obj, {Main, Globals}) /\ MarkedOf(m.obj, E)
          /\ LinkedOf(m.obj, m.gray, m.again, m.weak) /\ WeakOf(m.obj, m.weak)

\* t was written, and is not yet behind its barrier.
WrittenOf(m, t) == StoredOf(m, {t})

LEMMA StoredKeeps ==
  ASSUME GCInv, phase \notin Atomic, NEW m, StoredOf(m, {}), Store(m)
  PROVE  GCInv'
  <1>1. /\ obj' = m.obj /\ gray' = m.gray /\ again' = m.again /\ weak' = m.weak
        /\ UNCHANGED <<mix, stack, white, phase, unswept, tmudata>>
    BY DEF Store, Becomes
  <1>2. stack \in Stacks
    BY ProgramIs
  <1>3. /\ obj' \in Heaps /\ gray' \in Seq(Memory) /\ again' \in Seq(Memory) /\ weak' \in Seq(Memory)
        /\ SoundOf(obj', white, stack', tmudata)
        /\ ColouredOf(obj', white, phase, unswept, tmudata)
        /\ MarksOf(obj', phase, gray', again', weak')
    BY <1>1 DEF StoredOf, Marks, MarksOf
  <1> QED
    BY <1>1, <1>2, <1>3, ProgramStep

\* One object, written but not yet behind its barrier.
LEMMA StoredIs ==
  ASSUME GCInv, phase \notin Atomic, NEW t \in LiveOf(obj, white), NEW y \in Objects,
         ~IsOpen(obj[t]), y.kind = obj[t].kind, y.at = obj[t].at, y.colour = obj[t].colour,
         y.finalized = obj[t].finalized, y.called = obj[t].called,
         RefsOf(obj, white, y),
         NEW m \in Marks, m.gray = gray, m.again = again, m.weak = weak,
         m.obj[t] = y, \A p \in Memory : p # t => m.obj[p] = obj[p]
  PROVE  /\ WrittenOf(m, t)
         /\ Alloc(m.obj) = Alloc(obj) /\ LiveOf(m.obj, white) = LiveOf(obj, white)
         /\ t \in Memory
         /\ \A S : NotWhite(obj, S) <=> NotWhite(m.obj, S)
         /\ phase = "propagate" => NoneDead(m.obj, white) /\ ColourSound(obj, obj[t])
         /\ AnyOf(m.obj)
  <1>1. /\ SoundOf(obj, white, stack, tmudata) /\ obj \in Heaps /\ white \in Whites
        /\ weak \in Seq(Memory)
        /\ ColouredOf(obj, white, phase, unswept, tmudata) /\ AnyOf(obj)
        /\ MarksOf(obj, phase, gray, again, weak)
        /\ phase \in Marking <=> phase = "propagate"
        /\ phase = "propagate" => NoneDead(obj, white)
    BY ProgramIs
  <1>2. t \in Memory /\ t \in Alloc(obj) /\ Alloc(obj) \subseteq Memory
    BY DEF LiveOf, Alloc
  <1>3. \A p \in Memory :
           /\ m.obj[p].kind = obj[p].kind /\ m.obj[p].colour = obj[p].colour
           /\ m.obj[p].at = obj[p].at
           /\ m.obj[p].finalized = obj[p].finalized /\ m.obj[p].called = obj[p].called
    OBVIOUS
  <1>4. Alloc(m.obj) = Alloc(obj)
    BY <1>3 DEF Alloc
  <1>5. LiveOf(m.obj, white) = LiveOf(obj, white)
    BY <1>2, <1>3, <1>4 DEF LiveOf
  <1>6. \A S : NotWhite(obj, S) <=> NotWhite(m.obj, S)
    BY <1>3 DEF NotWhite
  <1>7. AnyOf(m.obj)
    BY <1>1, <1>2, <1>3, <1>4 DEF AnyOf, RefsOf
  <1>8. \A p \in Memory : IsOpen(m.obj[p]) <=> IsOpen(obj[p])
    BY <1>3 DEF IsOpen
  <1>9. ColouredOf(m.obj, white, phase, unswept, tmudata)
    <2>1. \A o \in Alloc(m.obj) :
            /\ o \in Alloc(obj) /\ m.obj[o].kind = obj[o].kind
            /\ (IsOpen(obj[o]) => IsOpen(m.obj[o]))
            /\ m.obj[o].colour = obj[o].colour
      BY <1>2, <1>3, <1>4, <1>8
    <2> QED
      BY <1>1, <1>7, <2>1, ColouredKeeps
  <1>10. SoundOf(m.obj, white, stack, tmudata)
    <2>1. \A p \in LiveOf(obj, white) : p \in LiveOf(m.obj, white) /\ m.obj[p].kind = obj[p].kind
      BY <1>2, <1>3, <1>5 DEF LiveOf
    <2>2. RefsOf(m.obj, white, m.obj[t])
      <3>1. SameRefs(y, m.obj[t])
        BY DEF SameRefs, RefsOf
      <3> QED
        BY <2>1, <3>1, RefsGrow
    <2>3. ASSUME NEW p \in LiveOf(m.obj, white)
          PROVE  \/ p \in LiveOf(obj, white) /\ SameRefs(obj[p], m.obj[p])
                 \/ RefsOf(m.obj, white, m.obj[p])
      <3>1. CASE p = t
        BY <2>2, <3>1
      <3>2. CASE p # t
        <4>1. m.obj[p] = obj[p] /\ p \in LiveOf(obj, white) /\ RefsOf(obj, white, obj[p])
          BY <1>1, <1>2, <1>5, <2>3, <3>2 DEF LiveOf, SoundOf
        <4> QED
          BY <4>1 DEF SameRefs, RefsOf
      <3> QED
        BY <3>1, <3>2
    <2>4. \A p \in Memory : m.obj[p].kind = "thread" <=> p = Main
      BY <1>1, <1>3 DEF SoundOf
    <2>5. \A p \in ToSet(tmudata) :
            p \in LiveOf(m.obj, white) /\ m.obj[p].kind = "file" /\ m.obj[p].finalized
      BY <1>1, <1>2, <1>3, <1>5 DEF SoundOf, LiveOf
    <2>6. \A i \in 1..Frame : ValueOf(obj, white, stack[i])
      BY <1>1 DEF SoundOf
    <2> QED
      BY <1>1, <2>1, <2>3, <2>4, <2>5, <2>6, SoundGrows
  <1>11. ASSUME phase = "propagate"
         PROVE  /\ NotWhite(m.obj, {Main, Globals}) /\ MarkedOf(m.obj, {t})
                /\ LinkedOf(m.obj, m.gray, m.again, m.weak) /\ WeakOf(m.obj, m.weak)
                /\ NoneDead(m.obj, white) /\ ColourSound(obj, obj[t])
    <2>1. /\ NotWhite(obj, {Main, Globals}) /\ MarkedOf(obj, {})
          /\ LinkedOf(obj, gray, again, weak) /\ WeakOf(obj, weak) /\ NoneDead(obj, white)
      BY <1>1, <1>11 DEF MarksOf
    <2>2. NoneDead(m.obj, white)
      BY <1>2, <1>3, <1>4, <2>1 DEF NoneDead
    <2>3. {o \in Alloc(m.obj) : m.obj[o].colour = "gray" /\ Traversed(m.obj[o])}
             = {o \in Alloc(obj) : obj[o].colour = "gray" /\ Traversed(obj[o])}
      BY <1>2, <1>3, <1>4 DEF Traversed
    <2>4. LinkedOf(m.obj, m.gray, m.again, m.weak)
      BY <2>1, <2>3 DEF LinkedOf
    <2>5. ToSet(weak) \subseteq Memory
      BY <1>1, ListIn
    <2>6. WeakOf(m.obj, m.weak)
      BY <1>3, <2>1, <2>5 DEF WeakOf
    <2>7. MarkedOf(m.obj, {t})
      <3>1. SUFFICES ASSUME NEW o \in Alloc(obj), o # t PROVE ColourSound(m.obj, obj[o])
        BY <1>2, <1>4 DEF MarkedOf
      <3>2. ColourSound(obj, obj[o])
        BY <2>1, <3>1 DEF MarkedOf
      <3>3. KeyMarked(obj, obj[o].key) => KeyMarked(m.obj, obj[o].key)
        BY <1>3, <1>4 DEF KeyMarked
      <3> QED
        BY <1>6, <3>2, <3>3 DEF ColourSound
    <2> QED
      BY <1>2, <1>6, <2>1, <2>2, <2>4, <2>6, <2>7 DEF MarkedOf
  <1>12. WrittenOf(m, t)
    BY <1>9, <1>10, <1>11 DEF WrittenOf, StoredOf
  <1> QED
    BY <1>2, <1>4, <1>5, <1>6, <1>7, <1>11, <1>12

\* A record of which one object is replaced.
With(m, o, y) == [m EXCEPT !.obj = [m.obj EXCEPT ![o] = y]]

LEMMA MarksWith ==
  ASSUME NEW m \in Marks, NEW o \in Memory, NEW y \in Objects, NEW n, n = With(m, o, y)
  PROVE  /\ n \in Marks
         /\ n.gray = m.gray /\ n.again = m.again /\ n.weak = m.weak
         /\ n.obj[o] = y /\ \A p \in Memory : p # o => n.obj[p] = m.obj[p]
  <1>1. m.obj \in Heaps
    BY DEF Marks
  <1> DEFINE O1 == [m.obj EXCEPT ![o] = y]
  <1>2. O1 \in Heaps /\ O1[o] = y /\ \A p \in Memory : p # o => O1[p] = m.obj[p]
    BY <1>1 DEF Heaps
  <1>3. n = [m EXCEPT !.obj = O1]
    BY DEF With
  <1> HIDE DEF O1
  <1>4. n \in Marks /\ n.obj = O1 /\ n.gray = m.gray /\ n.again = m.again /\ n.weak = m.weak
    BY <1>2, <1>3 DEF Marks
  <1> QED
    BY <1>2, <1>4

\* luaC_barriert, of a table that is written: what it makes of m.
BackOf(m, n, t, v) ==
    /\ WrittenOf(n, t)
    /\ t \in LiveOf(n.obj, white) /\ n.obj[t].kind = m.obj[t].kind
    /\ n.obj[t].val = m.obj[t].val /\ n.obj[t].key = m.obj[t].key
    /\ \A S : NotWhite(m.obj, S) => NotWhite(n.obj, S)
    /\ Alloc(n.obj) = Alloc(m.obj)
    /\ n.obj[t].colour = m.obj[t].colour \/ n.obj[t].colour = "gray"
    /\ n.obj[t].colour = "black" => NotWhite(n.obj, {v})

LEMMA BarrierBackIs ==
  ASSUME GCInv, phase \notin Atomic, NEW m, NEW t, NEW v \in Values,
         WrittenOf(m, t), t \in LiveOf(m.obj, white), m.obj[t].kind \in Tables,
         NEW n, n = BarrierBack(m, t, v)
  PROVE  BackOf(m, n, t, v)
  <1>1. white \in Whites /\ AnyOf(obj) /\ (phase \in Marking <=> phase = "propagate")
    BY ProgramIs
  <1>2. /\ m \in Marks /\ m.obj \in Heaps /\ m.again \in Seq(Memory) /\ m.weak \in Seq(Memory)
        /\ SoundOf(m.obj, white, stack, tmudata)
        /\ ColouredOf(m.obj, white, phase, unswept, tmudata)
    BY DEF WrittenOf, StoredOf, Marks
  <1>3. t \in Memory /\ t \in Alloc(m.obj) /\ m.obj[t] \in Objects /\ Alloc(m.obj) \subseteq Memory
    BY <1>2 DEF LiveOf, Alloc, Heaps
  <1>4. IsWhite(m, v) <=> v \in Memory /\ m.obj[v].colour \in Whites
    BY MemoryIs DEF IsWhite
  <1>5. CASE ~(IsWhite(m, v) /\ IsBlack(m, t))
    <2>1. n = m
      BY <1>5 DEF BarrierBack
    <2>2. n.obj[t].colour = "black" => NotWhite(n.obj, {v})
      BY <1>4, <1>5, <2>1 DEF IsBlack, NotWhite
    <2> QED
      BY <2>1, <2>2 DEF BackOf
  <1>6. CASE IsWhite(m, v) /\ IsBlack(m, t)
    <2> DEFINE y == [m.obj[t] EXCEPT !.colour = "gray"]
               q == With(m, t, y)
    <2>1. n = [Paint(m, t, "gray") EXCEPT !.again = <<t>> \o @] /\ m.obj[t].colour = "black"
      BY <1>6 DEF BarrierBack, IsBlack
    <2>2. /\ y \in Objects /\ y.kind = m.obj[t].kind /\ y.key = m.obj[t].key
          /\ y.val = m.obj[t].val /\ y.at = m.obj[t].at /\ y.colour = "gray"
          /\ y.finalized = m.obj[t].finalized /\ y.called = m.obj[t].called
      BY <1>3 DEF Objects
    <2>3. q = Paint(m, t, "gray")
      BY <1>2 DEF With, Paint, Marks
    <2>4. q = With(m, t, y)
      OBVIOUS
    <2> HIDE DEF y, q
    <2>5. /\ q \in Marks
          /\ q.gray = m.gray /\ q.again = m.again /\ q.weak = m.weak
          /\ q.obj[t] = y /\ \A p \in Memory : p # t => q.obj[p] = m.obj[p]
      BY <1>2, <1>3, <2>2, <2>4, MarksWith
    <2>6. /\ <<t>> \o m.again \in Seq(Memory)
          /\ ToSet(<<t>> \o m.again) = {t} \union ToSet(m.again)
          /\ IsInjective(<<t>> \o m.again) <=> IsInjective(m.again) /\ t \notin ToSet(m.again)
      BY <1>2, <1>3, ConsList
    <2>7. n = [q EXCEPT !.again = <<t>> \o m.again]
      BY <2>1, <2>3, <2>5
    <2>8. /\ n \in Marks /\ n.obj = q.obj /\ n.gray = m.gray /\ n.weak = m.weak
          /\ n.again = <<t>> \o m.again
      BY <2>5, <2>6, <2>7 DEF Marks
    <2>9. /\ n.obj[t].kind = m.obj[t].kind /\ n.obj[t].key = m.obj[t].key
          /\ n.obj[t].val = m.obj[t].val /\ n.obj[t].at = m.obj[t].at
          /\ n.obj[t].colour = "gray"
          /\ n.obj[t].finalized = m.obj[t].finalized /\ n.obj[t].called = m.obj[t].called
          /\ \A p \in Memory : p # t => n.obj[p] = m.obj[p]
      BY <2>2, <2>5, <2>8
    <2>10. Alloc(n.obj) = Alloc(m.obj)
      BY <2>9 DEF Alloc
    <2>11. "gray" \notin Whites /\ "black" \notin Whites /\ Other(white) \in Whites
      BY <1>1, OtherIs
    <2>12. LiveOf(n.obj, white) = LiveOf(m.obj, white)
      BY <1>3, <2>1, <2>9, <2>10, <2>11 DEF LiveOf
    <2>13. \A p \in Memory : n.obj[p].colour \in Whites <=> m.obj[p].colour \in Whites
      BY <2>1, <2>9, <2>11
    <2>14. \A S : NotWhite(m.obj, S) <=> NotWhite(n.obj, S)
      BY <2>13 DEF NotWhite
    <2>15. SoundOf(n.obj, white, stack, tmudata)
      <3>1. ASSUME NEW p \in LiveOf(m.obj, white) PROVE SameRefs(m.obj[p], n.obj[p])
        <4>1. RefsOf(m.obj, white, m.obj[p]) /\ p \in Memory
          BY <1>2, <3>1 DEF SoundOf, LiveOf, Alloc
        <4> QED
          BY <2>9, <4>1 DEF SameRefs, RefsOf
      <3>2. \A p \in Memory : n.obj[p].kind = m.obj[p].kind /\ n.obj[p].finalized = m.obj[p].finalized
        BY <2>9
      <3> QED
        BY <1>2, <2>12, <3>1, <3>2, SoundSame
    <2>16. ColouredOf(n.obj, white, phase, unswept, tmudata)
      <3>1. AnyOf(n.obj)
        <4>1. AnyOf(m.obj)
          BY <1>2 DEF ColouredOf
        <4>2. \A p \in Memory :
                n.obj[p].kind = m.obj[p].kind /\ n.obj[p].val = m.obj[p].val
                  /\ n.obj[p].finalized = m.obj[p].finalized /\ n.obj[p].called = m.obj[p].called
          BY <2>9
        <4> QED
          BY <1>3, <2>10, <4>1, <4>2 DEF AnyOf
      <3>2. ASSUME NEW o \in Alloc(n.obj)
            PROVE  /\ o \in Alloc(m.obj) /\ n.obj[o].kind = m.obj[o].kind
                   /\ (IsOpen(m.obj[o]) => IsOpen(n.obj[o]))
                   /\ \/ n.obj[o].colour = m.obj[o].colour
                      \/ n.obj[o].colour # Other(white) /\ m.obj[o].colour # white
        BY <1>1, <1>3, <2>1, <2>9, <2>10, <2>11, <3>2 DEF IsOpen
      <3> QED
        BY <1>1, <1>2, <3>1, <3>2, ColouredKeeps
    <2>17. ASSUME phase = "propagate"
           PROVE  /\ NotWhite(n.obj, {Main, Globals}) /\ MarkedOf(n.obj, {t})
                  /\ LinkedOf(n.obj, n.gray, n.again, n.weak) /\ WeakOf(n.obj, n.weak)
      <3>1. /\ NotWhite(m.obj, {Main, Globals}) /\ MarkedOf(m.obj, {t})
            /\ LinkedOf(m.obj, m.gray, m.again, m.weak) /\ WeakOf(m.obj, m.weak)
        BY <2>17 DEF WrittenOf, StoredOf
      <3>2. Traversed(n.obj[t])
        BY <2>9 DEF Traversed
      <3>3. {o \in Alloc(n.obj) : n.obj[o].colour = "gray" /\ Traversed(n.obj[o])}
              = {t} \union {o \in Alloc(m.obj) : m.obj[o].colour = "gray" /\ Traversed(m.obj[o])}
        BY <1>3, <2>9, <2>10, <3>2
      <3>4. t \notin ToSet(m.gray) /\ t \notin ToSet(m.again) /\ t \notin ToSet(m.weak)
        <4>1. t \notin ToSet(m.gray) \union ToSet(m.again) \union ToSet(m.weak)
          BY <2>1, <3>1 DEF LinkedOf
        <4> QED
          BY <4>1
      <3>5. LinkedOf(n.obj, n.gray, n.again, n.weak)
        BY <2>6, <2>8, <3>1, <3>3, <3>4 DEF LinkedOf
      <3>6. WeakOf(n.obj, n.weak)
        <4>1. ToSet(m.weak) \subseteq Memory
          BY <1>2, ListIn
        <4> QED
          BY <2>8, <2>9, <3>1, <4>1 DEF WeakOf
      <3>7. MarkedOf(n.obj, {t})
        <4>1. SUFFICES ASSUME NEW o \in Alloc(m.obj), o # t PROVE ColourSound(n.obj, m.obj[o])
          BY <1>3, <2>9, <2>10 DEF MarkedOf
        <4>2. ColourSound(m.obj, m.obj[o])
          BY <3>1, <4>1 DEF MarkedOf
        <4>3. KeyMarked(m.obj, m.obj[o].key) => KeyMarked(n.obj, m.obj[o].key)
          BY <2>10, <2>13 DEF KeyMarked
        <4> QED
          BY <2>14, <4>2, <4>3 DEF ColourSound
      <3> QED
        BY <2>14, <3>1, <3>5, <3>6, <3>7
    <2>18. WrittenOf(n, t)
      BY <2>8, <2>15, <2>16, <2>17 DEF WrittenOf, StoredOf
    <2> QED
      BY <2>9, <2>10, <2>12, <2>14, <2>18 DEF BackOf
  <1> QED
    BY <1>5, <1>6

\* A table whose new key and value, or those that it keeps, are behind their
\* barriers.
LEMMA StoredTable ==
  ASSUME NEW m, NEW t, WrittenOf(m, t), t \in LiveOf(m.obj, white), m.obj[t].kind \in Tables,
         phase = "propagate" /\ m.obj[t].colour = "black" =>
            /\ ~StaysGray(m.obj[t])
            /\ KeyMarked(m.obj, m.obj[t].key)
            /\ m.obj[t].val # Nil => NotWhite(m.obj, {m.obj[t].val})
  PROVE  StoredOf(m, {})
  <1>1. SUFFICES ASSUME phase = "propagate" PROVE MarkedOf(m.obj, {})
    BY DEF WrittenOf, StoredOf
  <1>2. MarkedOf(m.obj, {t})
    BY <1>1 DEF WrittenOf, StoredOf
  <1>3. ColourSound(m.obj, m.obj[t])
    <2>1. m.obj[t].colour = "gray" => Traversed(m.obj[t])
      BY DEF Traversed
    <2>2. ASSUME m.obj[t].colour = "black" PROVE NotWhite(m.obj, Keeps(m.obj[t]))
      <3>1. /\ KeyMarked(m.obj, m.obj[t].key)
            /\ m.obj[t].val # Nil => NotWhite(m.obj, {m.obj[t].val})
        BY <1>1, <2>2
      <3>2. m.obj[t].kind # "closure"
        BY DEF Tables
      <3> QED
        BY <3>1, <3>2 DEF Keeps, NotWhite, KeyMarked
    <2> QED
      BY <1>1, <2>1, <2>2 DEF ColourSound
  <1> QED
    BY <1>2, <1>3 DEF MarkedOf

LEMMA EntriesAre ==
  ASSUME GCInv, phase \notin Atomic, NEW t, NEW e \in Entries(t)
  PROVE  /\ e[1] \in Values /\ e[2] \in Values /\ e[2] # Nil
         /\ ValueOf(obj, white, e[1]) /\ ValueOf(obj, white, e[2])
  <1> DEFINE objects == Held \ {Globals}
             named   == {Number} \X objects
             members == objects \X {Number}
  <1>1. e \in named \union members \union (objects \X objects)
    BY DEF Entries
  <1>2. e[1] \in Held \union {Number} /\ e[2] \in Held \union {Number}
    BY <1>1
  <1>3. \A v \in Held \union {Number} : v \in Values /\ v # Nil /\ ValueOf(obj, white, v)
    BY HeldIs, NilIs, MemoryIs
  <1> QED
    BY <1>2, <1>3

LEMMA NewEntryKeeps ==
  ASSUME GCInv, phase \notin Atomic, NewEntry
  PROVE  GCInv'
  <1>1. PICK t \in HeldOf(Tables) : \E e \in Entries(t) :
        /\ obj[t].key # e[1] /\ obj[t].val = Nil
        /\ Store(BarrierBack(BarrierBack([M EXCEPT !.obj[t].key = e[1], !.obj[t].val = e[2]],
                                         t, e[1]), t, e[2]))
    BY DEF NewEntry
  <1>2. PICK e \in Entries(t) :
        /\ obj[t].key # e[1] /\ obj[t].val = Nil
        /\ Store(BarrierBack(BarrierBack([M EXCEPT !.obj[t].key = e[1], !.obj[t].val = e[2]],
                                         t, e[1]), t, e[2]))
    BY <1>1
  <1> DEFINE k == e[1]
             v == e[2]
             y == [obj[t] EXCEPT !.key = k, !.val = v]
             m == [M EXCEPT !.obj[t].key = k, !.obj[t].val = v]
             m1 == BarrierBack(m, t, k)
             m2 == BarrierBack(m1, t, v)
  <1>3. /\ k \in Values /\ v \in Values /\ v # Nil
        /\ ValueOf(obj, white, k) /\ ValueOf(obj, white, v)
    BY EntriesAre
  <1>4. /\ t \in Memory /\ t \in LiveOf(obj, white) /\ obj[t].kind \in Tables
        /\ RefsOf(obj, white, obj[t]) /\ obj[t] \in Objects
    BY HeldOfIs
  <1>5. /\ HeapTyped /\ obj \in Heaps /\ M \in Marks
        /\ M.obj = obj /\ M.gray = gray /\ M.again = again /\ M.weak = weak
    <2>1. HeapTyped /\ obj \in Heaps
      BY ProgramIs
    <2> QED
      BY <2>1, MarksIs
  <1>6. Store(m2)
    BY <1>2
  <1>7. m1 = BarrierBack(m, t, k) /\ m2 = BarrierBack(m1, t, v)
    OBVIOUS
  <1> HIDE DEF k, v, m1, m2
  <1>8. /\ y \in Objects /\ y.kind = obj[t].kind /\ y.at = obj[t].at /\ y.colour = obj[t].colour
        /\ y.finalized = obj[t].finalized /\ y.called = obj[t].called
        /\ y.key = k /\ y.val = v
    <2>1. y = [[obj[t] EXCEPT !.key = k] EXCEPT !.val = v]
      BY <1>4 DEF Objects
    <2>2. \A z \in Objects : [z EXCEPT !.key = k] \in Objects /\ [z EXCEPT !.val = v] \in Objects
      BY <1>3 DEF Objects
    <2>3. y \in Objects
      BY <1>4, <2>1, <2>2
    <2> QED
      BY <1>4, <2>3 DEF Objects
  <1>9. m = With(M, t, y)
    <2>1. [[M EXCEPT !.obj[t].key = k] EXCEPT !.obj[t].val = v]
             = [M EXCEPT !.obj = [M.obj EXCEPT ![t] = y]]
      <3> DEFINE z == [obj[t] EXCEPT !.key = k]
                 O == [obj EXCEPT ![t] = z]
      <3>1. [M EXCEPT !.obj[t].key = k] = [M EXCEPT !.obj = O]
        BY <1>5
      <3>2. O[t] = z /\ \A w : [O EXCEPT ![t] = w] = [obj EXCEPT ![t] = w]
        BY <1>4, <1>5 DEF Heaps
      <3>3. y = [z EXCEPT !.val = v]
        BY <1>4 DEF Objects
      <3> HIDE DEF z, O, y
      <3>4. [M EXCEPT !.obj = O] \in [obj : {O}, gray : {gray}, again : {again}, weak : {weak}]
        BY <1>5 DEF Marks
      <3>5. [[M EXCEPT !.obj = O] EXCEPT !.obj[t].val = v]
               = [[M EXCEPT !.obj = O] EXCEPT !.obj = [O EXCEPT ![t] = [z EXCEPT !.val = v]]]
        BY <3>2, <3>4
      <3>6. \A w : [[M EXCEPT !.obj = O] EXCEPT !.obj = w] = [M EXCEPT !.obj = w]
        BY <1>5 DEF Marks
      <3> QED
        BY <1>5, <3>1, <3>2, <3>3, <3>5, <3>6
    <2> QED
      BY <2>1 DEF With
  <1> HIDE DEF y, m
  <1>10. /\ m \in Marks /\ m.gray = gray /\ m.again = again /\ m.weak = weak
         /\ m.obj[t] = y /\ \A p \in Memory : p # t => m.obj[p] = obj[p]
    BY <1>4, <1>5, <1>8, <1>9, MarksWith
  <1>11. RefsOf(obj, white, y) /\ ~IsOpen(obj[t])
    BY <1>3, <1>4, <1>8 DEF RefsOf, IsUserdata, IsOpen, Tables
  <1>12. /\ WrittenOf(m, t)
         /\ Alloc(m.obj) = Alloc(obj) /\ LiveOf(m.obj, white) = LiveOf(obj, white)
         /\ phase = "propagate" => ColourSound(obj, obj[t])
    BY <1>4, <1>8, <1>10, <1>11, StoredIs
  <1>13. t \in LiveOf(m.obj, white) /\ m.obj[t].kind \in Tables
    BY <1>4, <1>8, <1>10, <1>12
  <1>14. /\ WrittenOf(m1, t)
         /\ t \in LiveOf(m1.obj, white) /\ m1.obj[t].kind = m.obj[t].kind
         /\ m1.obj[t].val = m.obj[t].val /\ m1.obj[t].key = m.obj[t].key
         /\ \A S : NotWhite(m.obj, S) => NotWhite(m1.obj, S)
         /\ Alloc(m1.obj) = Alloc(m.obj)
         /\ \/ m1.obj[t].colour = m.obj[t].colour
            \/ m1.obj[t].colour = "gray"
         /\ m1.obj[t].colour = "black" => NotWhite(m1.obj, {k})
    <2>1. /\ k \in Values /\ WrittenOf(m, t) /\ t \in LiveOf(m.obj, white)
          /\ m.obj[t].kind \in Tables /\ m1 = BarrierBack(m, t, k)
      BY <1>3, <1>7, <1>12, <1>13
    <2>2. BackOf(m, m1, t, k)
      BY <2>1, BarrierBackIs
    <2> QED
      BY <2>2 DEF BackOf
  <1>15. m1.obj[t].kind \in Tables
    BY <1>13, <1>14
  <1>16. /\ WrittenOf(m2, t)
         /\ t \in LiveOf(m2.obj, white) /\ m2.obj[t].kind = m1.obj[t].kind
         /\ m2.obj[t].val = m1.obj[t].val /\ m2.obj[t].key = m1.obj[t].key
         /\ \A S : NotWhite(m1.obj, S) => NotWhite(m2.obj, S)
         /\ Alloc(m2.obj) = Alloc(m1.obj)
         /\ \/ m2.obj[t].colour = m1.obj[t].colour
            \/ m2.obj[t].colour = "gray"
         /\ m2.obj[t].colour = "black" => NotWhite(m2.obj, {v})
    <2>1. /\ v \in Values /\ WrittenOf(m1, t) /\ t \in LiveOf(m1.obj, white)
          /\ m1.obj[t].kind \in Tables /\ m2 = BarrierBack(m1, t, v)
      BY <1>3, <1>7, <1>14, <1>15
    <2>2. BackOf(m1, m2, t, v)
      BY <2>1, BarrierBackIs
    <2> QED
      BY <2>2 DEF BackOf
  <1>17. ASSUME phase = "propagate", m2.obj[t].colour = "black"
         PROVE  /\ ~StaysGray(m2.obj[t])
                /\ KeyMarked(m2.obj, m2.obj[t].key)
                /\ m2.obj[t].val # Nil => NotWhite(m2.obj, {m2.obj[t].val})
    <2>1. m1.obj[t].colour = "black" /\ obj[t].colour = "black"
      BY <1>8, <1>10, <1>14, <1>16, <1>17
    <2>2. ~StaysGray(obj[t])
      BY <1>12, <1>17, <2>1 DEF ColourSound
    <2>3. m2.obj[t].kind = obj[t].kind /\ m2.obj[t].key = k /\ m2.obj[t].val = v
      BY <1>8, <1>10, <1>14, <1>16
    <2>4. ~StaysGray(m2.obj[t])
      BY <2>2, <2>3 DEF StaysGray, WeakKey, WeakValue
    <2>5. NotWhite(m2.obj, {k}) /\ NotWhite(m2.obj, {v})
      BY <1>14, <1>16, <1>17, <2>1
    <2>6. k \in Memory => k \in Alloc(m2.obj)
      BY <1>3, <1>12, <1>14, <1>16 DEF ValueOf, LiveOf
    <2> QED
      BY <2>3, <2>4, <2>5, <2>6 DEF KeyMarked, NotWhite
  <1>18. StoredOf(m2, {})
    BY <1>15, <1>16, <1>17, StoredTable
  <1> QED
    BY <1>6, <1>18, StoredKeeps

\* What the program writes to an object's val.
WithVal(t, v) == [M EXCEPT !.obj[t].val = v]

LEMMA StoreVal ==
  ASSUME GCInv, phase \notin Atomic, NEW t \in LiveOf(obj, white), NEW v \in Values,
         ~IsOpen(obj[t]), RefsOf(obj, white, [obj[t] EXCEPT !.val = v]),
         NEW m, m = WithVal(t, v)
  PROVE  /\ m \in Marks /\ WrittenOf(m, t)
         /\ Alloc(m.obj) = Alloc(obj) /\ LiveOf(m.obj, white) = LiveOf(obj, white)
         /\ t \in Memory /\ m.obj[t] \in Objects
         /\ m.obj[t].val = v /\ m.obj[t].key = obj[t].key /\ m.obj[t].kind = obj[t].kind
         /\ m.obj[t].at = obj[t].at /\ m.obj[t].colour = obj[t].colour
         /\ m.gray = gray /\ m.again = again /\ m.weak = weak
         /\ \A S : NotWhite(obj, S) <=> NotWhite(m.obj, S)
         /\ phase = "propagate" => NoneDead(m.obj, white) /\ ColourSound(obj, obj[t])
         /\ AnyOf(m.obj)
  <1> DEFINE y == [obj[t] EXCEPT !.val = v]
  <1>1. HeapTyped /\ obj \in Heaps
    BY ProgramIs
  <1>2. M \in Marks /\ M.obj = obj /\ M.gray = gray /\ M.again = again /\ M.weak = weak
    BY <1>1, MarksIs
  <1>3. t \in Memory /\ obj[t] \in Objects
    BY <1>1 DEF LiveOf, Alloc, Heaps
  <1>4. /\ y \in Objects /\ y.kind = obj[t].kind /\ y.at = obj[t].at /\ y.colour = obj[t].colour
        /\ y.finalized = obj[t].finalized /\ y.called = obj[t].called
        /\ y.key = obj[t].key /\ y.val = v
    BY <1>3 DEF Objects
  <1>5. m = With(M, t, y)
    BY <1>2 DEF With, WithVal
  <1>6. RefsOf(obj, white, y)
    OBVIOUS
  <1> HIDE DEF y
  <1>7. /\ m \in Marks /\ m.gray = gray /\ m.again = again /\ m.weak = weak
        /\ m.obj[t] = y /\ \A p \in Memory : p # t => m.obj[p] = obj[p]
    <2>1. M \in Marks /\ t \in Memory /\ y \in Objects
      BY <1>2, <1>3, <1>4
    <2>2. /\ m \in Marks /\ m.gray = M.gray /\ m.again = M.again /\ m.weak = M.weak
          /\ m.obj[t] = y /\ \A p \in Memory : p # t => m.obj[p] = M.obj[p]
      BY <1>5, <2>1, MarksWith
    <2> QED
      BY <1>2, <2>2
  <1>8. /\ WrittenOf(m, t)
        /\ Alloc(m.obj) = Alloc(obj) /\ LiveOf(m.obj, white) = LiveOf(obj, white)
        /\ \A S : NotWhite(obj, S) <=> NotWhite(m.obj, S)
        /\ phase = "propagate" => NoneDead(m.obj, white) /\ ColourSound(obj, obj[t])
        /\ AnyOf(m.obj)
    BY <1>4, <1>6, <1>7, StoredIs
  <1> QED
    BY <1>3, <1>4, <1>7, <1>8

LEMMA SetEntryKeeps ==
  ASSUME GCInv, phase \notin Atomic, SetEntry
  PROVE  GCInv'
  <1>1. PICK t \in HeldOf(Tables) :
          \E v \in {e[2] : e \in {f \in Entries(t) : f[1] = obj[t].key}} \union {Nil} :
            v # obj[t].val /\ Store(BarrierBack([M EXCEPT !.obj[t].val = v], t, v))
    BY DEF SetEntry
  <1>2. PICK v \in {e[2] : e \in {f \in Entries(t) : f[1] = obj[t].key}} \union {Nil} :
            Store(BarrierBack(WithVal(t, v), t, v))
    BY <1>1 DEF WithVal
  <1> DEFINE m == WithVal(t, v)
             n == BarrierBack(m, t, v)
             y == [obj[t] EXCEPT !.val = v]
  <1>3. /\ t \in Memory /\ t \in LiveOf(obj, white) /\ obj[t].kind \in Tables
        /\ RefsOf(obj, white, obj[t]) /\ obj[t] \in Objects
    BY HeldOfIs
  <1>4. /\ v \in Values /\ ValueOf(obj, white, v)
        /\ v # Nil => ValueOf(obj, white, obj[t].key)
    <2>1. CASE v = Nil
      BY <2>1, NilIs
    <2>2. CASE v # Nil
      <3>1. PICK e \in Entries(t) : e[1] = obj[t].key /\ v = e[2]
        BY <1>2, <2>2
      <3> QED
        BY <3>1, EntriesAre
    <2> QED
      BY <2>1, <2>2
  <1>5. Store(n) /\ m = WithVal(t, v) /\ n = BarrierBack(m, t, v)
    BY <1>2
  <1>6. /\ y.kind = obj[t].kind /\ y.key = obj[t].key /\ y.val = v /\ y.at = obj[t].at
    BY <1>3 DEF Objects
  <1>7. RefsOf(obj, white, y) /\ ~IsOpen(obj[t])
    <2> HIDE DEF y
    <2> QED
      BY <1>3, <1>4, <1>6 DEF RefsOf, IsUserdata, IsOpen, Tables
  <1> HIDE DEF m, n
  <1>8. /\ m \in Marks /\ WrittenOf(m, t)
        /\ Alloc(m.obj) = Alloc(obj) /\ LiveOf(m.obj, white) = LiveOf(obj, white)
        /\ m.obj[t].val = v /\ m.obj[t].key = obj[t].key /\ m.obj[t].kind = obj[t].kind
        /\ m.obj[t].colour = obj[t].colour
        /\ \A S : NotWhite(obj, S) <=> NotWhite(m.obj, S)
        /\ phase = "propagate" => ColourSound(obj, obj[t])
    <2>1. /\ t \in LiveOf(obj, white) /\ v \in Values /\ ~IsOpen(obj[t])
          /\ RefsOf(obj, white, [obj[t] EXCEPT !.val = v])
          /\ m = WithVal(t, v)
      BY <1>3, <1>4, <1>5, <1>7
    <2> HIDE DEF y
    <2> QED
      BY <2>1, StoreVal
  <1> HIDE DEF y
  <1>9. t \in LiveOf(m.obj, white) /\ m.obj[t].kind \in Tables
    BY <1>3, <1>8
  <1>10. /\ WrittenOf(n, t)
         /\ t \in LiveOf(n.obj, white) /\ n.obj[t].kind = m.obj[t].kind
         /\ n.obj[t].val = m.obj[t].val /\ n.obj[t].key = m.obj[t].key
         /\ \A S : NotWhite(m.obj, S) => NotWhite(n.obj, S)
         /\ Alloc(n.obj) = Alloc(m.obj)
         /\ \/ n.obj[t].colour = m.obj[t].colour
            \/ n.obj[t].colour = "gray"
         /\ n.obj[t].colour = "black" => NotWhite(n.obj, {v})
    <2>1. /\ v \in Values /\ WrittenOf(m, t) /\ t \in LiveOf(m.obj, white)
          /\ m.obj[t].kind \in Tables /\ n = BarrierBack(m, t, v)
      BY <1>4, <1>5, <1>8, <1>9
    <2>2. BackOf(m, n, t, v)
      BY <2>1, BarrierBackIs
    <2> QED
      BY <2>2 DEF BackOf
  <1>11. ASSUME phase = "propagate", n.obj[t].colour = "black"
         PROVE  /\ ~StaysGray(n.obj[t])
                /\ KeyMarked(n.obj, n.obj[t].key)
                /\ n.obj[t].val # Nil => NotWhite(n.obj, {n.obj[t].val})
    <2>1. obj[t].colour = "black"
      BY <1>8, <1>10, <1>11
    <2>2. ~StaysGray(obj[t]) /\ KeyMarked(obj, obj[t].key)
      BY <1>3, <1>8, <1>11, <2>1 DEF ColourSound
    <2>3. ~StaysGray(n.obj[t])
      BY <1>8, <1>10, <2>2 DEF StaysGray, WeakKey, WeakValue
    <2>4. KeyMarked(n.obj, obj[t].key)
      <3>1. SUFFICES ASSUME obj[t].key \in Memory
                     PROVE  obj[t].key \in Alloc(n.obj) /\ NotWhite(n.obj, {obj[t].key})
        BY DEF KeyMarked, NotWhite
      <3>2. obj[t].key \in Alloc(obj) /\ NotWhite(obj, {obj[t].key})
        BY <2>2, <3>1 DEF KeyMarked, NotWhite
      <3> QED
        BY <1>8, <1>10, <3>2
    <2> QED
      BY <1>8, <1>10, <1>11, <2>3, <2>4
  <1>12. StoredOf(n, {})
    BY <1>9, <1>10, <1>11, StoredTable
  <1> QED
    BY <1>5, <1>12, StoredKeeps

\* luaC_barrier, of a userdata or a closed upvalue whose val is written.
LEMMA BarrierKeeps ==
  ASSUME GCInv, phase \notin Atomic, NEW o \in LiveOf(obj, white), NEW v \in Values,
         IsUserdata(obj[o]) \/ (obj[o].kind = "upvalue" /\ ~IsOpen(obj[o])),
         ValueOf(obj, white, v), RefsOf(obj, white, [obj[o] EXCEPT !.val = v]),
         Store(Barrier(WithVal(o, v), o, v))
  PROVE  GCInv'
  <1> DEFINE m == WithVal(o, v)
             n == Barrier(m, o, v)
  <1>1. m = WithVal(o, v) /\ n = Barrier(m, o, v) /\ Store(n)
    OBVIOUS
  <1> HIDE DEF m, n
  <1>2. ~IsOpen(obj[o])
    BY DEF IsOpen, IsUserdata
  <1>3. /\ m \in Marks /\ WrittenOf(m, o)
        /\ Alloc(m.obj) = Alloc(obj) /\ LiveOf(m.obj, white) = LiveOf(obj, white)
        /\ o \in Memory /\ m.obj[o] \in Objects
        /\ m.obj[o].val = v /\ m.obj[o].kind = obj[o].kind
        /\ m.obj[o].at = obj[o].at /\ m.obj[o].colour = obj[o].colour
        /\ phase = "propagate" => NoneDead(m.obj, white) /\ ColourSound(obj, obj[o])
        /\ AnyOf(m.obj)
    <2>1. /\ ~IsOpen(obj[o]) /\ RefsOf(obj, white, [obj[o] EXCEPT !.val = v])
          /\ m = WithVal(o, v)
      BY <1>1, <1>2
    <2> QED
      BY <2>1, StoreVal
  <1>4. /\ SoundOf(m.obj, white, stack, tmudata)
        /\ ColouredOf(m.obj, white, phase, unswept, tmudata)
        /\ m.obj \in Heaps /\ m.weak \in Seq(Memory)
    BY <1>3 DEF WrittenOf, StoredOf, Marks
  <1>5. /\ white \in Whites /\ stack \in Stacks /\ (phase \in Marking <=> phase = "propagate")
        /\ phase = "propagate" => tmudata = <<>>
    BY ProgramIs
  <1>6. v \in Memory => v \in Alloc(m.obj)
    BY <1>3 DEF ValueOf, LiveOf
  <1>7. o \in Alloc(m.obj) /\ o \in LiveOf(m.obj, white)
    BY <1>3 DEF LiveOf
  <1>8. ~StaysGray(m.obj[o]) /\ m.obj[o].kind \notin Tables /\ ~IsOpen(m.obj[o])
          /\ Keeps(m.obj[o]) = {v}
    BY <1>2, <1>3 DEF StaysGray, WeakKey, WeakValue, IsUserdata, Keeps, Tables, IsOpen
  <1>9. IsWhite(m, v) <=> v \in Memory /\ m.obj[v].colour \in Whites
    BY MemoryIs DEF IsWhite
  <1>10. phase = "propagate" /\ m.obj[o].colour = "gray"
            => Traversed(m.obj[o]) \/ m.obj[o].kind = "string" \/ IsOpen(m.obj[o])
    BY <1>3 DEF ColourSound, Traversed, IsOpen
  <1>11. CASE ~(IsWhite(m, v) /\ IsBlack(m, o))
    <2>1. n = m
      BY <1>1, <1>11 DEF Barrier
    <2>2. m.obj[o].colour = "black" => NotWhite(m.obj, {v})
      BY <1>9, <1>11 DEF IsBlack, NotWhite
    <2>3. phase = "propagate" => ColourSound(m.obj, m.obj[o])
      BY <1>8, <1>10, <2>2 DEF ColourSound
    <2>4. StoredOf(m, {})
      BY <1>3, <2>3 DEF WrittenOf, StoredOf, MarkedOf
    <2> QED
      BY <1>1, <2>1, <2>4, StoredKeeps
  <1>12. CASE IsWhite(m, v) /\ IsBlack(m, o) /\ phase = "propagate"
    <2>1. n = MarkAll(m, {v}) /\ m.obj[o].colour = "black"
      BY <1>1, <1>12 DEF Barrier, IsBlack
    <2>2. /\ NotWhite(m.obj, {Main, Globals}) /\ MarkedOf(m.obj, {o})
          /\ LinkedOf(m.obj, m.gray, m.again, m.weak) /\ WeakOf(m.obj, m.weak)
          /\ NoneDead(m.obj, white)
      BY <1>3, <1>12 DEF WrittenOf, StoredOf
    <2>3. {v} \in SUBSET Values /\ \A u \in {v} : u \in Memory => u \in Alloc(m.obj)
      BY <1>6
    <2>4. /\ n \in Marks /\ Darker(m.obj, n.obj) /\ NotWhite(n.obj, {v}) /\ MarkedOf(n.obj, {o})
      BY <1>3, <1>4, <1>5, <2>1, <2>2, <2>3, MarkAllMarks
    <2>5. n.obj \in Heaps
      BY <2>4 DEF Marks
    <2>6. /\ NotWhite(n.obj, {Main, Globals})
          /\ n.obj[o].kind = m.obj[o].kind /\ n.obj[o].val = v /\ n.obj[o].at = m.obj[o].at
          /\ n.obj[o].colour = "black"
      <3>1. "black" \notin Whites
        BY DEF Whites
      <3> QED
        BY <1>3, <1>4, <2>1, <2>2, <2>4, <2>5, <3>1, DarkerIs
    <2>7. ColourSound(n.obj, n.obj[o])
      <3>1. ~StaysGray(n.obj[o]) /\ n.obj[o].kind \notin Tables /\ Keeps(n.obj[o]) = {v}
        BY <1>3, <1>8, <2>6 DEF StaysGray, WeakKey, WeakValue, IsUserdata, Keeps, Tables
      <3> QED
        BY <2>4, <2>6, <3>1 DEF ColourSound
    <2>8. MarkedOf(n.obj, {})
      BY <2>4, <2>7 DEF MarkedOf
    <2>9. RemarkedOf(n.obj, stack, "propagate", m.again, m.weak, tmudata)
      BY PhasesAre DEF RemarkedOf
    <2>10. /\ n \in Marks
           /\ SoundOf(n.obj, white, stack, tmudata)
           /\ ColouredOf(n.obj, white, "propagate", unswept, tmudata)
           /\ MarkOf(n.obj, stack, "propagate", n.gray, n.again, n.weak, tmudata)
      BY <1>3, <1>4, <1>5, <1>12, <2>1, <2>2, <2>3, <2>6, <2>8, <2>9, PhasesAre, MarkingStep
    <2>11. StoredOf(n, {})
      BY <1>12, <2>10, PhasesAre DEF StoredOf, MarkOf
    <2> QED
      BY <1>1, <2>11, StoredKeeps
  <1>13. CASE IsWhite(m, v) /\ IsBlack(m, o) /\ phase # "propagate"
    <2> DEFINE y == [m.obj[o] EXCEPT !.colour = white]
    <2>1. n = With(m, o, y) /\ m.obj[o].colour = "black"
      BY <1>1, <1>3, <1>4, <1>13 DEF Barrier, IsBlack, Paint, With, Marks, Heaps
    <2>2. /\ y \in Objects /\ y.kind = m.obj[o].kind /\ y.val = m.obj[o].val
          /\ y.key = m.obj[o].key /\ y.at = m.obj[o].at /\ y.colour = white
          /\ y.finalized = m.obj[o].finalized /\ y.called = m.obj[o].called
      BY <1>3, <1>5 DEF Objects
    <2> HIDE DEF y
    <2>3. /\ n \in Marks /\ n.obj[o] = y /\ \A p \in Memory : p # o => n.obj[p] = m.obj[p]
      BY <1>3, <2>1, <2>2, MarksWith
    <2>4. Alloc(n.obj) = Alloc(m.obj)
      BY <2>2, <2>3 DEF Alloc
    <2>5. white # Other(white) /\ "black" # Other(white) /\ white # "black"
      BY <1>5, OtherIs
    <2>6. LiveOf(n.obj, white) = LiveOf(m.obj, white)
      BY <2>1, <2>2, <2>3, <2>4, <2>5 DEF LiveOf, Alloc
    <2>7. SoundOf(n.obj, white, stack, tmudata)
      <3>1. ASSUME NEW p \in LiveOf(m.obj, white) PROVE SameRefs(m.obj[p], n.obj[p])
        <4>1. RefsOf(m.obj, white, m.obj[p]) /\ p \in Memory
          BY <1>4, <3>1 DEF SoundOf, LiveOf, Alloc
        <4> QED
          BY <2>2, <2>3, <2>5, <4>1 DEF SameRefs, RefsOf
      <3>2. \A p \in Memory : n.obj[p].kind = m.obj[p].kind /\ n.obj[p].finalized = m.obj[p].finalized
        BY <2>2, <2>3
      <3> QED
        BY <1>4, <2>6, <3>1, <3>2, SoundSame
    <2>8. ColouredOf(n.obj, white, phase, unswept, tmudata)
      <3>1. AnyOf(n.obj)
        BY <1>3, <2>2, <2>3, <2>4 DEF AnyOf, Alloc
      <3>2. ASSUME NEW p \in Alloc(n.obj)
            PROVE  \/ n.obj[p].colour = white
                   \/ /\ p \in Alloc(m.obj) /\ n.obj[p].kind = m.obj[p].kind
                      /\ (IsOpen(m.obj[p]) => IsOpen(n.obj[p]))
                      /\ n.obj[p].colour = m.obj[p].colour
        BY <2>2, <2>3, <2>4, <3>2 DEF Alloc
      <3> QED
        BY <1>4, <1>5, <3>1, <3>2, ColouredKeeps
    <2>9. StoredOf(n, {})
      BY <1>13, <2>3, <2>7, <2>8 DEF StoredOf
    <2> QED
      BY <1>1, <2>9, StoredKeeps
  <1> QED
    BY <1>11, <1>12, <1>13

LEMMA SetEnvKeeps ==
  ASSUME GCInv, phase \notin Atomic, SetEnv
  PROVE  GCInv'
  <1>1. PICK o \in HeldOf({"userdata", "file"}), t \in HeldOf(Tables) :
          Store(Barrier(WithVal(o, t), o, t))
    BY DEF SetEnv, WithVal
  <1>2. /\ o \in LiveOf(obj, white) /\ IsUserdata(obj[o]) /\ obj[o] \in Objects
    BY HeldOfIs DEF IsUserdata
  <1>3. t \in LiveOf(obj, white) /\ t \in Memory /\ obj[t].kind \in Tables
    BY HeldOfIs
  <1>4. t \in Values /\ ValueOf(obj, white, t)
    BY <1>3 DEF Values, ValueOf, Tables
  <1>5. RefsOf(obj, white, [obj[o] EXCEPT !.val = t])
    <2> DEFINE y == [obj[o] EXCEPT !.val = t]
    <2>1. y.kind = obj[o].kind /\ y.val = t
      BY <1>2 DEF Objects
    <2> HIDE DEF y
    <2>2. RefsOf(obj, white, y)
      BY <1>2, <1>3, <2>1 DEF RefsOf, IsUserdata, IsOpen, Tables
    <2> QED
      BY <2>2 DEF y
  <1> QED
    BY <1>1, <1>2, <1>4, <1>5, BarrierKeeps

LEMMA SetUpvalKeeps ==
  ASSUME GCInv, phase \notin Atomic, NEW j \in 1..Frame, SetUpval(j)
  PROVE  GCInv'
  <1>1. PICK c \in HeldOf({"closure"}) :
          LET u == obj[c].val IN
          IF IsOpen(obj[u])
          THEN /\ stack' = [stack EXCEPT ![obj[u].at] = stack[j]]
               /\ Becomes(Barrier(M, u, stack[j]))
               /\ UNCHANGED <<mix, white, phase, unswept, tmudata>>
          ELSE Store(Barrier([M EXCEPT !.obj[u].val = stack[j]], u, stack[j]))
    BY DEF SetUpval
  <1> DEFINE u == obj[c].val
             v == stack[j]
  <1>2. /\ u \in Memory /\ u \in LiveOf(obj, white)
        /\ obj[u].kind = "upvalue" /\ obj[u] \in Objects
        /\ IsOpen(obj[u]) => obj[u].at \in 1..Frame /\ obj[u].colour # "black"
    BY ClosureIs
  <1>3. v \in Values /\ ValueOf(obj, white, v) /\ HeapTyped
    BY ProgramIs DEF Stacks, SoundOf
  <1>4. M.obj = obj /\ M.gray = gray /\ M.again = again /\ M.weak = weak
    BY <1>3, MarksIs
  <1>5. CASE IsOpen(obj[u])
    <2>1. Barrier(M, u, v) = M
      BY <1>2, <1>4, <1>5 DEF Barrier, IsBlack
    <2>2. Load(obj[u].at, v)
      BY <1>1, <1>4, <1>5, <2>1 DEF Load, Becomes, lists
    <2>3. obj[u].at \in 1..Frame
      BY <1>2, <1>5
    <2> QED
      BY <1>3, <2>2, <2>3, LoadKeeps
  <1>6. CASE ~IsOpen(obj[u])
    <2>1. RefsOf(obj, white, [obj[u] EXCEPT !.val = v])
      <3> DEFINE y == [obj[u] EXCEPT !.val = v]
      <3>1. y.kind = obj[u].kind /\ y.val = v /\ y.at = obj[u].at
        BY <1>2 DEF Objects
      <3> HIDE DEF y
      <3>2. RefsOf(obj, white, y)
        BY <1>2, <1>3, <1>6, <3>1 DEF RefsOf, IsUserdata, IsOpen, Tables
      <3> QED
        BY <3>2 DEF y
    <2>2. Store(Barrier(WithVal(u, v), u, v))
      BY <1>1, <1>6 DEF WithVal
    <2> HIDE DEF u, v
    <2> QED
      BY <1>2, <1>3, <1>6, <2>1, <2>2, BarrierKeeps
  <1> QED
    BY <1>5, <1>6

-----------------------------------------------------------------------------
(* New objects.                                                            *)

LEMMA KeepsLive ==
  ASSUME NEW O, NEW w, NEW x, RefsOf(O, w, x), x.colour = "black", x.kind # "free",
         ~StaysGray(x), Globals \in LiveOf(O, w), x.kind \in Kinds \union {"thread"}
  PROVE  \A v \in Keeps(x) : v \in Memory => v \in LiveOf(O, w)
  <1>1. x.kind # "thread" /\ ~IsOpen(x)
    BY DEF StaysGray, RefsOf
  <1>2. CASE x.kind = "closure"
    BY <1>2 DEF Keeps, RefsOf
  <1>3. CASE x.kind \in Tables
    BY <1>3 DEF Keeps, RefsOf, ValueOf, Tables
  <1>4. CASE IsUserdata(x)
    BY <1>4 DEF Keeps, RefsOf, IsUserdata, Tables
  <1>5. CASE x.kind = "upvalue"
    BY <1>1, <1>5 DEF Keeps, RefsOf, ValueOf, Tables
  <1>6. CASE x.kind = "string"
    BY <1>6, MemoryIs DEF Keeps, RefsOf, Tables
  <1> QED
    BY <1>1, <1>2, <1>3, <1>4, <1>5, <1>6 DEF Kinds, IsUserdata

\* Objects that were free, or dead, are now live and white.
LEMMA GrowKeeps ==
  ASSUME GCInv, phase \notin Atomic, NEW N \in SUBSET Memory, obj' \in Heaps,
         \A p \in Memory \ N : obj'[p] = obj[p],
         \A p \in N :
            /\ p \notin LiveOf(obj, white)
            /\ obj'[p].colour = white /\ obj'[p].kind \notin {"free", "thread"}
            /\ RefsOf(obj', white, obj'[p])
            /\ obj'[p].called => obj'[p].finalized,
         stack' \in Stacks, \A i \in 1..Frame : ValueOf(obj', white, stack'[i]),
         UNCHANGED <<mix, white, phase, gray, again, weak, unswept, tmudata>>
  PROVE  GCInv'
  <1>1. /\ SoundOf(obj, white, stack, tmudata) /\ obj \in Heaps /\ white \in Whites
        /\ gray \in Seq(Memory) /\ again \in Seq(Memory) /\ weak \in Seq(Memory)
        /\ ColouredOf(obj, white, phase, unswept, tmudata) /\ AnyOf(obj)
        /\ MarksOf(obj, phase, gray, again, weak)
        /\ phase \in Marking <=> phase = "propagate"
        /\ phase = "propagate" => NoneDead(obj, white)
    BY ProgramIs
  <1>2. white # Other(white) /\ white # "gray" /\ white # "black"
    BY <1>1, OtherIs
  <1>3. Main \in LiveOf(obj, white) /\ Globals \in LiveOf(obj, white)
    BY <1>1 DEF SoundOf
  <1>4. LiveOf(obj, white) \subseteq Memory /\ LiveOf(obj, white) \subseteq Alloc(obj)
    BY DEF LiveOf, Alloc
  <1>5. \A p \in LiveOf(obj, white) : p \notin N /\ obj'[p] = obj[p]
    BY <1>4
  <1>6. LiveOf(obj', white) = LiveOf(obj, white) \union N
    <2>1. \A p \in N : p \in LiveOf(obj', white)
      BY <1>2 DEF LiveOf, Alloc
    <2>2. \A p \in Memory \ N : p \in LiveOf(obj', white) <=> p \in LiveOf(obj, white)
      BY DEF LiveOf, Alloc
    <2>3. LiveOf(obj', white) \subseteq Memory
      BY DEF LiveOf, Alloc
    <2> QED
      BY <1>4, <1>5, <2>1, <2>2, <2>3
  <1>7. Alloc(obj') = Alloc(obj) \union N
    BY DEF Alloc
  <1>8. SoundOf(obj', white, stack', tmudata)
    <2>1. \A p \in LiveOf(obj, white) : p \in LiveOf(obj', white) /\ obj'[p].kind = obj[p].kind
      BY <1>5, <1>6
    <2>2. ASSUME NEW p \in LiveOf(obj', white)
          PROVE  \/ p \in LiveOf(obj, white) /\ SameRefs(obj[p], obj'[p])
                 \/ RefsOf(obj', white, obj'[p])
      <3>1. CASE p \in N
        BY <3>1
      <3>2. CASE p \notin N
        <4>1. p \in LiveOf(obj, white) /\ obj'[p] = obj[p] /\ RefsOf(obj, white, obj[p])
          BY <1>1, <1>5, <1>6, <2>2, <3>2 DEF SoundOf
        <4> QED
          BY <4>1 DEF SameRefs, RefsOf
      <3> QED
        BY <3>1, <3>2
    <2>3. ASSUME NEW p \in Memory PROVE obj'[p].kind = "thread" <=> p = Main
      <3>1. obj[p].kind = "thread" <=> p = Main
        BY <1>1 DEF SoundOf
      <3> QED
        BY <1>3, <1>5, <3>1
    <2>4. \A p \in ToSet(tmudata) :
            p \in LiveOf(obj', white) /\ obj'[p].kind = "file" /\ obj'[p].finalized
      BY <1>1, <1>5, <1>6 DEF SoundOf
    <2> QED
      BY <1>1, <2>1, <2>2, <2>3, <2>4, SoundGrows
  <1>9. ColouredOf(obj', white, phase, unswept, tmudata)
    <2>1. ASSUME NEW p \in Alloc(obj')
          PROVE  \/ obj'[p].colour = white
                 \/ /\ p \in Alloc(obj) /\ obj'[p].kind = obj[p].kind
                    /\ (IsOpen(obj[p]) => IsOpen(obj'[p]))
                    /\ obj'[p].colour = obj[p].colour
      <3>1. p \in Memory
        BY <2>1 DEF Alloc
      <3> QED
        BY <1>7, <2>1, <3>1
    <2>2. AnyOf(obj')
      BY <1>1, <1>7 DEF AnyOf, RefsOf, Alloc
    <2> QED
      BY <1>1, <2>1, <2>2, ColouredKeeps
  <1>10. ASSUME phase = "propagate"
         PROVE  /\ NotWhite(obj', {Main, Globals}) /\ MarkedOf(obj', {})
                /\ LinkedOf(obj', gray, again, weak) /\ WeakOf(obj', weak)
    <2>1. /\ NotWhite(obj, {Main, Globals}) /\ MarkedOf(obj, {})
          /\ LinkedOf(obj, gray, again, weak) /\ WeakOf(obj, weak)
      BY <1>1, <1>10 DEF MarksOf
    <2>2. LiveOf(obj, white) = Alloc(obj)
      BY <1>1, <1>10, NoneDeadLive
    <2>3. \A p \in Alloc(obj) : p \notin N /\ obj'[p] = obj[p] /\ p \in Memory
      BY <1>4, <1>5, <2>2
    <2>4. NotWhite(obj', {Main, Globals})
      BY <1>3, <1>5, <2>1 DEF NotWhite
    <2>5. {o \in Alloc(obj') : obj'[o].colour = "gray" /\ Traversed(obj'[o])}
             = {o \in Alloc(obj) : obj[o].colour = "gray" /\ Traversed(obj[o])}
      BY <1>2, <1>7, <2>3
    <2>6. LinkedOf(obj', gray, again, weak)
      BY <2>1, <2>5 DEF LinkedOf
    <2>7. \A o \in ToSet(weak) : o \in Alloc(obj)
      BY <2>1 DEF LinkedOf
    <2>8. WeakOf(obj', weak)
      BY <2>1, <2>3, <2>7 DEF WeakOf
    <2>9. ASSUME NEW o \in Alloc(obj') PROVE ColourSound(obj', obj'[o])
      <3>1. CASE o \in N
        BY <1>2, <3>1 DEF ColourSound
      <3>2. CASE o \notin N
        <4>1. o \in Alloc(obj) /\ obj'[o] = obj[o] /\ ColourSound(obj, obj[o])
          BY <1>7, <2>1, <2>3, <2>9, <3>2 DEF MarkedOf
        <4>2. RefsOf(obj, white, obj[o]) /\ obj[o].kind # "free"
                /\ obj[o].kind \in Kinds \union {"thread"}
          BY <1>1, <2>2, <4>1 DEF SoundOf, Alloc, Heaps, Objects
        <4>3. ASSUME obj[o].colour = "black"
              PROVE  /\ NotWhite(obj', Keeps(obj[o])) /\ ~StaysGray(obj[o])
                     /\ (obj[o].kind \in Tables => KeyMarked(obj', obj[o].key))
          <5>1. /\ NotWhite(obj, Keeps(obj[o])) /\ ~StaysGray(obj[o])
                /\ (obj[o].kind \in Tables => KeyMarked(obj, obj[o].key))
            BY <4>1, <4>3 DEF ColourSound
          <5>2. \A v \in Keeps(obj[o]) : v \in Memory => v \in LiveOf(obj, white)
            BY <1>3, <4>2, <4>3, <5>1, KeepsLive
          <5>3. NotWhite(obj', Keeps(obj[o]))
            BY <1>5, <5>1, <5>2 DEF NotWhite
          <5>4. obj[o].kind \in Tables => KeyMarked(obj', obj[o].key)
            BY <1>7, <2>3, <5>1 DEF KeyMarked
          <5> QED
            BY <5>1, <5>3, <5>4
        <4> QED
          BY <4>1, <4>3 DEF ColourSound
      <3> QED
        BY <3>1, <3>2
    <2>10. MarkedOf(obj', {})
      BY <2>9 DEF MarkedOf
    <2> QED
      BY <2>4, <2>6, <2>8, <2>10
  <1>11. MarksOf(obj', phase, gray', again', weak')
    BY <1>10 DEF MarksOf
  <1>12. gray' \in Seq(Memory) /\ again' \in Seq(Memory) /\ weak' \in Seq(Memory)
    BY <1>1
  <1> QED
    BY <1>8, <1>9, <1>11, <1>12, ProgramStep

LEMMA LeastIs ==
  ASSUME NEW S \in SUBSET Memory, S # {}
  PROVE  Least(S) \in S
  <1>1. S \in SUBSET Nat
    BY MemoryIs DEF Memory
  <1>2. \E x \in S : \A y \in S : ~ <<y, x>> \in OpToRel(<, Nat)
    BY <1>1, NatLessThanWellFounded, WFMin
  <1>3. \E x \in S : \A y \in S : x <= y
    <2>1. PICK x \in S : \A y \in S : ~ <<y, x>> \in OpToRel(<, Nat)
      BY <1>2
    <2>2. ASSUME NEW y \in S PROVE x <= y
      <3>1. x \in Nat /\ y \in Nat
        BY <1>1
      <3>2. ~(y < x)
        BY <2>1, <2>2, <3>1 DEF OpToRel
      <3> QED
        BY <3>1, <3>2
    <2> QED
      BY <2>2
  <1> QED
    BY <1>3 DEF Least

\* Where objects are allocated.
LEMMA RoomIs ==
  ASSUME GCInv, NEW k, Room(k) # {}
  PROVE  /\ Least(Room(k)) \in Memory
         /\ obj[Least(Room(k))].kind = "free"
         /\ Least(Room(k)) \notin Alloc(obj)
         /\ Least(Room(k)) \notin LiveOf(obj, white)
         /\ \E n \in DOMAIN mix : mix[n] = k /\ Least(Room(k)) = n + 1
  <1>1. mix \in Mixes
    BY DEF GCInv, HeapTyped
  <1>2. mix \in Seq(Kinds) /\ Len(mix) <= Size /\ Size \in Nat
    BY <1>1, GCAssumption
  <1>3. \A n \in DOMAIN mix : n + 1 \in Memory
    BY <1>2 DEF Memory
  <1>4. Room(k) \subseteq Memory
    BY <1>3 DEF Room
  <1>5. Least(Room(k)) \in Room(k)
    BY <1>4, LeastIs
  <1>6. PICK n \in DOMAIN mix : mix[n] = k /\ obj[n + 1].kind = "free" /\ Least(Room(k)) = n + 1
    BY <1>5 DEF Room
  <1>7. Least(Room(k)) \in Memory /\ obj[Least(Room(k))].kind = "free"
    BY <1>3, <1>6
  <1> QED
    BY <1>6, <1>7 DEF LiveOf, Alloc

LEMMA NewIs ==
  ASSUME NEW k \in Kinds \union {"thread"}, NEW c \in Whites
  PROVE  LET x == New(k, c) IN
         /\ x \in Objects /\ x.kind = k /\ x.colour = c /\ x.key = Nil /\ x.val = Nil
         /\ x.at = 0 /\ x.finalized = FALSE /\ x.called = FALSE
  <1>1. Free \in Objects
    BY FreeIs
  <1>2. New(k, c) = [[Free EXCEPT !.kind = k] EXCEPT !.colour = c]
    BY DEF New, Free
  <1>3. [Free EXCEPT !.kind = k] \in Objects
    BY <1>1 DEF Objects
  <1>4. \A x \in Objects : [x EXCEPT !.colour = c] \in Objects
    BY DEF Objects
  <1>5. New(k, c) \in Objects
    BY <1>2, <1>3, <1>4
  <1>6. LET x == New(k, c) IN
         /\ x.kind = k /\ x.colour = c /\ x.key = Nil /\ x.val = Nil
         /\ x.at = 0 /\ x.finalized = FALSE /\ x.called = FALSE
    BY DEF New, Free
  <1> QED
    BY <1>5, <1>6

LEMMA CreateKeeps ==
  ASSUME GCInv, phase \notin Atomic, NEW i \in 1..Frame, NEW x \in Objects,
         x.kind \in Kinds, x.kind \notin {"upvalue", "closure"},
         x.colour = white, x.called = FALSE,
         IsUserdata(x) => x.val = Globals, ~IsUserdata(x) => x.val = Nil,
         Create(i, x)
  PROVE  GCInv'
  <1> DEFINE p == Least(Room(x.kind))
  <1>1. /\ Room(x.kind) # {}
        /\ obj' = [obj EXCEPT ![p] = x] /\ stack' = [stack EXCEPT ![i] = p]
        /\ UNCHANGED <<mix, white, phase, gray, again, weak, unswept, tmudata>>
    BY DEF Create, lists
  <1>2. p \in Memory /\ p \notin Alloc(obj) /\ p \notin LiveOf(obj, white)
    BY <1>1, RoomIs
  <1>3. /\ SoundOf(obj, white, stack, tmudata) /\ obj \in Heaps /\ white \in Whites
        /\ stack \in Stacks
    BY ProgramIs
  <1> HIDE DEF p
  <1>4. obj' \in Heaps /\ obj'[p] = x /\ \A q \in Memory : q # p => obj'[q] = obj[q]
    BY <1>1, <1>2, <1>3 DEF Heaps
  <1>5. x.kind # "free" /\ x.kind # "thread" /\ white # Other(white)
    BY <1>3, OtherIs DEF Kinds, Tables
  <1>6. p \in LiveOf(obj', white)
    BY <1>2, <1>4, <1>5 DEF LiveOf, Alloc
  <1>7. \A q \in LiveOf(obj, white) : q \in LiveOf(obj', white) /\ obj'[q].kind = obj[q].kind
    BY <1>2, <1>4 DEF LiveOf, Alloc
  <1>8. Globals \in LiveOf(obj', white) /\ obj'[Globals].kind = "table"
    BY <1>3, <1>7 DEF SoundOf
  <1>9. RefsOf(obj', white, x)
    BY <1>8 DEF RefsOf, IsUserdata, IsOpen, Tables
  <1>10. stack' \in Stacks /\ \A j \in 1..Frame : stack'[j] = IF j = i THEN p ELSE stack[j]
    BY <1>1, <1>2, <1>3 DEF Stacks, Values
  <1>11. \A j \in 1..Frame : ValueOf(obj', white, stack'[j])
    <2>1. \A j \in 1..Frame : ValueOf(obj, white, stack[j])
      BY <1>3 DEF SoundOf
    <2>2. ValueOf(obj', white, p)
      BY <1>4, <1>6 DEF ValueOf
    <2> QED
      BY <1>7, <1>10, <2>1, <2>2, ValueGrows
  <1>12. \A q \in {p} :
            /\ q \notin LiveOf(obj, white)
            /\ obj'[q].colour = white /\ obj'[q].kind \notin {"free", "thread"}
            /\ RefsOf(obj', white, obj'[q])
            /\ obj'[q].called => obj'[q].finalized
    BY <1>2, <1>4, <1>5, <1>9
  <1>13. {p} \in SUBSET Memory /\ \A q \in Memory \ {p} : obj'[q] = obj[q]
    BY <1>2, <1>4
  <1>14. UNCHANGED <<mix, white, phase, gray, again, weak, unswept, tmudata>>
    BY <1>1
  <1> QED
    BY <1>4, <1>10, <1>11, <1>12, <1>13, <1>14, GrowKeeps

LEMMA NewTableKeeps ==
  ASSUME GCInv, phase \notin Atomic, NEW i \in 1..Slots, NewTable(i)
  PROVE  GCInv'
  <1>1. PICK k \in Tables : Create(i, New(k, white))
    BY DEF NewTable
  <1>2. white \in Whites /\ i \in 1..Frame
    BY ProgramIs, MemoryIs
  <1> DEFINE x == New(k, white)
  <1>3. k \in Kinds /\ k \notin {"upvalue", "closure", "userdata", "file"}
    BY DEF Kinds, Tables
  <1>4. /\ x \in Objects /\ x.kind = k /\ x.colour = white /\ x.val = Nil /\ x.called = FALSE
    BY <1>2, <1>3, NewIs
  <1>5. Create(i, x)
    BY <1>1
  <1> HIDE DEF x
  <1>6. ~IsUserdata(x)
    BY <1>3, <1>4 DEF IsUserdata
  <1> QED
    BY <1>2, <1>3, <1>4, <1>5, <1>6, CreateKeeps

LEMMA NewUserdataKeeps ==
  ASSUME GCInv, phase \notin Atomic, NEW i \in 1..Slots, NewUserdata(i)
  PROVE  GCInv'
  <1>1. PICK k \in {"userdata", "file"} : Create(i, [New(k, white) EXCEPT !.val = Globals])
    BY DEF NewUserdata
  <1>2. white \in Whites /\ i \in 1..Frame /\ Globals \in Values
    BY ProgramIs, MemoryIs DEF Values
  <1> DEFINE y == New(k, white)
             x == [y EXCEPT !.val = Globals]
  <1>3. k \in Kinds
    BY DEF Kinds
  <1>4. y \in Objects /\ y.kind = k /\ y.colour = white /\ y.called = FALSE
    BY <1>2, <1>3, NewIs
  <1>5. Create(i, x)
    BY <1>1
  <1> HIDE DEF y
  <1>6. x \in Objects /\ x.kind = k /\ x.colour = white /\ x.called = FALSE /\ x.val = Globals
    BY <1>2, <1>4 DEF Objects
  <1> HIDE DEF x
  <1>7. IsUserdata(x) /\ x.kind \notin {"upvalue", "closure"}
    BY <1>6 DEF IsUserdata
  <1> QED
    BY <1>2, <1>3, <1>5, <1>6, <1>7, CreateKeeps

LEMMA NewStringKeeps ==
  ASSUME GCInv, phase \notin Atomic, NEW i \in 1..Slots, NewString(i)
  PROVE  GCInv'
  <1>1. i \in 1..Frame /\ white \in Whites
    BY ProgramIs, MemoryIs
  <1>2. CASE Create(i, New("string", white))
    <2> DEFINE x == New("string", white)
    <2>1. x \in Objects /\ x.kind = "string" /\ x.colour = white /\ x.val = Nil /\ x.called = FALSE
      BY <1>1, NewIs DEF Kinds
    <2>2. Create(i, x)
      BY <1>2
    <2> HIDE DEF x
    <2>3. ~IsUserdata(x) /\ x.kind \in Kinds /\ x.kind \notin {"upvalue", "closure"}
      BY <2>1 DEF IsUserdata, Kinds
    <2> QED
      BY <1>1, <2>1, <2>2, <2>3, CreateKeeps
  <1>3. ASSUME NEW s \in Memory, obj[s].kind = "string",
               obj' = Revived(s), stack' = [stack EXCEPT ![i] = s],
               UNCHANGED <<mix, white, phase, lists, unswept, tmudata>>
        PROVE  GCInv'
    <2>1. /\ SoundOf(obj, white, stack, tmudata) /\ obj \in Heaps /\ stack \in Stacks
          /\ AnyOf(obj) /\ HeapTyped
      BY ProgramIs
    <2>2. M.obj = obj /\ white # Other(white)
      BY <1>1, <2>1, MarksIs, OtherIs
    <2>3. CASE obj[s].colour # Other(white)
      <3>1. obj' = obj
        BY <1>3, <2>2, <2>3 DEF Revived, IsDead
      <3>2. s \in LiveOf(obj, white) /\ ValueOf(obj, white, s) /\ s \in Values
        BY <1>3, <2>3 DEF LiveOf, Alloc, ValueOf, Values
      <3>3. Load(i, s)
        BY <1>3, <3>1 DEF Load
      <3> QED
        BY <1>1, <3>2, <3>3, LoadKeeps
    <2>4. CASE obj[s].colour = Other(white)
      <3>1. obj' = [obj EXCEPT ![s].colour = white]
        BY <1>3, <2>2, <2>4 DEF Revived, IsDead
      <3>2. s \in Alloc(obj) /\ s \notin LiveOf(obj, white) /\ obj[s] \in Objects
        BY <1>3, <2>1, <2>4 DEF LiveOf, Alloc, Heaps
      <3>3. obj'[s] = [obj[s] EXCEPT !.colour = white] /\ \A q \in Memory \ {s} : obj'[q] = obj[q]
        BY <1>3, <2>1, <3>1 DEF Heaps
      <3>4. /\ obj'[s] \in Objects /\ obj'[s].kind = "string" /\ obj'[s].val = obj[s].val
            /\ obj'[s].colour = white
            /\ obj'[s].called = obj[s].called /\ obj'[s].finalized = obj[s].finalized
        BY <1>1, <1>3, <3>2, <3>3 DEF Objects
      <3>5. obj' \in Heaps
        BY <1>1, <1>3, <2>1, <3>1, <3>2, <3>4 DEF Heaps
      <3>6. obj[s].val = Nil /\ (obj[s].called => obj[s].finalized)
        BY <1>3, <2>1, <3>2 DEF AnyOf
      <3>7. RefsOf(obj', white, obj'[s])
        BY <3>4, <3>6 DEF RefsOf, IsUserdata, IsOpen, Tables
      <3>8. s \in LiveOf(obj', white)
        BY <1>3, <2>2, <3>4 DEF LiveOf, Alloc
      <3>9. \A q \in LiveOf(obj, white) : q \in LiveOf(obj', white) /\ obj'[q].kind = obj[q].kind
        BY <3>2, <3>3 DEF LiveOf, Alloc
      <3>10. stack' \in Stacks /\ \A j \in 1..Frame : stack'[j] = IF j = i THEN s ELSE stack[j]
        BY <1>3, <2>1 DEF Stacks, Values
      <3>11. \A j \in 1..Frame : ValueOf(obj', white, stack'[j])
        <4>1. \A j \in 1..Frame : ValueOf(obj, white, stack[j])
          BY <2>1 DEF SoundOf
        <4>2. ValueOf(obj', white, s)
          BY <3>4, <3>8 DEF ValueOf
        <4> QED
          BY <3>9, <3>10, <4>1, <4>2, ValueGrows
      <3>12. \A q \in {s} :
                /\ q \notin LiveOf(obj, white)
                /\ obj'[q].colour = white /\ obj'[q].kind \notin {"free", "thread"}
                /\ RefsOf(obj', white, obj'[q])
                /\ obj'[q].called => obj'[q].finalized
        BY <3>2, <3>4, <3>6, <3>7
      <3>13. {s} \in SUBSET Memory
        BY <1>3
      <3>14. UNCHANGED <<mix, white, phase, gray, again, weak, unswept, tmudata>>
        BY <1>3 DEF lists
      <3> QED
        BY <3>3, <3>5, <3>10, <3>11, <3>12, <3>13, <3>14, GrowKeeps
    <2> QED
      BY <2>3, <2>4
  <1> QED
    BY <1>2, <1>3 DEF NewString

-----------------------------------------------------------------------------
(* Closures.                                                               *)

\* A new closure c, over an upvalue u that is live, or new, or revived.
LEMMA ClosureKeeps ==
  ASSUME GCInv, phase \notin Atomic, NEW i \in 1..Frame,
         NEW c \in Memory, c \notin Alloc(obj), NEW u \in Memory, u # c,
         obj' \in Heaps, \A p \in Memory : p # c /\ p # u => obj'[p] = obj[p],
         obj'[c].kind = "closure", obj'[c].colour = white, obj'[c].val = u, obj'[c].called = FALSE,
         \/ u \in LiveOf(obj, white) /\ obj'[u] = obj[u] /\ obj[u].kind = "upvalue"
         \/ /\ u \notin LiveOf(obj, white) /\ IsOpen(obj'[u]) /\ obj'[u].colour = white
            /\ obj'[u].at \in 1..Frame /\ (obj'[u].called => obj'[u].finalized),
         stack' = [stack EXCEPT ![i] = c],
         UNCHANGED <<mix, white, phase, gray, again, weak, unswept, tmudata>>
  PROVE  GCInv'
  <1> DEFINE N == {c, u} \ LiveOf(obj, white)
  <1>1. /\ SoundOf(obj, white, stack, tmudata) /\ obj \in Heaps /\ white \in Whites
        /\ stack \in Stacks
    BY ProgramIs
  <1>2. white # Other(white) /\ white # "gray" /\ white # "black"
    BY <1>1, OtherIs
  <1>3. c \notin LiveOf(obj, white) /\ obj'[u].kind = "upvalue"
    BY DEF LiveOf, IsOpen
  <1>4. N \in SUBSET Memory /\ \A p \in Memory \ N : obj'[p] = obj[p]
    BY <1>3
  <1>5. c \in LiveOf(obj', white)
    BY <1>2 DEF LiveOf, Alloc
  <1>6. u \in LiveOf(obj', white)
    BY <1>2, <1>3 DEF LiveOf, Alloc
  <1>7. \A q \in LiveOf(obj, white) : q \in LiveOf(obj', white) /\ obj'[q].kind = obj[q].kind
    BY <1>3 DEF LiveOf, Alloc
  <1>8. RefsOf(obj', white, obj'[c])
    BY <1>3, <1>6 DEF RefsOf, IsUserdata, IsOpen, Tables
  <1>9. ASSUME u \notin LiveOf(obj, white) PROVE RefsOf(obj', white, obj'[u])
    BY <1>2, <1>3, <1>9 DEF RefsOf, IsUserdata, IsOpen, Tables
  <1>10. stack' \in Stacks /\ \A j \in 1..Frame : stack'[j] = IF j = i THEN c ELSE stack[j]
    BY <1>1 DEF Stacks, Values
  <1>11. \A j \in 1..Frame : ValueOf(obj', white, stack'[j])
    <2>1. \A j \in 1..Frame : ValueOf(obj, white, stack[j])
      BY <1>1 DEF SoundOf
    <2>2. ValueOf(obj', white, c)
      BY <1>5 DEF ValueOf
    <2> QED
      BY <1>7, <1>10, <2>1, <2>2, ValueGrows
  <1>12. \A p \in N :
            /\ p \notin LiveOf(obj, white)
            /\ obj'[p].colour = white /\ obj'[p].kind \notin {"free", "thread"}
            /\ RefsOf(obj', white, obj'[p])
            /\ obj'[p].called => obj'[p].finalized
    BY <1>3, <1>8, <1>9
  <1> HIDE DEF N
  <1>13. UNCHANGED <<mix, white, phase, gray, again, weak, unswept, tmudata>>
    OBVIOUS
  <1> QED
    BY <1>4, <1>10, <1>11, <1>12, <1>13, GrowKeeps


\* The upvalue is a new one, or the one that is open.
NewOpen(c, u, j) ==
    Becomes([[M EXCEPT !.obj[c] = New("closure", white)] EXCEPT
                !.obj[c].val = u, !.obj[u] = [New("upvalue", white) EXCEPT !.at = j]])
OldOpen(c, o) ==
    Becomes(FindUpval([[M EXCEPT !.obj[c] = New("closure", white)] EXCEPT !.obj[c].val = o], o))

LEMMA NewClosureIs ==
  ASSUME NEW i, NEW j, NewClosure(i, j)
  PROVE  /\ Room("closure") # {} /\ stack' = [stack EXCEPT ![i] = Least(Room("closure"))]
         /\ UNCHANGED <<mix, white, phase, unswept, tmudata>>
         /\ \/ Room("upvalue") # {} /\ NewOpen(Least(Room("closure")), Least(Room("upvalue")), j)
            \/ \E o \in {p \in Opens(M) : obj[p].at = j} : OldOpen(Least(Room("closure")), o)
  BY Zenon DEF NewClosure, NewOpen, OldOpen

LEMMA NewClosureKeeps ==
  ASSUME GCInv, phase \notin Atomic, NEW i \in 1..Slots, NEW j \in 1..Slots, NewClosure(i, j)
  PROVE  GCInv'
  <1> DEFINE c == Least(Room("closure"))
             x == New("closure", white)
  <1>1. /\ SoundOf(obj, white, stack, tmudata) /\ obj \in Heaps /\ white \in Whites
        /\ stack \in Stacks /\ AnyOf(obj) /\ HeapTyped
        /\ i \in 1..Frame /\ j \in 1..Frame
    BY ProgramIs, MemoryIs
  <1>2. M.obj = obj /\ M.gray = gray /\ M.again = again /\ M.weak = weak
    BY DEF M
  <1>3. /\ Room("closure") # {} /\ stack' = [stack EXCEPT ![i] = c]
        /\ UNCHANGED <<mix, white, phase, unswept, tmudata>>
    BY NewClosureIs
  <1>4. /\ c \in Memory /\ c \notin Alloc(obj) /\ obj[c].kind = "free"
        /\ \E n \in DOMAIN mix : mix[n] = "closure" /\ c = n + 1
    BY <1>3, RoomIs
  <1>5. /\ x \in Objects /\ x.kind = "closure" /\ x.colour = white /\ x.called = FALSE
        /\ x.val = Nil
    BY <1>1, NewIs DEF Kinds
  <1>6. ASSUME NEW v \in Values
        PROVE  LET y == [x EXCEPT !.val = v] IN
               /\ y \in Objects /\ y.kind = "closure" /\ y.colour = white /\ y.called = FALSE
               /\ y.val = v
    <2> HIDE DEF x
    <2> QED
      BY <1>5, <1>6 DEF Objects
  <1>7. mix \in Seq(Kinds) /\ DOMAIN mix \subseteq Nat
    <2>1. mix \in Mixes
      BY <1>1 DEF HeapTyped
    <2> QED
      BY <2>1, GCAssumption
  <1>8. CASE Room("upvalue") # {} /\ NewOpen(c, Least(Room("upvalue")), j)
    <2> DEFINE u == Least(Room("upvalue"))
               v == New("upvalue", white)
               y == [x EXCEPT !.val = u]
               z == [v EXCEPT !.at = j]
    <2>1. /\ u \in Memory /\ u \notin LiveOf(obj, white)
          /\ \E n \in DOMAIN mix : mix[n] = "upvalue" /\ u = n + 1
      BY <1>8, RoomIs
    <2>2. u # c
      BY <1>4, <1>7, <2>1
    <2>3. /\ v \in Objects /\ v.kind = "upvalue" /\ v.colour = white /\ v.called = FALSE
      BY <1>1, NewIs DEF Kinds
    <2>4. /\ obj' = [[[obj EXCEPT ![c] = x] EXCEPT ![c].val = u] EXCEPT ![u] = z]
          /\ gray' = gray /\ again' = again /\ weak' = weak
      <3> HIDE DEF c, x, u, v, z
      <3> DEFINE O1 == [obj EXCEPT ![c] = x]
                 O2 == [[O1 EXCEPT ![c].val = u] EXCEPT ![u] = z]
                 m1 == [obj |-> O1, gray |-> gray, again |-> again, weak |-> weak]
      <3>1. [M EXCEPT !.obj[c] = x] = m1
        BY DEF M
      <3> HIDE DEF O1
      <3> DEFINE O3 == [O1 EXCEPT ![c].val = u]
                 m2 == [obj |-> O3, gray |-> gray, again |-> again, weak |-> weak]
                 m3 == [obj |-> O2, gray |-> gray, again |-> again, weak |-> weak]
      <3>2. [m1 EXCEPT !.obj[c].val = u] = m2
        OBVIOUS
      <3> HIDE DEF O3
      <3>3. [m2 EXCEPT !.obj[u] = z] = [m2 EXCEPT !.obj = [O3 EXCEPT ![u] = z]]
        OBVIOUS
      <3>4. [m2 EXCEPT !.obj = [O3 EXCEPT ![u] = z]] = m3
        BY DEF O3
      <3>5. Becomes([[M EXCEPT !.obj[c] = x] EXCEPT !.obj[c].val = u, !.obj[u] = z])
        BY Zenon, <1>8 DEF NewOpen, x, v, z, u
      <3>6. [[M EXCEPT !.obj[c] = x] EXCEPT !.obj[c].val = u, !.obj[u] = z]
               = [[[M EXCEPT !.obj[c] = x] EXCEPT !.obj[c].val = u] EXCEPT !.obj[u] = z]
        OBVIOUS
      <3> HIDE DEF m1, m2, m3
      <3>7. Becomes(m3)
        BY <3>1, <3>2, <3>3, <3>4, <3>5, <3>6
      <3>8. obj' = m3.obj /\ gray' = m3.gray /\ again' = m3.again /\ weak' = m3.weak
        BY <3>7 DEF Becomes
      <3> HIDE DEF O2
      <3>9. m3.obj = O2 /\ m3.gray = gray /\ m3.again = again /\ m3.weak = weak
        BY DEF m3
      <3> QED
        BY <3>8, <3>9 DEF O1, O2
    <2> HIDE DEF c, x, u, v
    <2>5. z \in Objects /\ z.kind = "upvalue" /\ z.colour = white /\ z.called = FALSE /\ z.at = j
      BY <1>1, <2>3 DEF Objects
    <2>6. y \in Objects /\ y.kind = "closure" /\ y.colour = white /\ y.called = FALSE /\ y.val = u
      BY <1>6, <2>1 DEF Values
    <2>7. obj' = [[obj EXCEPT ![c] = y] EXCEPT ![u] = z]
      BY <1>1, <1>4, <2>4 DEF Heaps
    <2> HIDE DEF y, z
    <2>8. /\ obj' \in Heaps /\ obj'[c] = y /\ obj'[u] = z
          /\ \A p \in Memory : p # c /\ p # u => obj'[p] = obj[p]
      BY <1>1, <1>4, <2>1, <2>2, <2>5, <2>6, <2>7 DEF Heaps
    <2>9. /\ obj'[c].kind = "closure" /\ obj'[c].colour = white /\ obj'[c].val = u
          /\ obj'[c].called = FALSE
      BY <2>6, <2>8
    <2>10. /\ IsOpen(obj'[u]) /\ obj'[u].colour = white /\ obj'[u].at \in 1..Frame
           /\ (obj'[u].called => obj'[u].finalized)
      BY <1>1, <2>5, <2>8 DEF IsOpen
    <2>11. UNCHANGED <<mix, white, phase, gray, again, weak, unswept, tmudata>>
      BY <1>3, <2>4
    <2> QED
      BY <1>1, <1>3, <1>4, <2>1, <2>2, <2>8, <2>9, <2>10, <2>11, ClosureKeeps
  <1>9. ASSUME NEW o \in Opens(M), OldOpen(c, o)
        PROVE  GCInv'
    <2> DEFINE y == [x EXCEPT !.val = o]
               m == [M EXCEPT !.obj = [obj EXCEPT ![c] = y]]
    <2>1. o \in Memory /\ IsOpen(obj[o]) /\ obj[o] \in Objects
      BY <1>1, <1>2, <1>9 DEF Opens, Heaps
    <2>2. o # c /\ o \in Alloc(obj) /\ obj[o].kind = "upvalue" /\ obj[o].at \in 1..Frame
      <3>1. obj[o].at \in 0..Frame /\ obj[o].at # 0
        BY <2>1 DEF Objects, IsOpen
      <3>2. Frame \in Nat
        BY MemoryIs
      <3> QED
        BY <1>4, <2>1, <3>1, <3>2 DEF IsOpen, Alloc
    <2>3. Becomes(FindUpval(m, o))
      <3> HIDE DEF c, x
      <3>1. [[M EXCEPT !.obj[c] = x] EXCEPT !.obj[c].val = o]
               = [M EXCEPT !.obj = [[obj EXCEPT ![c] = x] EXCEPT ![c].val = o]]
        BY DEF M
      <3>2. [[obj EXCEPT ![c] = x] EXCEPT ![c].val = o] = [obj EXCEPT ![c] = y]
        BY <1>1, <1>4 DEF Heaps
      <3> QED
        BY <1>9, <3>1, <3>2 DEF OldOpen, x
    <2> HIDE DEF c, x
    <2>4. /\ y \in Objects /\ y.kind = "closure" /\ y.colour = white /\ y.called = FALSE
          /\ y.val = o
      BY <1>6, <2>1 DEF Values
    <2> HIDE DEF y
    <2>5. m.obj = [obj EXCEPT ![c] = y] /\ m.gray = gray /\ m.again = again /\ m.weak = weak
      BY DEF M
    <2>6. /\ m.obj \in Heaps /\ m.obj[c] = y /\ m.obj[o] = obj[o]
          /\ \A p \in Memory : p # c => m.obj[p] = obj[p]
      BY <1>1, <1>4, <2>1, <2>2, <2>4, <2>5 DEF Heaps
    <2>7. CASE obj[o].colour # Other(white)
      <3>1. obj' = m.obj /\ gray' = gray /\ again' = again /\ weak' = weak
        <4>1. ~IsDead(m, o)
          BY <2>6, <2>7 DEF IsDead
        <4> QED
          BY <2>3, <2>5, <4>1 DEF FindUpval, Becomes
      <3>2. o \in LiveOf(obj, white)
        BY <2>2, <2>7 DEF LiveOf
      <3>3. /\ obj'[c].kind = "closure" /\ obj'[c].colour = white /\ obj'[c].val = o
            /\ obj'[c].called = FALSE
        BY <2>4, <2>6, <3>1
      <3>4. /\ obj' \in Heaps /\ obj'[o] = obj[o]
            /\ \A p \in Memory : p # c /\ p # o => obj'[p] = obj[p]
        BY <2>6, <3>1
      <3>5. UNCHANGED <<mix, white, phase, gray, again, weak, unswept, tmudata>>
        BY <1>3, <3>1
      <3> QED
        BY <1>1, <1>3, <1>4, <2>1, <2>2, <3>2, <3>3, <3>4, <3>5, ClosureKeeps
    <2>8. CASE obj[o].colour = Other(white)
      <3> DEFINE z == [obj[o] EXCEPT !.colour = white]
      <3>1. /\ obj' = [m.obj EXCEPT ![o].colour = white]
            /\ gray' = gray /\ again' = again /\ weak' = weak
        <4>1. IsDead(m, o)
          BY <2>6, <2>8 DEF IsDead
        <4>2. /\ Paint(m, o, white).obj = [m.obj EXCEPT ![o].colour = white]
              /\ Paint(m, o, white).gray = m.gray /\ Paint(m, o, white).again = m.again
              /\ Paint(m, o, white).weak = m.weak
          BY DEF Paint, M
        <4> HIDE DEF m
        <4> QED
          BY <2>3, <2>5, <4>1, <4>2 DEF FindUpval, Becomes
      <3> HIDE DEF m
      <3>2. /\ z \in Objects /\ z.kind = "upvalue" /\ z.colour = white /\ z.at = obj[o].at
            /\ z.called = obj[o].called /\ z.finalized = obj[o].finalized
        BY <1>1, <2>1, <2>2 DEF Objects
      <3>3. obj' = [m.obj EXCEPT ![o] = z]
        BY <2>1, <2>6, <3>1 DEF Heaps
      <3> HIDE DEF z
      <3>4. /\ obj' \in Heaps /\ obj'[o] = z /\ obj'[c] = y
            /\ \A p \in Memory : p # c /\ p # o => obj'[p] = obj[p]
        BY <1>4, <2>1, <2>2, <2>6, <3>2, <3>3 DEF Heaps
      <3>5. o \notin LiveOf(obj, white)
        BY <2>8 DEF LiveOf
      <3>6. obj[o].called => obj[o].finalized
        BY <1>1, <2>2 DEF AnyOf
      <3>7. /\ IsOpen(obj'[o]) /\ obj'[o].colour = white /\ obj'[o].at \in 1..Frame
            /\ (obj'[o].called => obj'[o].finalized)
        BY <2>1, <2>2, <3>2, <3>4, <3>6 DEF IsOpen
      <3>8. /\ obj'[c].kind = "closure" /\ obj'[c].colour = white /\ obj'[c].val = o
            /\ obj'[c].called = FALSE
        BY <2>4, <3>4
      <3>9. UNCHANGED <<mix, white, phase, gray, again, weak, unswept, tmudata>>
        BY <1>3, <3>1
      <3> QED
        BY <1>1, <1>3, <1>4, <2>1, <2>2, <3>4, <3>5, <3>7, <3>8, <3>9, ClosureKeeps
    <2> QED
      BY <2>7, <2>8
  <1>10. \/ Room("upvalue") # {} /\ NewOpen(c, Least(Room("upvalue")), j)
         \/ \E o \in Opens(M) : OldOpen(c, o)
    BY NewClosureIs
  <1> HIDE DEF c, x
  <1> QED
    BY <1>8, <1>9, <1>10

-----------------------------------------------------------------------------
(* The end of a block: luaF_close.                                         *)

ClosingOf(i) == {o \in Memory : IsOpen(obj[o]) /\ obj[o].at >= i}
ClosedOf(i)  == [o \in Memory |-> IF o \in ClosingOf(i) THEN CloseUpval(o) ELSE obj[o]]
LinkedTo(i)  == {stack[obj[u].at] : u \in {o \in ClosingOf(i) : obj[o].colour = "gray"}}

LEMMA CloseUpvalIs ==
  ASSUME GCInv, phase \notin Atomic, NEW o \in Memory, IsOpen(obj[o])
  PROVE  /\ obj[o].at \in 1..Frame
         /\ obj[o].colour = Other(white) => CloseUpval(o) = Free
         /\ obj[o].colour # Other(white) =>
              LET y == CloseUpval(o) IN
              /\ y \in Objects /\ y.kind = "upvalue" /\ y.at = 0 /\ y.val = stack[obj[o].at]
              /\ y.called = obj[o].called /\ y.finalized = obj[o].finalized
              /\ y.colour = IF obj[o].colour # "gray" THEN obj[o].colour
                            ELSE IF phase = "propagate" THEN "black" ELSE white
  <1> DEFINE x == obj[o]
             v == stack[obj[o].at]
             z == [x EXCEPT !.val = v, !.at = 0]
             c == IF phase = "propagate" THEN "black" ELSE white
  <1>1. /\ obj \in Heaps /\ stack \in Stacks /\ white \in Whites /\ M.obj = obj
    BY ProgramIs DEF M
  <1>2. x \in Objects /\ x.kind = "upvalue" /\ x.at # 0
    BY <1>1 DEF Heaps, IsOpen
  <1>3. x.at \in 1..Frame
    <2>1. x.at \in 0..Frame /\ Frame \in Nat
      BY <1>2, MemoryIs DEF Objects
    <2> QED
      BY <1>2, <2>1
  <1>4. v \in Values
    BY <1>1, <1>3 DEF Stacks
  <1>5. IsDead(M, o) <=> x.colour = Other(white)
    BY <1>1 DEF IsDead
  <1>6. CloseUpval(o) = IF IsDead(M, o) THEN Free ELSE LinkUpval(z)
    BY DEF CloseUpval
  <1>7. 0 \in 0..Frame /\ z = [[x EXCEPT !.val = v] EXCEPT !.at = 0]
    BY MemoryIs
  <1> HIDE DEF x, v, z
  <1>8. /\ z \in Objects /\ z.kind = x.kind /\ z.at = 0 /\ z.val = v /\ z.colour = x.colour
        /\ z.called = x.called /\ z.finalized = x.finalized
    <2>1. /\ [x EXCEPT !.val = v] \in Objects
          /\ \A y \in Objects : /\ [y EXCEPT !.at = 0] \in Objects
                                /\ [y EXCEPT !.at = 0].at = 0
                                /\ [y EXCEPT !.at = 0].kind = y.kind
                                /\ [y EXCEPT !.at = 0].val = y.val
                                /\ [y EXCEPT !.at = 0].colour = y.colour
                                /\ [y EXCEPT !.at = 0].called = y.called
                                /\ [y EXCEPT !.at = 0].finalized = y.finalized
      BY <1>2, <1>4, <1>7 DEF Objects
    <2>2. LET y == [x EXCEPT !.val = v] IN
             /\ y.kind = x.kind /\ y.val = v /\ y.colour = x.colour
             /\ y.called = x.called /\ y.finalized = x.finalized
      BY <1>2, <1>4 DEF Objects
    <2> QED
      BY <1>7, <2>1, <2>2
  <1>9. LET y == LinkUpval(z) IN
        /\ y \in Objects /\ y.kind = z.kind /\ y.at = z.at /\ y.val = z.val
        /\ y.called = z.called /\ y.finalized = z.finalized
        /\ y.colour = IF z.colour # "gray" THEN z.colour ELSE c
    <2>1. c \in Whites \union {"gray", "black"}
      BY <1>1
    <2>2. LinkUpval(z) = IF z.colour # "gray" THEN z ELSE [z EXCEPT !.colour = c]
      BY DEF LinkUpval
    <2> HIDE DEF c
    <2> QED
      BY <1>8, <2>1, <2>2 DEF Objects
  <1> QED
    BY <1>2, <1>3, <1>5, <1>6, <1>8, <1>9 DEF x, v

\* The upvalues are closed, and marking has not yet been told.
LEMMA ClosedIs ==
  ASSUME GCInv, phase \notin Atomic, NEW i \in 1..Frame, NEW O, O = ClosedOf(i)
  PROVE  /\ O \in Heaps /\ AnyOf(O)
         /\ SoundOf(O, white, stack, tmudata)
         /\ ColouredOf(O, white, phase, unswept, tmudata)
         /\ phase = "propagate" =>
              /\ NoneDead(O, white) /\ NotWhite(O, {Main, Globals})
              /\ LinkedOf(O, gray, again, weak) /\ WeakOf(O, weak)
              /\ Alloc(O) = Alloc(obj)
              /\ MarkedOf(O, {o \in ClosingOf(i) : obj[o].colour = "gray"})
              /\ \A o \in ClosingOf(i) : obj[o].colour = "gray" =>
                    /\ O[o].kind = "upvalue" /\ O[o].at = 0 /\ O[o].colour = "black"
                    /\ O[o].val = stack[obj[o].at] /\ obj[o].at \in 1..Frame
  <1> DEFINE E == ClosingOf(i)
  <1>1. /\ SoundOf(obj, white, stack, tmudata) /\ obj \in Heaps /\ white \in Whites
        /\ stack \in Stacks
        /\ ColouredOf(obj, white, phase, unswept, tmudata) /\ AnyOf(obj)
        /\ MarksOf(obj, phase, gray, again, weak)
        /\ phase \in Marking <=> phase = "propagate"
        /\ phase = "propagate" => NoneDead(obj, white)
    BY ProgramIs
  <1>2. /\ white # Other(white) /\ white # "gray" /\ white # "black"
        /\ "gray" \notin Whites /\ "black" \notin Whites /\ "black" # Other(white)
        /\ Other(white) \in Whites
    BY <1>1, OtherIs
  <1>3. \A o \in E : /\ o \in Memory /\ IsOpen(obj[o]) /\ obj[o].kind = "upvalue"
                     /\ o \in Alloc(obj) /\ obj[o].at \in 1..Frame
                     /\ O[o] = CloseUpval(o)
    BY CloseUpvalIs DEF ClosingOf, ClosedOf, IsOpen, Alloc
  <1>4. \A o \in Memory : o \notin E => O[o] = obj[o]
    BY DEF ClosedOf
  <1>5. \A o \in E : obj[o].colour = Other(white) => O[o] = Free
    BY <1>3, CloseUpvalIs
  <1>6. \A o \in E : obj[o].colour # Other(white) =>
          /\ O[o] \in Objects /\ O[o].kind = "upvalue" /\ O[o].at = 0
          /\ O[o].val = stack[obj[o].at]
          /\ O[o].called = obj[o].called /\ O[o].finalized = obj[o].finalized
          /\ O[o].colour = IF obj[o].colour # "gray" THEN obj[o].colour
                           ELSE IF phase = "propagate" THEN "black" ELSE white
    BY <1>3, CloseUpvalIs
  <1>7. Free \in Objects /\ Free.kind = "free"
    BY FreeIs DEF Free
  <1>8. O \in Heaps
    <2>1. \A o \in Memory : O[o] \in Objects
      BY <1>1, <1>4, <1>5, <1>6, <1>7 DEF Heaps
    <2>2. O = [o \in Memory |-> O[o]]
      BY DEF ClosedOf
    <2> QED
      BY <2>1, <2>2 DEF Heaps
  <1> HIDE DEF E
  <1>9. LiveOf(obj, white) \subseteq Memory /\ Alloc(obj) \subseteq Memory /\ Alloc(O) \subseteq Memory
    BY DEF LiveOf, Alloc
  <1>10. \A o \in E : o \in Alloc(O) <=> o \in LiveOf(obj, white)
    BY <1>3, <1>5, <1>6, <1>7 DEF LiveOf, Alloc
  <1>11. \A o \in E : o \in LiveOf(obj, white) => o \in LiveOf(O, white)
    <2>1. SUFFICES ASSUME NEW o \in E, o \in LiveOf(obj, white) PROVE O[o].colour # Other(white)
      BY <1>10 DEF LiveOf
    <2>2. obj[o].colour # Other(white)
      BY <2>1 DEF LiveOf
    <2> QED
      BY <1>2, <1>6, <2>2
  <1>12. LiveOf(O, white) = LiveOf(obj, white)
    <2>1. \A o \in Memory : o \notin E => (o \in LiveOf(O, white) <=> o \in LiveOf(obj, white))
      BY <1>4 DEF LiveOf, Alloc
    <2>2. \A o \in LiveOf(O, white) : o \in Memory /\ o \in Alloc(O)
      BY DEF LiveOf, Alloc
    <2> QED
      BY <1>9, <1>10, <1>11, <2>1, <2>2
  <1>13. \A o \in LiveOf(obj, white) : O[o].kind = obj[o].kind
    BY <1>3, <1>4, <1>6, <1>9 DEF LiveOf
  <1>14. \A j \in 1..Frame : ValueOf(obj, white, stack[j]) /\ ValueOf(O, white, stack[j])
    BY <1>1, <1>12, <1>13 DEF SoundOf, ValueOf
  <1>15. SoundOf(O, white, stack, tmudata)
    <2>1. ASSUME NEW o \in LiveOf(O, white)
          PROVE  (o \in LiveOf(obj, white) /\ SameRefs(obj[o], O[o])) \/ RefsOf(O, white, O[o])
      <3>1. CASE o \in E
        <4>1. O[o].kind = "upvalue" /\ O[o].at = 0 /\ ValueOf(O, white, O[o].val)
          BY <1>3, <1>6, <1>12, <1>14, <2>1, <3>1 DEF LiveOf
        <4>2. RefsOf(O, white, O[o])
          BY <4>1 DEF RefsOf, IsUserdata, IsOpen, Tables
        <4> QED
          BY <4>2
      <3>2. CASE o \notin E
        <4>1. o \in LiveOf(obj, white) /\ O[o] = obj[o] /\ RefsOf(obj, white, obj[o])
          BY <1>1, <1>4, <1>9, <1>12, <2>1, <3>2 DEF SoundOf
        <4> QED
          BY <4>1 DEF SameRefs, RefsOf
      <3> QED
        BY <3>1, <3>2
    <2>2. ASSUME NEW o \in Memory PROVE O[o].kind = "thread" <=> o = Main
      <3>1. obj[o].kind = "thread" <=> o = Main
        BY <1>1 DEF SoundOf
      <3>2. CASE o \in E
        <4>1. O[o].kind \in {"free", "upvalue"}
          BY <1>5, <1>6, <1>7, <3>2
        <4> QED
          BY <1>3, <3>1, <3>2, <4>1
      <3> QED
        BY <1>4, <3>1, <3>2
    <2>3. \A o \in ToSet(tmudata) :
             o \in LiveOf(O, white) /\ O[o].kind = "file" /\ O[o].finalized
      <3>1. ASSUME NEW o \in ToSet(tmudata)
            PROVE  o \in LiveOf(O, white) /\ O[o].kind = "file" /\ O[o].finalized
        <4>1. o \in LiveOf(obj, white) /\ obj[o].kind = "file" /\ obj[o].finalized
          BY <1>1, <3>1 DEF SoundOf
        <4>2. o \notin E /\ o \in Memory
          BY <1>3, <1>9, <4>1
        <4> QED
          BY <1>4, <1>12, <4>1, <4>2
      <3> QED
        BY <3>1
    <2>4. \A o \in LiveOf(obj, white) : o \in LiveOf(O, white) /\ O[o].kind = obj[o].kind
      BY <1>12, <1>13
    <2> QED
      BY <1>1, <1>14, <2>1, <2>2, <2>3, <2>4, SoundGrows
  <1>16. AnyOf(O)
    <2>1. ASSUME NEW o \in Alloc(O)
          PROVE  (O[o].called => O[o].finalized) /\ (O[o].kind = "string" => O[o].val = Nil)
      <3>1. CASE o \in E
        <4>1. o \in Alloc(obj) /\ O[o].kind = "upvalue"
                /\ O[o].called = obj[o].called /\ O[o].finalized = obj[o].finalized
          BY <1>3, <1>6, <1>10, <2>1, <3>1 DEF LiveOf
        <4> QED
          BY <1>1, <4>1 DEF AnyOf
      <3>2. CASE o \notin E
        <4>1. O[o] = obj[o] /\ o \in Alloc(obj)
          BY <1>4, <2>1, <3>2 DEF Alloc
        <4> QED
          BY <1>1, <4>1 DEF AnyOf
      <3> QED
        BY <3>1, <3>2
    <2> QED
      BY <2>1 DEF AnyOf
  <1>17. ColouredOf(O, white, phase, unswept, tmudata)
    <2>1. ASSUME NEW o \in Alloc(O)
          PROVE  \/ O[o].colour = white
                 \/ phase = "propagate" /\ O[o].colour # Other(white)
                 \/ /\ o \in Alloc(obj) /\ O[o].kind = obj[o].kind
                    /\ (IsOpen(obj[o]) => IsOpen(O[o]))
                    /\ O[o].colour = obj[o].colour
      <3>1. CASE o \in E
        <4>1. /\ o \in LiveOf(obj, white) /\ o \in LiveOf(O, white) /\ obj[o].colour # Other(white)
              /\ O[o].colour # Other(white)
          BY <1>10, <1>12, <2>1, <3>1 DEF LiveOf
        <4>2. obj[o].colour # "black"
          BY <1>1, <1>3, <3>1, <4>1 DEF SoundOf, RefsOf
        <4>3. obj[o] \in Objects
          BY <1>1, <1>3, <3>1 DEF Heaps
        <4>4. obj[o].colour \in {white, "gray"}
          BY <1>1, <4>1, <4>2, <4>3, OtherIs DEF Objects
        <4> QED
          BY <1>6, <3>1, <4>1, <4>4
      <3>2. CASE o \notin E
        BY <1>4, <2>1, <3>2 DEF Alloc
      <3> QED
        BY <3>1, <3>2
    <2>2. phase \in Marking => phase = "propagate"
      BY <1>1
    <2> QED
      BY <1>1, <1>16, <2>1, <2>2, ColouredKeeps
  <1>18. ASSUME phase = "propagate"
         PROVE  /\ NoneDead(O, white) /\ NotWhite(O, {Main, Globals})
                /\ LinkedOf(O, gray, again, weak) /\ WeakOf(O, weak)
                /\ Alloc(O) = Alloc(obj)
                /\ MarkedOf(O, {o \in E : obj[o].colour = "gray"})
                /\ \A o \in E : obj[o].colour = "gray" =>
                      /\ O[o].kind = "upvalue" /\ O[o].at = 0 /\ O[o].colour = "black"
                      /\ O[o].val = stack[obj[o].at] /\ obj[o].at \in 1..Frame
    <2>1. /\ NotWhite(obj, {Main, Globals}) /\ MarkedOf(obj, {})
          /\ LinkedOf(obj, gray, again, weak) /\ WeakOf(obj, weak)
          /\ LiveOf(obj, white) = Alloc(obj)
      BY <1>1, <1>18, NoneDeadLive DEF MarksOf
    <2>2. Alloc(O) = Alloc(obj)
      <3>1. \A o \in Memory : o \notin E => (o \in Alloc(O) <=> o \in Alloc(obj))
        BY <1>4 DEF Alloc
      <3> QED
        BY <1>3, <1>9, <1>10, <2>1, <3>1
    <2>3. NoneDead(O, white)
      BY <1>12, <2>1, <2>2 DEF NoneDead, LiveOf
    <2>4. \A o \in E : obj[o].colour # Other(white)
      BY <1>1, <1>3, <1>18 DEF NoneDead
    <2>5. \A o \in E : /\ O[o].colour \notin Whites <=> obj[o].colour \notin Whites
                       /\ ~Traversed(O[o]) /\ ~Traversed(obj[o])
      BY <1>2, <1>3, <1>6, <1>18, <2>4 DEF Traversed, Tables
    <2>6. \A o \in Memory : O[o].colour \notin Whites <=> obj[o].colour \notin Whites
      BY <1>4, <2>5
    <2>7. NotWhite(O, {Main, Globals})
      BY <2>1, <2>6 DEF NotWhite
    <2>8. {o \in Alloc(O) : O[o].colour = "gray" /\ Traversed(O[o])}
             = {o \in Alloc(obj) : obj[o].colour = "gray" /\ Traversed(obj[o])}
      BY <1>4, <1>9, <2>2, <2>5
    <2>9. LinkedOf(O, gray, again, weak)
      BY <2>1, <2>8 DEF LinkedOf
    <2>10. WeakOf(O, weak)
      <3>1. ASSUME NEW o \in ToSet(weak) PROVE O[o].kind \in Tables \ {"table"}
        <4>1. o \in Alloc(obj) /\ obj[o].kind \in Tables \ {"table"}
          BY <2>1, <3>1 DEF LinkedOf, WeakOf
        <4>2. o \notin E
          BY <1>3, <4>1 DEF Tables
        <4> QED
          BY <1>4, <1>9, <4>1, <4>2
      <3> QED
        BY <3>1 DEF WeakOf
    <2>11. ASSUME NEW o \in Alloc(O), ~(o \in E /\ obj[o].colour = "gray")
           PROVE  ColourSound(O, O[o])
      <3>1. o \in Memory /\ ColourSound(obj, obj[o])
        BY <1>9, <2>1, <2>2, <2>11 DEF MarkedOf
      <3>2. CASE o \in E
        <4>1. obj[o].colour # "black"
          BY <1>1, <1>3, <2>1, <2>2, <2>11, <3>2 DEF SoundOf, RefsOf
        <4>2. O[o].colour # "black" /\ O[o].colour # "gray"
          BY <1>6, <2>4, <2>11, <3>2, <4>1
        <4> QED
          BY <4>2 DEF ColourSound
      <3>3. CASE o \notin E
        <4>1. O[o] = obj[o]
          BY <1>4, <3>1, <3>3
        <4> QED
          BY <2>2, <2>6, <3>1, <4>1 DEF ColourSound, NotWhite, KeyMarked
      <3> QED
        BY <3>2, <3>3
    <2>12. MarkedOf(O, {o \in E : obj[o].colour = "gray"})
      BY <2>11 DEF MarkedOf
    <2>13. \A o \in E : obj[o].colour = "gray" =>
                      /\ O[o].kind = "upvalue" /\ O[o].at = 0 /\ O[o].colour = "black"
                      /\ O[o].val = stack[obj[o].at] /\ obj[o].at \in 1..Frame
      BY <1>3, <1>6, <1>18, <2>4
    <2> QED
      BY <2>2, <2>3, <2>7, <2>9, <2>10, <2>12, <2>13
  <1> QED
    BY <1>8, <1>15, <1>16, <1>17, <1>18 DEF E

\* Slots lose their values.
LEMMA CutSound ==
  ASSUME NEW O, NEW w, NEW tm, NEW st, NEW st2, SoundOf(O, w, st, tm),
         \A j \in 1..Frame : st2[j] = st[j] \/ st2[j] = Nil
  PROVE  SoundOf(O, w, st2, tm)
  <1>1. \A j \in 1..Frame : ValueOf(O, w, st2[j])
    BY MemoryIs DEF SoundOf, ValueOf
  <1> QED
    BY <1>1 DEF SoundOf

LEMMA LeaveIs ==
  ASSUME HeapTyped, NEW i \in 1..Frame, Leave(i)
  PROVE  LET m == [M EXCEPT !.obj = ClosedOf(i)]
         IN  /\ Becomes(IF phase = "propagate" THEN MarkAll(m, LinkedTo(i)) ELSE m)
             /\ stack' = [j \in 1..Frame |-> IF j < i THEN stack[j] ELSE Nil]
             /\ UNCHANGED <<mix, white, phase, unswept, tmudata>>
  <1> DEFINE closing == {o \in Opens(M) : obj[o].at >= i}
             closed  == [M EXCEPT !.obj = [o \in Memory |-> IF o \in closing THEN CloseUpval(o)
                                                            ELSE obj[o]]]
             linked  == {stack[obj[u].at] : u \in {o \in closing : obj[o].colour = "gray"}}
  <1>1. closing = ClosingOf(i)
    BY DEF M, Opens, ClosingOf
  <1> HIDE DEF closing
  <1>2. closed = [M EXCEPT !.obj = ClosedOf(i)] /\ linked = LinkedTo(i)
    BY <1>1 DEF ClosedOf, LinkedTo
  <1>3. /\ Becomes(IF phase = "propagate" THEN MarkAll(closed, linked) ELSE closed)
        /\ stack' = [j \in 1..Frame |-> IF j < i THEN stack[j] ELSE Nil]
        /\ UNCHANGED <<mix, white, phase, unswept, tmudata>>
    BY Zenon DEF Leave, closing
  <1> HIDE DEF closed, linked
  <1> QED
    BY <1>2, <1>3

LEMMA LeaveKeeps ==
  ASSUME GCInv, phase \notin Atomic, NEW i \in 1..Frame, Leave(i)
  PROVE  GCInv'
  <1> DEFINE O == ClosedOf(i)
             m == [M EXCEPT !.obj = O]
             S == LinkedTo(i)
             n == IF phase = "propagate" THEN MarkAll(m, S) ELSE m
             E == {o \in ClosingOf(i) : obj[o].colour = "gray"}
  <1>1. /\ HeapTyped /\ obj \in Heaps /\ white \in Whites /\ stack \in Stacks
        /\ gray \in Seq(Memory) /\ again \in Seq(Memory) /\ weak \in Seq(Memory)
        /\ SoundOf(obj, white, stack, tmudata)
        /\ phase \in Marking <=> phase = "propagate"
        /\ phase = "propagate" => tmudata = <<>>
    BY ProgramIs
  <1>2. /\ Becomes(n)
        /\ stack' = [j \in 1..Frame |-> IF j < i THEN stack[j] ELSE Nil]
        /\ UNCHANGED <<mix, white, phase, unswept, tmudata>>
    BY <1>1, LeaveIs
  <1>3. /\ O \in Heaps /\ AnyOf(O)
        /\ SoundOf(O, white, stack, tmudata)
        /\ ColouredOf(O, white, phase, unswept, tmudata)
        /\ phase = "propagate" =>
              /\ NoneDead(O, white) /\ NotWhite(O, {Main, Globals})
              /\ LinkedOf(O, gray, again, weak) /\ WeakOf(O, weak)
              /\ Alloc(O) = Alloc(obj)
              /\ MarkedOf(O, E)
              /\ \A o \in ClosingOf(i) : obj[o].colour = "gray" =>
                    /\ O[o].kind = "upvalue" /\ O[o].at = 0 /\ O[o].colour = "black"
                    /\ O[o].val = stack[obj[o].at] /\ obj[o].at \in 1..Frame
    BY ClosedIs
  <1> HIDE DEF O
  <1>4. m \in Marks /\ m.obj = O /\ m.gray = gray /\ m.again = again /\ m.weak = weak
    BY <1>1, <1>3 DEF M, Marks
  <1>5. obj' = n.obj /\ gray' = n.gray /\ again' = n.again /\ weak' = n.weak
    BY <1>2 DEF Becomes
  <1>6. /\ stack' \in Stacks
        /\ \A j \in 1..Frame : stack'[j] = stack[j] \/ stack'[j] = Nil
    BY <1>1, <1>2 DEF Stacks, Values
  <1> HIDE DEF m
  <1>7. CASE phase # "propagate"
    <2>1. n = m
      BY <1>7
    <2>2. obj' = O /\ gray' = gray /\ again' = again /\ weak' = weak
      BY <1>4, <1>5, <2>1
    <2>3. SoundOf(obj', white, stack', tmudata) /\ ColouredOf(obj', white, phase, unswept, tmudata)
      BY <1>3, <1>6, <2>2, CutSound
    <2>4. MarksOf(obj', phase, gray', again', weak')
      BY <1>7 DEF MarksOf
    <2>5. /\ obj' \in Heaps /\ gray' \in Seq(Memory) /\ again' \in Seq(Memory)
          /\ weak' \in Seq(Memory)
      BY <1>1, <1>3, <2>2
    <2> QED
      BY <1>2, <1>6, <2>3, <2>4, <2>5, ProgramStep
  <1>8. CASE phase = "propagate"
    <2>1. n = MarkAll(m, S)
      BY <1>8
    <2>2. /\ NoneDead(O, white) /\ NotWhite(O, {Main, Globals})
          /\ LinkedOf(O, gray, again, weak) /\ WeakOf(O, weak)
          /\ MarkedOf(O, E)
          /\ \A o \in ClosingOf(i) : obj[o].colour = "gray" =>
                    /\ O[o].kind = "upvalue" /\ O[o].at = 0 /\ O[o].colour = "black"
                    /\ O[o].val = stack[obj[o].at] /\ obj[o].at \in 1..Frame
      BY <1>3, <1>8
    <2>3. S \in SUBSET Values /\ \A v \in S : v \in Memory => v \in Alloc(O)
      <3>1. \A j \in 1..Frame : stack[j] \in Values /\ (stack[j] \in Memory => stack[j] \in Alloc(O))
        BY <1>1, <1>3 DEF Stacks, SoundOf, ValueOf, LiveOf
      <3>2. \A v \in S : \E j \in 1..Frame : v = stack[j]
        BY <2>2 DEF LinkedTo
      <3> QED
        BY <3>1, <3>2
    <2>4. \A o \in E : stack[obj[o].at] \in S
      BY DEF LinkedTo
    <2>5. \A o \in E : /\ O[o].kind = "upvalue" /\ O[o].at = 0 /\ O[o].colour = "black"
                       /\ O[o].val \in S /\ o \in Memory
      BY <2>2, <2>4 DEF ClosingOf
    <2> HIDE DEF n, S, E
    <2>6. /\ n \in Marks /\ Darker(O, n.obj) /\ NotWhite(n.obj, S) /\ MarkedOf(n.obj, E)
      <3>1. \A v \in S : v \in Memory => v \in Alloc(m.obj)
        BY <1>4, <2>3
      <3> QED
        BY <1>1, <1>3, <1>4, <2>1, <2>2, <2>3, <3>1, MarkAllMarks
    <2>7. n.obj \in Heaps /\ NotWhite(n.obj, {Main, Globals})
      <3>1. n.obj \in Heaps
        BY <2>6 DEF Marks
      <3> QED
        BY <1>3, <2>2, <2>6, <3>1, DarkerIs
    <2>8. ASSUME NEW o \in E PROVE ColourSound(n.obj, n.obj[o])
      <3>1. /\ n.obj[o].kind = "upvalue" /\ n.obj[o].at = 0 /\ n.obj[o].val \in S
            /\ n.obj[o].colour = "black"
        <4>1. O[o].colour \notin Whites
          BY <2>5, <2>8 DEF Whites
        <4>2. /\ n.obj[o].kind = O[o].kind /\ n.obj[o].at = O[o].at /\ n.obj[o].val = O[o].val
              /\ n.obj[o].colour = O[o].colour
          BY <1>3, <2>5, <2>6, <2>7, <2>8, <4>1, DarkerIs
        <4> QED
          BY <2>5, <2>8, <4>2
      <3>2. Keeps(n.obj[o]) = {n.obj[o].val} /\ ~StaysGray(n.obj[o]) /\ n.obj[o].kind \notin Tables
        BY <3>1 DEF Keeps, StaysGray, WeakKey, WeakValue, Tables
      <3>3. NotWhite(n.obj, Keeps(n.obj[o]))
        BY <2>6, <3>1, <3>2 DEF NotWhite
      <3> QED
        BY <3>1, <3>2, <3>3 DEF ColourSound
    <2>9. MarkedOf(n.obj, {})
      BY <2>6, <2>8 DEF MarkedOf
    <2>10. RemarkedOf(n.obj, stack, "propagate", m.again, m.weak, tmudata)
      BY PhasesAre DEF RemarkedOf
    <2>11. /\ SoundOf(n.obj, white, stack, tmudata)
           /\ ColouredOf(n.obj, white, "propagate", unswept, tmudata)
           /\ MarkOf(n.obj, stack, "propagate", n.gray, n.again, n.weak, tmudata)
      <3>1. /\ SoundOf(m.obj, white, stack, tmudata) /\ NoneDead(m.obj, white) /\ AnyOf(m.obj)
            /\ \A v \in S : v \in Memory => v \in Alloc(m.obj)
            /\ LinkedOf(m.obj, m.gray, m.again, m.weak) /\ WeakOf(m.obj, m.weak)
        BY <1>3, <1>4, <2>2, <2>3
      <3>2. tmudata = <<>> /\ "propagate" \in Marking
        BY <1>1, <1>8
      <3> QED
        BY <1>1, <1>4, <2>1, <2>3, <2>7, <2>9, <2>10, <3>1, <3>2, MarkingStep
    <2>12. MarksOf(obj', phase, gray', again', weak')
      BY <1>5, <1>8, <2>11, PhasesAre, MarksOfIs
    <2>13. SoundOf(obj', white, stack', tmudata) /\ ColouredOf(obj', white, phase, unswept, tmudata)
      BY <1>5, <1>6, <1>8, <2>11, CutSound
    <2>14. /\ obj' \in Heaps /\ gray' \in Seq(Memory) /\ again' \in Seq(Memory)
           /\ weak' \in Seq(Memory)
      BY <1>5, <2>6 DEF Marks
    <2> QED
      BY <1>2, <1>6, <2>12, <2>13, <2>14, ProgramStep
  <1> QED
    BY <1>7, <1>8

-----------------------------------------------------------------------------
(* The invariant.                                                          *)

LEMMA CollectKeeps ==
  ASSUME GCInv, Collect
  PROVE  GCInv'
  BY MarkRootKeeps, PropagateMarkKeeps, RemarkUpvalsKeeps, RemarkWeakKeeps, RemarkAgainKeeps,
     SeparateKeeps, EndAtomicKeeps, SweepStringKeeps, SweepKeeps, CallFinalizerKeeps,
     EndCycleKeeps DEF Collect

LEMMA ProgramKeeps ==
  ASSUME GCInv, Program
  PROVE  GCInv'
  <1>1. phase \notin Atomic /\ Operation
    BY DEF Program
  <1>2. ASSUME NEW i \in 1..Slots,
               \/ NewTable(i) \/ NewUserdata(i) \/ NewString(i)
               \/ \E j \in 1..Slots : NewClosure(i, j)
               \/ Clear(i) \/ GetTable(i) \/ GetUpval(i) \/ GetEnv(i)
        PROVE  GCInv'
    BY <1>1, <1>2, NewTableKeeps, NewUserdataKeeps, NewStringKeeps, NewClosureKeeps, ClearKeeps,
       GetTableKeeps, GetUpvalKeeps, GetEnvKeeps
  <1>3. ASSUME NEW j \in 1..Frame, SetUpval(j) \/ Leave(j)
        PROVE  GCInv'
    BY <1>1, <1>3, SetUpvalKeeps, LeaveKeeps
  <1>4. NewEntry \/ SetEntry \/ SetEnv => GCInv'
    BY <1>1, NewEntryKeeps, SetEntryKeeps, SetEnvKeeps
  <1> QED
    BY <1>1, <1>2, <1>3, <1>4 DEF Operation

LEMMA GCStep ==
  ASSUME GCInv, [Next]_vars
  PROVE  GCInv'
  <1>1. CASE Next
    BY <1>1, CollectKeeps, ProgramKeeps DEF Next
  <1>2. CASE UNCHANGED vars
    BY <1>2 DEF vars, lists, GCInv, HeapTyped
  <1> QED
    BY <1>1, <1>2

\* The inductive invariant of the collector and the program.
THEOREM GCInvariant == Spec => []GCInv
  <1>1. Init => GCInv
    BY InitKeeps
  <1>2. GCInv /\ [Next]_vars => GCInv'
    BY GCStep
  <1> QED
    BY <1>1, <1>2, PTL DEF Spec

-----------------------------------------------------------------------------
(* What the program can reach is in every set that has the roots and is    *)
(* closed under references.                                                *)

Steps     == 0 .. Size + 1
Onward(S) == UNION {Targets(o) : o \in S}

\* f is what reach is up to k steps.
Reaches(f, k) ==
    f = [n \in 0 .. k |-> IF n = 0 THEN Roots ELSE Onward(f[n - 1])]

\* What fails of some number fails of a first one.
LEMMA FirstFailure ==
  ASSUME NEW S \in SUBSET Steps, 0 \in S, \A k \in S : k + 1 \in Steps => k + 1 \in S
  PROVE  S = Steps
  <1>1. Size \in Nat
    BY MemoryIs
  <1>2. SUFFICES ASSUME Steps \ S # {} PROVE FALSE
    OBVIOUS
  <1>4. \E x \in Steps \ S : \A y \in Steps \ S : x <= y
    <2>1. Steps \ S \in SUBSET Nat
      BY <1>1 DEF Steps
    <2>2. PICK x \in Steps \ S : \A y \in Steps \ S : ~ <<y, x>> \in OpToRel(<, Nat)
      BY <1>2, <2>1, NatLessThanWellFounded, WFMin
    <2>3. ASSUME NEW y \in Steps \ S PROVE x <= y
      <3>1. x \in Nat /\ y \in Nat
        BY <2>1, <2>2
      <3>2. ~(y < x)
        BY <2>2, <2>3, <3>1 DEF OpToRel
      <3> QED
        BY <3>1, <3>2
    <2> QED
      BY <2>3
  <1>5. PICK x \in Steps \ S : \A y \in Steps \ S : x <= y
    BY <1>4
  <1>6. x \in Nat /\ x # 0 /\ x - 1 \in Steps
    BY <1>1, <1>5 DEF Steps
  <1>7. x - 1 \in S
    BY <1>5, <1>6
  <1>8. (x - 1) + 1 = x
    BY <1>6
  <1> QED
    BY <1>5, <1>7, <1>8

LEMMA ReachesOne ==
  \E f : Reaches(f, 0)
  <1> DEFINE f == [n \in 0 .. 0 |-> Roots]
  <1>1. f = [n \in 0 .. 0 |-> IF n = 0 THEN Roots ELSE Onward(f[n - 1])]
    OBVIOUS
  <1> QED
    BY <1>1 DEF Reaches

LEMMA ReachesMore ==
  ASSUME NEW k \in Nat, NEW f, Reaches(f, k)
  PROVE  \E g : Reaches(g, k + 1)
  <1> DEFINE g == [n \in 0 .. k + 1 |-> IF n <= k THEN f[n] ELSE Onward(f[k])]
             h == [n \in 0 .. k + 1 |-> IF n = 0 THEN Roots ELSE Onward(g[n - 1])]
  <1>1. \A n \in 0 .. k : f[n] = IF n = 0 THEN Roots ELSE Onward(f[n - 1])
    <2> DEFINE r == [n \in 0 .. k |-> IF n = 0 THEN Roots ELSE Onward(f[n - 1])]
    <2>1. \A n \in 0 .. k : r[n] = IF n = 0 THEN Roots ELSE Onward(f[n - 1])
      OBVIOUS
    <2>2. f = r
      BY DEF Reaches
    <2> HIDE DEF r
    <2> QED
      BY <2>1, <2>2
  <1>2. ASSUME NEW n \in 0 .. k + 1
        PROVE  g[n] = IF n = 0 THEN Roots ELSE Onward(g[n - 1])
    <2>1. CASE n = 0
      BY <1>1, <2>1
    <2>2. CASE n # 0 /\ n <= k
      <3>1. g[n] = f[n] /\ g[n - 1] = f[n - 1] /\ n \in 0 .. k
        BY <2>2
      <3> QED
        BY <1>1, <2>2, <3>1
    <2>3. CASE n = k + 1
      <3>1. g[n] = Onward(f[k]) /\ g[n - 1] = f[k] /\ n # 0
        BY <2>3
      <3> QED
        BY <3>1
    <2> QED
      BY <2>1, <2>2, <2>3
  <1>3. g = h
    BY <1>2
  <1> QED
    BY <1>3 DEF Reaches

LEMMA ReachesAll == \E f : Reaches(f, Size + 1)
  <1> DEFINE S == {k \in Steps : \E f : Reaches(f, k)}
  <1>1. Size \in Nat /\ 0 \in Steps /\ Size + 1 \in Steps
    BY MemoryIs DEF Steps
  <1>2. S \in SUBSET Steps /\ 0 \in S
    BY <1>1, ReachesOne
  <1>3. ASSUME NEW k \in S, k + 1 \in Steps PROVE k + 1 \in S
    <2>1. k \in Nat
      BY <1>1 DEF Steps
    <2> QED
      BY <1>3, <2>1, ReachesMore
  <1> HIDE DEF S
  <1>4. S = Steps
    BY <1>2, <1>3, FirstFailure
  <1> QED
    BY <1>1, <1>4 DEF S

LEMMA ReachableIn ==
  ASSUME NEW S, Roots \subseteq S, \A o \in S : Targets(o) \subseteq S
  PROVE  Reachable \subseteq S
  <1> DEFINE f == CHOOSE r : Reaches(r, Size + 1)
             T == {k \in Steps : f[k] \subseteq S}
  <1>1. Reaches(f, Size + 1)
    BY ReachesAll
  <1>2. Reachable = f[Size + 1]
    BY DEF Reachable, Reaches, Onward
  <1> HIDE DEF f
  <1>3. Size \in Nat /\ 0 \in Steps /\ Size + 1 \in Steps
    BY MemoryIs DEF Steps
  <1>4. \A n \in Steps : f[n] = IF n = 0 THEN Roots ELSE Onward(f[n - 1])
    <2> DEFINE r == [n \in 0 .. Size + 1 |-> IF n = 0 THEN Roots ELSE Onward(f[n - 1])]
    <2>1. \A n \in Steps : r[n] = IF n = 0 THEN Roots ELSE Onward(f[n - 1])
      BY DEF Steps
    <2>2. f = r
      BY <1>1 DEF Reaches
    <2> HIDE DEF r
    <2> QED
      BY <2>1, <2>2
  <1>5. T \in SUBSET Steps /\ 0 \in T
    BY <1>3, <1>4
  <1>6. ASSUME NEW k \in T, k + 1 \in Steps PROVE k + 1 \in T
    <2>1. k \in Nat /\ k + 1 # 0 /\ (k + 1) - 1 = k
      BY <1>3 DEF Steps
    <2>2. f[k + 1] = Onward(f[k])
      BY <1>4, <1>6, <2>1
    <2>3. Onward(f[k]) \subseteq S
      BY DEF Onward
    <2> QED
      BY <1>6, <2>2, <2>3
  <1> HIDE DEF T
  <1>7. T = Steps
    BY <1>5, <1>6, FirstFailure
  <1> QED
    BY <1>2, <1>3, <1>7 DEF T

-----------------------------------------------------------------------------
(* Safety.                                                                 *)

LEMMA StrongOther ==
  ASSUME NEW x, x.kind \notin Tables \union {"thread", "closure", "upvalue"}
  PROVE  Strong(x) = {x.val}
  BY DEF Strong, Tables

\* What a live object keeps alive, and what a table has, is live.
LEMMA LiveClosed ==
  ASSUME GCInv, NEW o \in LiveOf(obj, white)
  PROVE  Targets(o) \subseteq LiveOf(obj, white) /\ Entry(obj[o]) \subseteq LiveOf(obj, white)
  <1>1. /\ SoundOf(obj, white, stack, tmudata) /\ obj \in Heaps /\ stack \in Stacks
    BY DEF GCInv, HeapTyped
  <1>2. /\ o \in Memory /\ obj[o] \in Objects /\ obj[o].kind # "free"
        /\ RefsOf(obj, white, obj[o]) /\ Globals \in LiveOf(obj, white)
        /\ \A i \in 1..Frame : ValueOf(obj, white, stack[i])
    BY <1>1 DEF SoundOf, LiveOf, Alloc, Heaps
  <1>3. Entry(obj[o]) \subseteq LiveOf(obj, white)
    BY <1>2 DEF Entry, RefsOf, ValueOf
  <1>4. Strong(obj[o]) \intersect Memory \subseteq LiveOf(obj, white)
    <2>1. CASE Traversed(obj[o])
      BY <1>1, <2>1, StrongAlloc
    <2>2. CASE IsOpen(obj[o])
      <3>1. Strong(obj[o]) = {stack[obj[o].at]} /\ obj[o].at \in 1..Frame
        BY <1>2, <2>2, StrongOpen DEF RefsOf
      <3> QED
        BY <1>2, <3>1 DEF ValueOf
    <2>3. CASE obj[o].kind = "upvalue" /\ ~IsOpen(obj[o])
      <3>1. Strong(obj[o]) = {obj[o].val}
        BY <2>3, StrongIs DEF Keeps, Tables
      <3> QED
        BY <1>2, <2>3, <3>1 DEF RefsOf, ValueOf
    <2>4. CASE IsUserdata(obj[o])
      <3>1. Strong(obj[o]) = {obj[o].val}
        BY <2>4, StrongOther DEF IsUserdata, Tables
      <3> QED
        BY <1>2, <2>4, <3>1 DEF RefsOf
    <2>5. CASE obj[o].kind = "string"
      <3>1. Strong(obj[o]) = {Nil}
        BY <1>2, <2>5, StrongOther DEF RefsOf, Tables
      <3> QED
        BY <3>1, MemoryIs
    <2>6. obj[o].kind \in Kinds \union {"thread"}
      BY <1>2 DEF Objects
    <2> QED
      BY <2>1, <2>2, <2>3, <2>4, <2>5, <2>6 DEF Traversed, IsUserdata, Kinds, Tables
  <1> QED
    BY <1>3, <1>4 DEF Targets

LEMMA ReachableLive ==
  ASSUME GCInv
  PROVE  Reachable \subseteq LiveOf(obj, white)
  <1>1. Roots \subseteq LiveOf(obj, white)
    BY DEF GCInv, SoundOf, Roots
  <1>2. \A o \in LiveOf(obj, white) : Targets(o) \subseteq LiveOf(obj, white)
    BY LiveClosed
  <1> QED
    BY <1>1, <1>2, ReachableIn

LEMMA NoDanglingIs ==
  ASSUME GCInv
  PROVE  NoDangling
  <1>1. LiveOf(obj, white) \subseteq Allocated
    BY DEF LiveOf, Alloc, Allocated
  <1>2. ASSUME NEW o \in Reachable PROVE {o} \union Entry(obj[o]) \subseteq Allocated
    BY <1>1, <1>2, ReachableLive, LiveClosed
  <1> QED
    BY <1>2 DEF NoDangling

LEMMA TricolourIs ==
  ASSUME GCInv
  PROVE  Tricolour
  <1>1. ASSUME phase \in Marking, NEW o \in Allocated, IsBlack(M, o), NEW v \in Strong(obj[o])
        PROVE  ~IsWhite(M, v)
    <2>1. /\ SoundOf(obj, white, stack, tmudata) /\ MarkedOf(obj, {})
          /\ LiveOf(obj, white) = Alloc(obj) /\ obj \in Heaps
      BY <1>1, MarkingIs
    <2>2. /\ o \in Alloc(obj) /\ M.obj = obj /\ obj[o].colour = "black"
      BY <1>1 DEF Allocated, Alloc, M, IsBlack
    <2>3. /\ RefsOf(obj, white, obj[o]) /\ ColourSound(obj, obj[o])
      BY <2>1, <2>2 DEF SoundOf, MarkedOf
    <2>4. /\ NotWhite(obj, Keeps(obj[o])) /\ obj[o].kind # "thread" /\ ~IsOpen(obj[o])
      BY <2>2, <2>3 DEF ColourSound, StaysGray, RefsOf
    <2>5. v \in Memory => obj[v].colour \notin Whites
      BY <1>1, <2>4, StrongIs DEF NotWhite
    <2>6. obj[o] \in Objects /\ Globals \in Values
      BY <2>1, <2>2, MemoryIs DEF Alloc, Heaps, Values
    <2>7. v \in Values
      BY <1>1, <2>4, <2>6, StrongIs DEF Keeps, Objects
    <2> QED
      BY <2>2, <2>5, <2>7, MemoryIs DEF IsWhite
  <1>2. ASSUME NEW o \in Reachable PROVE ~IsDead(M, o)
    BY <1>2, ReachableLive DEF LiveOf, M, IsDead
  <1> QED
    BY <1>1, <1>2 DEF Tricolour

LEMMA ListsSoundIs ==
  ASSUME GCInv
  PROVE  ListsSound
  <1>1. SUFFICES ASSUME phase \in Marking
                 PROVE  /\ IsInjective(gray \o again \o weak)
                        /\ ToSet(gray \o again \o weak) =
                              {o \in Allocated : /\ obj[o].colour = "gray"
                                                 /\ obj[o].kind \in Tables \union {"thread", "closure"}}
    BY DEF ListsSound
  <1>2. /\ gray \in Seq(Memory) /\ again \in Seq(Memory) /\ weak \in Seq(Memory)
        /\ LinkedOf(obj, gray, again, weak)
    BY <1>1, MarkingIs
  <1>3. /\ gray \o again \in Seq(Memory)
        /\ ToSet(gray \o again) = ToSet(gray) \union ToSet(again)
        /\ IsInjective(gray \o again) <=>
              IsInjective(gray) /\ IsInjective(again) /\ ToSet(gray) \intersect ToSet(again) = {}
    BY <1>2, ConcatList
  <1>4. /\ ToSet((gray \o again) \o weak) = ToSet(gray \o again) \union ToSet(weak)
        /\ IsInjective((gray \o again) \o weak) <=>
              /\ IsInjective(gray \o again) /\ IsInjective(weak)
              /\ ToSet(gray \o again) \intersect ToSet(weak) = {}
    BY <1>2, <1>3, ConcatList
  <1>5. {o \in Allocated : /\ obj[o].colour = "gray"
                           /\ obj[o].kind \in Tables \union {"thread", "closure"}}
           = {o \in Alloc(obj) : obj[o].colour = "gray" /\ Traversed(obj[o])}
    BY DEF Allocated, Alloc, Traversed
  <1> HIDE DEF ListsSound
  <1>6. ToSet(gray \o again) \intersect ToSet(weak) = {}
    BY <1>2, <1>3 DEF LinkedOf
  <1>7. /\ IsInjective(gray) /\ IsInjective(again) /\ IsInjective(weak)
        /\ ToSet(gray) \intersect ToSet(again) = {}
        /\ ToSet(gray) \union ToSet(again) \union ToSet(weak) =
             {o \in Alloc(obj) : obj[o].colour = "gray" /\ Traversed(obj[o])}
    BY <1>2 DEF LinkedOf
  <1> QED
    BY <1>3, <1>4, <1>5, <1>6, <1>7

\* The program never comes by an object that was freed.
THEOREM NothingDangles == Spec => []NoDangling
  BY GCInvariant, NoDanglingIs, PTL

\* The invariant of the barriers: no black object refers to a white one while
\* marking goes on, and nothing that can be reached is dead while the sweep does.
THEOREM BarriersSuffice == Spec => []Tricolour
  BY GCInvariant, TricolourIs, PTL

\* An object that is to be traversed is in one of the collector's lists, once.
THEOREM ListsAreSound == Spec => []ListsSound
  BY GCInvariant, ListsSoundIs, PTL

-----------------------------------------------------------------------------
(* What the steps of the collector do to the objects.                      *)

\* At the end of marking what can be reached is marked; strings may not be.
LEMMA ReachableMarked ==
  ASSUME GCInv, phase \in {"remark again", "mark finalized"}, gray = <<>>
  PROVE  \A o \in Reachable :
            o \in Alloc(obj) /\ (obj[o].colour \notin Whites \/ obj[o].kind = "string")
  <1> DEFINE S == {o \in Alloc(obj) : obj[o].colour \notin Whites \/ obj[o].kind = "string"}
  <1>1. phase \in Marking /\ Alloc(obj) \subseteq Memory
    BY PhasesAre DEF Alloc
  <1>2. /\ SoundOf(obj, white, stack, tmudata) /\ NotWhite(obj, {Main, Globals})
        /\ LiveOf(obj, white) = Alloc(obj)
        /\ RemarkedOf(obj, stack, phase, again, weak, tmudata)
        /\ (phase # "mark finalized" => tmudata = <<>>)
    BY <1>1, MarkingIs
  <1>3. Roots \subseteq S
    <2>1. Main \in S
      BY <1>2, MemoryIs DEF SoundOf, NotWhite
    <2>2. ASSUME NEW o \in ToSet(tmudata) PROVE o \in S
      <3>1. o \in Alloc(obj)
        BY <1>2, <2>2 DEF SoundOf
      <3>2. NotWhite(obj, ToSet(tmudata))
        BY <1>2, <2>2, EmptyList DEF RemarkedOf
      <3> QED
        BY <1>1, <2>2, <3>1, <3>2 DEF NotWhite
    <2> QED
      BY <2>1, <2>2 DEF Roots
  <1>4. ASSUME NEW o \in S PROVE Targets(o) \subseteq S
    <2>1. o \in Alloc(obj) /\ Targets(o) \subseteq Alloc(obj)
      BY <1>2, <1>4, LiveClosed
    <2>2. ASSUME NEW v \in Strong(obj[o]) \intersect Memory PROVE v \in S
      <3>1. v \in Alloc(obj)
        BY <2>1, <2>2 DEF Targets
      <3>2. CASE obj[o].colour \notin Whites
        <4>1. NotWhite(obj, Strong(obj[o]))
          BY <2>1, <3>2, NonWhiteClosed
        <4> QED
          BY <2>2, <3>1, <4>1 DEF NotWhite
      <3>3. CASE obj[o].kind = "string"
        <4>1. RefsOf(obj, white, obj[o])
          BY <1>2, <2>1 DEF SoundOf
        <4>2. Strong(obj[o]) = {Nil}
          BY <3>3, <4>1, StrongOther DEF RefsOf, Tables
        <4> QED
          BY <2>2, <4>2, MemoryIs
      <3> QED
        BY <1>4, <3>2, <3>3
    <2>3. \A v \in Entry(obj[o]) : obj[v].kind = "string" => v \in S
      BY <2>1 DEF Targets
    <2> QED
      BY <1>4, <2>2, <2>3 DEF Targets
  <1> HIDE DEF S
  <1>5. Reachable \subseteq S
    BY <1>3, <1>4, ReachableIn
  <1> QED
    BY <1>5 DEF S

LEMMA SameIs ==
  /\ \A x : Same(x, x)
  /\ \A x, y, z : Same(x, y) /\ Same(y, z) => Same(x, z)
  BY DEF Same

LEMMA MarkAllSame ==
  ASSUME NEW m \in Marks, NEW S
  PROVE  \A o \in Memory : Same(m.obj[o], MarkAll(m, S).obj[o])
  <1> DEFINE R == Reached(m, S)
             O2 == [o \in Memory |-> IF o \in R
                                     THEN [m.obj[o] EXCEPT !.colour = MarkedColour(m.obj[o])]
                                     ELSE m.obj[o]]
             g == SetToSeq({o \in R : Traversed(m.obj[o])}) \o m.gray
  <1>1. MarkAll(m, S) = [m EXCEPT !.obj = O2, !.gray = g]
    BY DEF MarkAll
  <1>2. \A o \in Memory : Same(m.obj[o], O2[o])
    <2>1. \A x \in Objects : Same(x, [x EXCEPT !.colour = MarkedColour(x)])
      BY DEF Same, Objects
    <2>2. \A o \in Memory : m.obj[o] \in Objects
      BY DEF Marks, Heaps
    <2> HIDE DEF R
    <2> QED
      BY <2>1, <2>2, SameIs
  <1> HIDE DEF O2, g
  <1>3. MarkAll(m, S).obj = O2
    BY <1>1, MarksExcept
  <1> QED
    BY <1>2, <1>3

\* The steps of marking keep every object's references.
Keeping == \A o \in Memory : Same(obj[o], obj'[o])

LEMMA MarkRootSame ==
  ASSUME GCInv, MarkRoot
  PROVE  Keeping
  <1> DEFINE m == [M EXCEPT !.gray = <<>>, !.again = <<>>, !.weak = <<>>]
  <1>1. obj' = MarkAll(m, {Main, Globals}).obj
    BY DEF MarkRoot, Becomes
  <1>2. M \in Marks /\ M.obj = obj /\ <<>> \in Seq(Memory)
    BY MarksIs DEF GCInv
  <1>3. m \in Marks
    BY <1>2, MarksListsAll
  <1>4. m.obj = obj
    BY <1>2 DEF Marks
  <1> HIDE DEF m
  <1> QED
    BY <1>1, <1>3, <1>4, MarkAllSame DEF Keeping

LEMMA PropagateMarkSame ==
  ASSUME GCInv, PropagateMark
  PROVE  Keeping
  <1> DEFINE o  == Head(gray)
             x  == obj[o]
             a1 == AgainAfter(x, o, again)
             k1 == WeakAfter(x, o, weak)
             m  == [M EXCEPT !.gray = Tail(gray), !.again = a1, !.weak = k1,
                             !.obj[o] = Traverse(x)]
             O1 == [obj EXCEPT ![o] = Traverse(x)]
  <1>1. phase \in Marking /\ gray # <<>> /\ obj' = Propagate(M).obj
    BY DEF PropagateMark, Becomes
  <1>2. /\ HeapTyped /\ obj \in Heaps
        /\ gray \in Seq(Memory) /\ again \in Seq(Memory) /\ weak \in Seq(Memory)
        /\ M \in Marks /\ M.obj = obj
    BY MarksIs DEF GCInv, HeapTyped
  <1>3. Propagate(M) = MarkAll(m, Strong(x))
    BY <1>1, <1>2, PropagateIs
  <1>4. o \in Memory /\ x \in Objects /\ Traverse(x) \in Objects /\ Same(x, Traverse(x))
    <2>1. o \in Memory
      BY <1>1, <1>2
    <2>2. x \in Objects
      BY <1>2, <2>1 DEF Heaps
    <2> HIDE DEF x, o
    <2> QED
      BY <2>1, <2>2, TraverseIs DEF Same
  <1>5. /\ O1 \in Heaps
        /\ \A p \in Memory : O1[p] = IF p = o THEN Traverse(x) ELSE obj[p]
    BY <1>2, <1>4 DEF Heaps
  <1>6. Tail(gray) \in Seq(Memory) /\ a1 \in Seq(Memory) /\ k1 \in Seq(Memory)
    <2>1. <<o>> \o again \in Seq(Memory) /\ <<o>> \o weak \in Seq(Memory)
      BY <1>2, <1>4, ConsList
    <2> QED
      BY <1>1, <1>2, <2>1 DEF AgainAfter, WeakAfter
  <1> HIDE DEF o, x, a1, k1
  <1>7. m.obj = O1
    BY <1>2 DEF M
  <1>8. m \in Marks
    <2>1. m = [M EXCEPT !.gray = Tail(gray), !.again = a1, !.weak = k1, !.obj[o] = Traverse(x)]
      OBVIOUS
    <2> HIDE DEF m
    <2> QED
      BY <1>2, <1>4, <1>6, <2>1, MarksTraverse
  <1> HIDE DEF m, O1
  <1>9. \A p \in Memory : Same(obj[p], O1[p])
    BY <1>4, <1>5, SameIs DEF x
  <1> QED
    BY <1>1, <1>3, <1>7, <1>8, <1>9, MarkAllSame, SameIs DEF Keeping

LEMMA RemarkSame ==
  ASSUME GCInv, RemarkUpvals \/ RemarkWeak \/ RemarkAgain
  PROVE  Keeping
  <1>1. /\ M \in Marks /\ M.obj = obj /\ weak \in Seq(Memory) /\ <<>> \in Seq(Memory)
    BY MarksIs DEF GCInv, HeapTyped
  <1>2. CASE RemarkUpvals
    <2> DEFINE S == {stack[obj[o].at] : o \in {u \in Opens(M) : obj[u].colour = "gray"}}
    <2>1. obj' = MarkAll(M, S).obj
      BY <1>2 DEF RemarkUpvals, Becomes
    <2> HIDE DEF S
    <2> QED
      BY <1>1, <2>1, MarkAllSame DEF Keeping
  <1>3. CASE RemarkWeak
    <2> DEFINE m == [M EXCEPT !.gray = weak, !.weak = <<>>]
    <2>1. obj' = MarkAll(m, {Main}).obj
      BY <1>3 DEF RemarkWeak, Becomes
    <2>2. m \in Marks
      BY <1>1, MarksGrayWeak
    <2>3. m.obj = obj
      BY <1>1 DEF Marks
    <2> HIDE DEF m
    <2> QED
      BY <2>1, <2>2, <2>3, MarkAllSame DEF Keeping
  <1>4. CASE RemarkAgain
    <2>1. obj' = obj
      BY <1>4 DEF RemarkAgain, Becomes, M
    <2> QED
      BY <2>1, SameIs DEF Keeping
  <1> QED
    BY <1>2, <1>3, <1>4

LEMMA SeparateSame ==
  ASSUME GCInv, Separate
  PROVE  Keeping
  <1> DEFINE waiting == tmudata \o ToFinalize
             O1 == [o \in Memory |->
                       [Separated(obj[o], o) EXCEPT
                           !.colour = IF o \in ToSet(waiting) THEN white ELSE @]]
             m  == [M EXCEPT !.obj = O1]
  <1>1. obj' = MarkAll(m, ToSet(waiting)).obj
    BY DEF Separate, Becomes
  <1>2. /\ M \in Marks /\ M.obj = obj /\ white \in Whites /\ obj \in Heaps
    BY MarksIs DEF GCInv, HeapTyped
  <1> HIDE DEF waiting
  <1>3. ASSUME NEW o \in Memory PROVE O1[o] \in Objects /\ Same(obj[o], O1[o])
    <2> DEFINE x == obj[o]
               y == Separated(x, o)
               c == IF o \in ToSet(waiting) THEN white ELSE y.colour
    <2>1. x \in Objects
      BY <1>2, <1>3 DEF Heaps
    <2>2. y = [x EXCEPT !.finalized = x.finalized \/ o \in Dying]
      BY DEF Separated
    <2>3. (x.finalized \/ o \in Dying) \in BOOLEAN
      OBVIOUS
    <2>4. O1[o] = [y EXCEPT !.colour = c]
      BY <1>3
    <2> HIDE DEF O1, x, y
    <2>5. /\ y \in Objects /\ y.kind = x.kind /\ y.key = x.key /\ y.val = x.val /\ y.at = x.at
          /\ y.colour = x.colour
      BY <2>1, <2>2, <2>3 DEF Objects
    <2>6. c \in Whites \union {"gray", "black"}
      BY <1>2, <2>5 DEF Objects
    <2> HIDE DEF c
    <2> DEFINE z == [y EXCEPT !.colour = c]
    <2>7. /\ z \in Objects /\ z.kind = y.kind /\ z.key = y.key /\ z.val = y.val /\ z.at = y.at
      BY <2>5, <2>6 DEF Objects
    <2>8. O1[o] = z
      BY <2>4
    <2> HIDE DEF z
    <2>9. z \in Objects /\ Same(x, z)
      BY <2>5, <2>7 DEF Same
    <2> QED
      BY <2>8, <2>9 DEF x
  <1>4. O1 \in Heaps
    <2>1. O1 = [o \in Memory |-> O1[o]]
      OBVIOUS
    <2> HIDE DEF O1
    <2> QED
      BY <1>3, <2>1 DEF Heaps
  <1> HIDE DEF O1
  <1>5. m.obj = O1 /\ m \in Marks
    BY <1>2, <1>4 DEF Marks
  <1> HIDE DEF m
  <1> QED
    BY <1>1, <1>3, <1>5, MarkAllSame, SameIs DEF Keeping

\* luaC_separateudata finds only what the program cannot reach.
LEMMA SeparateFinds ==
  ASSUME GCInv, phase = "remark again", gray = <<>>, NEW o \in ToSet(ToFinalize)
  PROVE  o \notin Reachable /\ HasGC(obj[o]) /\ ~obj[o].called
  <1>1. o \in Dying /\ HasGC(obj[o])
    BY ToFinalizeIs
  <1>2. /\ o \in Memory /\ IsUserdata(obj[o]) /\ obj[o].colour \in Whites /\ ~obj[o].finalized
    BY <1>1 DEF Dying, IsWhite, M
  <1>3. o \in Alloc(obj) /\ obj[o].kind # "string"
    BY <1>2 DEF Alloc, IsUserdata
  <1>4. AnyOf(obj)
    BY PhasesAre, MarkingIs
  <1>5. ~obj[o].called
    BY <1>2, <1>3, <1>4 DEF AnyOf
  <1>6. o \notin Reachable
    BY <1>2, <1>3, ReachableMarked
  <1> QED
    BY <1>1, <1>5, <1>6

\* A step of the program calls no finalizer.
LEMMA ProgramWaits ==
  ASSUME Program
  PROVE  tmudata' = tmudata
  <1>1. Operation
    BY DEF Program
  <1>2. ASSUME NEW i, \/ NewTable(i) \/ NewUserdata(i) \/ NewString(i)
                      \/ \E j \in 1..Slots : NewClosure(i, j)
                      \/ Clear(i) \/ GetTable(i) \/ GetUpval(i) \/ GetEnv(i)
        PROVE  tmudata' = tmudata
    <2>1. CASE NewTable(i) \/ NewUserdata(i) \/ NewString(i)
      BY <2>1 DEF NewTable, NewUserdata, NewString, Create
    <2>2. CASE \E j \in 1..Slots : NewClosure(i, j)
      BY <2>2, NewClosureIs
    <2>3. CASE Clear(i) \/ GetTable(i) \/ GetUpval(i) \/ GetEnv(i)
      BY Zenon, <2>3 DEF Clear, GetTable, GetUpval, GetEnv, Load
    <2> QED
      BY <1>2, <2>1, <2>2, <2>3
  <1>3. ASSUME NEW j, SetUpval(j) PROVE tmudata' = tmudata
    BY Zenon, <1>3 DEF SetUpval, Store
  <1>4. ASSUME NEW j, Leave(j) PROVE tmudata' = tmudata
    BY Zenon, <1>4 DEF Leave
  <1>5. NewEntry \/ SetEntry \/ SetEnv => tmudata' = tmudata
    BY Zenon DEF NewEntry, SetEntry, SetEnv, Store
  <1> QED
    BY <1>1, <1>2, <1>3, <1>4, <1>5 DEF Operation

LEMMA FinalizedStep ==
  ASSUME GCInv, [Next]_vars
  PROVE  \A o \in ToSet(tmudata') \ ToSet(tmudata) :
            o \notin Reachable /\ HasGC(obj[o]) /\ ~obj[o].called
  <1>1. CASE Separate
    <2>1. phase = "remark again" /\ gray = <<>> /\ tmudata' = tmudata \o ToFinalize
      BY <1>1 DEF Separate, AtomicStep
    <2>2. tmudata \in Seq(Memory)
      BY DEF GCInv, HeapTyped
    <2>3. ToSet(tmudata') = ToSet(tmudata) \union ToSet(ToFinalize)
      BY <2>1, <2>2, ToFinalizeIs, ConcatList
    <2> QED
      BY <2>1, <2>3, SeparateFinds
  <1>2. CASE CallFinalizer
    <2>1. tmudata # <<>> /\ tmudata' = Tail(tmudata) /\ tmudata \in Seq(Memory)
      BY <1>2 DEF CallFinalizer, GCInv, HeapTyped
    <2>2. ToSet(tmudata') \subseteq ToSet(tmudata)
      BY <2>1, RestOfList
    <2> QED
      BY <2>2
  <1>3. CASE ~Separate /\ ~CallFinalizer
    <2>1. tmudata' = tmudata
      <3>1. CASE Program
        BY <3>1, ProgramWaits
      <3>2. CASE Collect
        BY <1>3, <3>2 DEF Collect, MarkRoot, PropagateMark, RemarkUpvals, RemarkWeak,
           RemarkAgain, EndAtomic, SweepString, Sweep, EndCycle
      <3>3. CASE UNCHANGED vars
        BY <3>3 DEF vars
      <3> QED
        BY <3>1, <3>2, <3>3 DEF Next
    <2> QED
      BY <2>1
  <1> QED
    BY <1>1, <1>2, <1>3

\* A finalizer is called once, and only of what the program cannot reach.
THEOREM FinalizersOnce == Spec => FinalizedOnce
  <1>1. GCInv /\ [Next]_vars =>
           [\A o \in ToSet(tmudata') \ ToSet(tmudata) :
               o \notin Reachable /\ HasGC(obj[o]) /\ ~obj[o].called]_vars
    BY FinalizedStep
  <1> QED
    BY <1>1, GCInvariant, PTL DEF Spec, FinalizedOnce

-----------------------------------------------------------------------------
(* The collector is invisible.                                             *)

\* cleartable takes from a weak table only what nothing else keeps alive, or a
\* value whose finalizer is to be called.
LEMMA ClearedLoses ==
  ASSUME GCInv, EndAtomic, NEW o \in ToSet(weak), ClearedEntry(obj[o])
  PROVE  obj[o].kind \in Tables /\ Loses(o)
  <1> DEFINE x == obj[o]
  <1>1. /\ phase = "mark finalized" /\ gray = <<>> /\ obj' = ClearTables
    BY DEF EndAtomic, AtomicStep
  <1>2. phase \in Marking /\ phase \in Atomic
    BY <1>1, PhasesAre
  <1>3. /\ obj \in Heaps /\ weak \in Seq(Memory) /\ M.obj = obj
        /\ WeakOf(obj, weak) /\ RemarkedOf(obj, stack, phase, again, weak, tmudata)
    BY <1>2, MarkingIs DEF M
  <1>4. o \in Memory /\ x \in Objects /\ x.kind \in Tables \ {"table"}
    BY <1>3, ListIn DEF WeakOf, Heaps
  <1>5. NotWhite(obj, Keeps(x))
    BY <1>1, <1>3 DEF RemarkedOf, WeakMarked
  <1>6. WeakKey(x) \/ WeakValue(x)
    BY <1>4 DEF WeakKey, WeakValue, Tables
  <1>7. x.val # Nil /\ (IsCleared(M, x.key, TRUE) \/ IsCleared(M, x.val, FALSE))
    BY DEF ClearedEntry
  <1>8. x.key \in Values /\ x.val \in Values
    BY <1>4 DEF Objects
  <1>9. \A v \in Memory : obj[v].colour \in Whites /\ obj[v].kind # "string" => v \notin Reachable
    BY <1>1, ReachableMarked
  <1> HIDE DEF x
  <1>10. CASE IsCleared(M, x.key, TRUE)
    <2>1. x.key \in Memory /\ obj[x.key].kind # "string" /\ obj[x.key].colour \in Whites
      BY <1>3, <1>8, <1>10, MemoryIs DEF IsCleared, IsWhite
    <2>2. WeakKey(x)
      BY <1>4, <1>5, <1>7, <2>1 DEF Keeps, NotWhite, Tables
    <2> QED
      BY <1>4, <1>9, <2>1, <2>2 DEF Loses, x
  <1>11. CASE IsCleared(M, x.val, FALSE)
    <2>1. /\ x.val \in Memory /\ obj[x.val].kind # "string"
          /\ obj[x.val].colour \in Whites \/ obj[x.val].finalized
      BY <1>3, <1>8, <1>11, MemoryIs DEF IsCleared, IsWhite
    <2>2. CASE obj[x.val].colour \in Whites
      <3>1. WeakValue(x)
        BY <1>4, <1>5, <1>7, <2>1, <2>2 DEF Keeps, NotWhite, Tables
      <3> QED
        BY <1>4, <1>9, <2>1, <2>2, <3>1 DEF Loses, x
    <2>3. CASE obj[x.val].finalized
      <3>1. obj'[x.val].finalized
        BY <1>1, <1>3, <2>1, <2>3, ClearTablesIs
      <3> QED
        BY <1>4, <1>6, <2>1, <3>1 DEF Loses, x
    <2> QED
      BY <2>1, <2>2, <2>3
  <1> QED
    BY <1>7, <1>10, <1>11

LEMMA EndAtomicShows ==
  ASSUME GCInv, EndAtomic, NEW o \in Reachable
  PROVE  \/ Same(obj[o], obj'[o])
         \/ obj[o].kind \in Tables /\ obj'[o].val = Nil /\ Loses(o)
  <1>1. obj' = ClearTables /\ obj \in Heaps
    BY DEF EndAtomic, GCInv, HeapTyped
  <1>2. o \in Memory
    BY ReachableLive DEF LiveOf, Alloc
  <1>3. CASE o \in ToSet(weak) /\ ClearedEntry(obj[o])
    <2>1. obj'[o].val = Nil
      BY <1>1, <1>2, <1>3, ClearTablesIs
    <2> QED
      BY <1>3, <2>1, ClearedLoses
  <1>4. CASE ~(o \in ToSet(weak) /\ ClearedEntry(obj[o]))
    <2>1. Same(obj[o], obj'[o])
      BY <1>1, <1>2, <1>4, ClearTablesIs DEF Same
    <2> QED
      BY <2>1
  <1> QED
    BY <1>3, <1>4

\* The sweep frees nothing that can be reached.
LEMMA SweptShows ==
  ASSUME GCInv, NEW S \in SUBSET Memory, obj' = Swept(S), NEW o \in Reachable
  PROVE  Same(obj[o], obj'[o])
  <1>1. o \in Memory /\ obj[o].colour # Other(white)
    BY ReachableLive DEF LiveOf, Alloc
  <1>2. obj[o] \in Objects /\ M.obj = obj
    BY <1>1 DEF GCInv, HeapTyped, Heaps, M
  <1>3. obj'[o] = IF o \notin S THEN obj[o] ELSE [obj[o] EXCEPT !.colour = white]
    BY <1>1, <1>2 DEF Swept, IsDead
  <1>4. \A x \in Objects : Same(x, [x EXCEPT !.colour = white])
    BY DEF Objects, Same
  <1> QED
    BY <1>2, <1>3, <1>4, SameIs

LEMMA CalledShows ==
  ASSUME GCInv, CallFinalizer
  PROVE  Keeping /\ \A i \in 1..Slots : stack'[i] = stack[i]
  <1> DEFINE o == Head(tmudata)
  <1>1. /\ tmudata # <<>>
        /\ obj' = [obj EXCEPT ![o].colour = white, ![o].called = TRUE]
        /\ stack' = [stack EXCEPT ![Frame] = o]
    BY DEF CallFinalizer
  <1>2. obj \in Heaps /\ stack \in Stacks /\ tmudata \in Seq(Memory)
    BY DEF GCInv, HeapTyped
  <1>3. o \in Memory
    BY <1>1, <1>2, RestOfList
  <1> HIDE DEF o
  <1>4. \A i \in 1..Slots : stack'[i] = stack[i]
    BY <1>1, <1>2, MemoryIs DEF Stacks
  <1>5. obj' = [obj EXCEPT ![o] = [[obj[o] EXCEPT !.colour = white] EXCEPT !.called = TRUE]]
    BY <1>1, <1>2, <1>3 DEF Heaps
  <1>6. \A x \in Objects : Same(x, [[x EXCEPT !.colour = white] EXCEPT !.called = TRUE])
    <2>1. \A x \in Objects : Same(x, [x EXCEPT !.colour = white])
      BY DEF Objects, Same
    <2>2. ASSUME NEW x \in Objects
          PROVE  LET y == [x EXCEPT !.colour = white] IN Same(y, [y EXCEPT !.called = TRUE])
      BY DEF Objects, Same
    <2> QED
      BY <2>1, <2>2, SameIs
  <1>7. obj[o] \in Objects
    BY <1>2, <1>3 DEF Heaps
  <1>8. Keeping
    <2> DEFINE y == [[obj[o] EXCEPT !.colour = white] EXCEPT !.called = TRUE]
    <2>1. Same(obj[o], y)
      BY <1>6, <1>7
    <2> HIDE DEF y
    <2>2. \A p \in Memory : obj'[p] = IF p = o THEN y ELSE obj[p]
      BY <1>2, <1>5 DEF Heaps, y
    <2> QED
      BY <2>1, <2>2, SameIs DEF Keeping
  <1> QED
    BY <1>4, <1>8

LEMMA CollectShows ==
  ASSUME GCInv, Collect
  PROVE  /\ \A i \in 1..Slots : stack'[i] = stack[i]
         /\ \A o \in Reachable :
              \/ Same(obj[o], obj'[o])
              \/ obj[o].kind \in Tables /\ obj'[o].val = Nil /\ Loses(o)
  <1>1. Reachable \subseteq Memory
    BY ReachableLive DEF LiveOf, Alloc
  <1>2. Keeping => \A o \in Reachable : Same(obj[o], obj'[o])
    BY <1>1 DEF Keeping
  <1>3. CASE MarkRoot \/ PropagateMark \/ RemarkUpvals \/ RemarkWeak \/ RemarkAgain \/ Separate
    <2>1. Keeping
      BY <1>3, MarkRootSame, PropagateMarkSame, RemarkSame, SeparateSame
    <2>2. stack' = stack
      BY <1>3 DEF MarkRoot, PropagateMark, RemarkUpvals, RemarkWeak, RemarkAgain, Separate,
         AtomicStep
    <2> QED
      BY <1>2, <2>1, <2>2
  <1>4. CASE EndAtomic
    <2>1. stack' = stack
      BY <1>4 DEF EndAtomic, AtomicStep
    <2> QED
      BY <1>4, <2>1, EndAtomicShows
  <1>5. CASE SweepString
    <2> DEFINE S == {o \in Memory : obj[o].kind = "string"}
    <2>1. stack' = stack /\ obj' = Swept(S) /\ S \in SUBSET Memory
      BY <1>5 DEF SweepString
    <2> HIDE DEF S
    <2> QED
      BY <2>1, SweptShows
  <1>6. CASE Sweep
    <2>1. PICK o \in unswept : obj' = Swept({o} \union IF o = Main THEN Opens(M) ELSE {})
      BY <1>6 DEF Sweep
    <2> DEFINE S == {o} \union IF o = Main THEN Opens(M) ELSE {}
    <2>2. stack' = stack /\ obj' = Swept(S) /\ S \in SUBSET Memory
      BY <1>6, <2>1 DEF Sweep, GCInv, HeapTyped, Opens
    <2> HIDE DEF S
    <2> QED
      BY <2>2, SweptShows
  <1>7. CASE CallFinalizer
    BY <1>2, <1>7, CalledShows
  <1>8. CASE EndCycle
    <2>1. obj' = obj /\ stack' = stack
      BY <1>8 DEF EndCycle
    <2> QED
      BY <2>1, SameIs
  <1> QED
    BY <1>3, <1>4, <1>5, <1>6, <1>7, <1>8 DEF Collect

\* No step of the collector changes what the program can reach, but for weak
\* entries that nothing else keeps alive or whose finalizer was called.
THEOREM CollectorIsInvisible == Spec => CollectorInvisible
  <1>1. GCInv /\ [Next]_vars =>
           [Collect =>
              /\ \A i \in 1..Slots : stack'[i] = stack[i]
              /\ \A o \in Reachable :
                   \/ Same(obj[o], obj'[o])
                   \/ obj[o].kind \in Tables /\ obj'[o].val = Nil /\ Loses(o)]_vars
    BY CollectShows
  <1> QED
    BY <1>1, GCInvariant, PTL DEF Spec, CollectorInvisible
=============================================================================
