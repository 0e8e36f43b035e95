------------------------------ MODULE DasmX86 ------------------------------
(***************************************************************************)
(* The encoding engine of DynASM that the generated assembler of           *)
(* jitlib.dash calls, built with DASM_CHECKS: dasm_put stores the          *)
(* arguments of an action list and links the labels (pass 1), dasm_link    *)
(* puts the sections together (pass 2), dasm_encode writes the bytes       *)
(* (pass 3).                                                               *)
(*                                                                         *)
(* A position is a section and an index in its buffer, as one number; the  *)
(* buffer of a section is the sequence of the numbers stored in it.        *)
(***************************************************************************)
EXTENDS Integers, Sequences, FiniteSets, Bitwise

CONSTANTS
    ActionList,     \* the bytes the preprocessor wrote
    Families,       \* the sets of calls of dasm_put that are checked
    Calls(_),       \* the calls of a family, [start, args]
    Matches(_),     \* the sections dasm_checkstep is called for
    Most(_, _),        \* bound: calls between dasm_setup and dasm_link, of each round
    Rounds,         \* bound: uses of one state, by dasm_setup
    GrowTo,         \* the sizes the client asks of dasm_growpc
    MaxSection, MaxGlobals,
    MaxSecPos,      \* DASM_MAXSECPOS: positions one call may take
    Base, External(_)   \* where the code is, and the labels defined elsewhere

ASSUME SizesAssumption == MaxSection \in Nat \ {0} /\ MaxSecPos \in Nat \ {0} /\ MaxGlobals \in Nat

VARIABLES bufs, room, pos, ofs, section, labels, size, globals, status, code, phase, family, log, round

secvars == <<bufs, room, pos, ofs, section>>
vars    == <<secvars, labels, size, globals, status, code, phase, family, log, round>>

Names == <<"DISP", "IMM_S", "IMM_B", "IMM_W", "IMM_D", "IMM_WB", "IMM_DB", "VREG", "SPACE", "SETLABEL",
           "REL_A", "REL_LG", "REL_PC", "IMM_LG", "IMM_PC", "LABEL_LG", "LABEL_PC", "ALIGN", "EXTERN",
           "ESC", "MARK", "SECTION", "STOP">>
WithArg == {Names[i] : i \in 1 .. 11}       \* an int argument, one position
Placed  == {Names[i] : i \in 1 .. 18}       \* a position at least

Byte(p)   == ActionList[p + 1]
Action(p) == IF Byte(p) < 233 THEN "BYTE" ELSE Names[Byte(p) - 232]

SecPos    == 16777216
Pos(sec)  == sec * SecPos
Sec(n)    == n \div SecPos
Index(n)  == (n % SecPos) + 1
At(b, n)  == b[Sec(n)][Index(n)]
Put(b, n, v) == [b EXCEPT ![Sec(n)] = IF Index(n) > Len(@) THEN Append(@, v) ELSE [@ EXCEPT ![Index(n)] = v]]

Sections == 0 .. MaxSection - 1
Short(n) == n \in -128 .. 127
Zero(n)  == [i \in 0 .. n - 1 |-> 0]

\* The next size DASM_M_GROW gives an array of ints.
RECURSIVE Grown(_, _)
Grown(sz, need) ==
    IF sz >= need THEN sz ELSE IF sz < 4 THEN Grown(4, need) ELSE Grown(2 * sz, need)

-----------------------------------------------------------------------------
(* Pass 1. s is the state of a call: the actions left, its arguments, the   *)
(* position, the offset and the ModRM byte a displacement depends on.       *)

Fail(s, why) == [s EXCEPT !.status = why]
Advance(s, n) == [s EXCEPT !.p = @ + n]
Store(s, v) == [s EXCEPT !.bufs = Put(s.bufs, s.pos, v), !.pos = @ + 1]
Grow(s, n)  == [s EXCEPT !.ofs = @ + n]

\* The bytes of an argument n. A displacement of zero needs none, unless the
\* base is rbp or r13.
ArgSize(a, n, mrm) ==
    CASE a = "DISP" /\ n = 0 /\ mrm % 8 # 5 -> 0
      [] a \in {"DISP", "IMM_DB"} -> IF Short(n) THEN 1 ELSE 4
      [] a \in {"IMM_D", "REL_A"} -> 4
      [] a = "IMM_WB"             -> IF Short(n) THEN 1 ELSE 2
      [] a = "IMM_W"              -> 2
      [] a \in {"IMM_S", "IMM_B"} -> 1
      [] a = "SPACE"              -> n
      [] a = "SETLABEL"           -> 0

InRange(a, n) ==
    CASE a = "IMM_S"  -> Short(n)
      [] a = "IMM_B"  -> n \in 0 .. 255
      [] a = "IMM_W"  -> n \in 0 .. 65535
      [] a = "IMM_WB" -> Short(n) \/ n \in 0 .. 65535
      [] OTHER        -> TRUE

VReg_NoSib(s, n) ==
    LET t     == Byte(s.p)
        joins == (t \div 8) % 4
        drops == joins > 0 /\ \A j \in 1 .. joins : At(s.bufs, s.pos - j) <= 7
    IN [s EXCEPT !.p = @ + 1,
                 !.mrm = IF t < 64 /\ Action(s.p + 1) = "DISP" THEN n ELSE @,
                 !.ofs = @ - (IF drops THEN 1 ELSE 0),
                 !.bufs = IF drops THEN Put(@, s.pos - 1, n + 16) ELSE @]

\* A register chosen when the program runs: rsp and r12 as a base need a byte
\* more, and a prefix none of whose registers is above 7 is dropped.
VReg(s, n) ==
    LET t     == Byte(s.p)
        joins == (t \div 8) % 4
        drops == joins > 0 /\ \A j \in 1 .. joins : At(s.bufs, s.pos - j) <= 7
    IN IF n \notin 0 .. 15 \/ (n = 4 /\ t \div 32 = 2) THEN Fail(s, "RANGE_VREG")
       ELSE [s EXCEPT !.p = @ + 1,
                      !.mrm = IF t < 64 /\ Action(s.p + 1) = "DISP" THEN n ELSE @,
                      !.ofs = @ + (IF t < 32 /\ n % 8 = 4 THEN 1 ELSE 0) - (IF drops THEN 1 ELSE 0),
                      !.bufs = IF drops THEN Put(@, s.pos - 1, n + 16) ELSE @]

\* The argument is stored, and its size added up. p is past the action.
TakeArg(s, a) ==
    LET n   == Head(s.args)
        in  == [Store(s, n) EXCEPT !.args = Tail(@)]
        mrm == IF s.mrm < 0 /\ a = "DISP" THEN Byte(s.p - 2) ELSE s.mrm
        out == [Grow(in, ArgSize(a, n, mrm)) EXCEPT !.mrm = -1]
    IN CASE a = "VREG"        -> VReg(in, n)
         [] ~InRange(a, n)    -> Fail(in, "RANGE_I")
         [] a = "SPACE"       -> Advance(out, 1)
         [] a = "SETLABEL"    -> [out EXCEPT !.bufs = Put(@, s.pos - 1, -1073741824)]
         [] OTHER             -> out

\* The position of a label that exists is stored; else the reference joins the
\* chain that starts at the label.
Refer(s, kind, i, head, rel) ==
    LET linked == IF head < 0 THEN Store(s, -head)
                  ELSE [Store(s, head) EXCEPT !.labels[kind][i] = s.pos]
        grown  == Grow(linked, 4)
    IN IF rel THEN Store(grown, grown.ofs) ELSE grown

\* Forward references to a local label start a chain even if there is a label.
ReferLG(s, rel) ==
    LET n == Byte(s.p)
        t == Advance(s, 1)
    IN IF n > 246 THEN LET head == s.labels.lg[n - 246]
                       IN Refer(t, "lg", n - 246, IF head < 0 THEN 0 ELSE head, rel)
       ELSE IF n \notin DOMAIN s.labels.lg \/ (n < 10 /\ s.labels.lg[n] >= 0) THEN Fail(s, "RANGE_LG")
       ELSE Refer(t, "lg", n, s.labels.lg[n], rel)

ReferPC(s, rel) ==
    LET n == Head(s.args)
    IN IF n \notin DOMAIN s.labels.pc THEN Fail(s, "RANGE_PC")
       ELSE Refer([s EXCEPT !.args = Tail(@)], "pc", n, s.labels.pc[n], rel)

Collapse_First(b, n, v) == IF n <= 0 THEN b ELSE Put(b, n, v)

RECURSIVE Collapse(_, _, _)
Collapse(b, n, v) == IF n <= 0 THEN b ELSE Collapse(Put(b, n, v), At(b, n), v)

\* A label is defined: the references in its chain get its position.
Define(s, kind, i) ==
    LET t == [s EXCEPT !.bufs = Collapse(@, s.labels[kind][i], s.pos), !.labels[kind][i] = -s.pos]
    IN Store(t, s.ofs)

DefineLG(s) ==
    IF Byte(s.p) \notin DOMAIN s.labels.lg THEN Fail(s, "RANGE_LG")
    ELSE Define(Advance(s, 1), "lg", Byte(s.p))

DefinePC(s) ==
    IF Head(s.args) \notin DOMAIN s.labels.pc THEN Fail(s, "RANGE_PC")
    ELSE Define([s EXCEPT !.args = Tail(@)], "pc", Head(s.args))

\* Room for the largest padding.
PutAlign(s) == LET t == Grow(Advance(s, 1), Byte(s.p)) IN Store(t, t.ofs)

PutAction(s, a) ==
    CASE a = "BYTE"                  -> Grow(s, 1)
      [] a \in WithArg               -> TakeArg(s, a)
      [] a \in {"REL_LG", "IMM_LG"}  -> ReferLG(s, a = "REL_LG")
      [] a \in {"REL_PC", "IMM_PC"}  -> ReferPC(s, a = "REL_PC")
      [] a = "LABEL_LG"              -> DefineLG(s)
      [] a = "LABEL_PC"              -> DefinePC(s)
      [] a = "ALIGN"                 -> PutAlign(s)
      [] a = "EXTERN"                -> Grow(Advance(s, 2), 4)
      [] a = "ESC"                   -> Grow(Advance(s, 1), 1)
      [] a = "MARK"                  -> [s EXCEPT !.mrm = Byte(s.p - 2)]

RECURSIVE PutFrom(_)
PutFrom(s) ==
    LET a == Action(s.p)
        t == Advance(s, 1)
    IN IF s.status # "OK" \/ a = "STOP" THEN s
       ELSE IF a = "SECTION" THEN IF Byte(t.p) < MaxSection THEN [s EXCEPT !.next = Byte(t.p)]
                                  ELSE Fail(s, "RANGE_SEC")
       ELSE PutFrom(PutAction(t, a))

Room_Late(sec) == IF pos[sec] - Pos(sec) >= room[sec] THEN Grown(room[sec], room[sec] + 2 * MaxSecPos) ELSE room[sec]

\* A buffer is made larger before it may become full in this call.
Room(sec) ==
    IF pos[sec] - Pos(sec) >= room[sec] - MaxSecPos \/ room[sec] = 0
    THEN Grown(room[sec], room[sec] + 2 * MaxSecPos) ELSE room[sec]

-----------------------------------------------------------------------------
(* Pass 2. *)

RECURSIVE CollapseAll(_, _)
CollapseAll(b, i) ==
    IF i \notin DOMAIN labels.lg THEN b ELSE CollapseAll(Collapse(b, labels.lg[i], -i), i + 1)

\* s.p is -1 between two calls of dasm_put; p is past the action.
LinkAction(s, a) ==
    LET next(n, k) == [s EXCEPT !.p = @ + n, !.pos = @ + k]
    IN CASE a \in {"REL_LG", "REL_PC"} ->
                [next(IF a = "REL_LG" THEN 1 ELSE 0, 2) EXCEPT !.bufs = Put(@, s.pos + 1, 0)]
         [] a \in {"SPACE", "IMM_LG", "VREG"} -> next(1, 1)
         [] a \in {"LABEL_LG", "LABEL_PC"} ->
                [next(IF a = "LABEL_LG" THEN 1 ELSE 0, 1)
                    EXCEPT !.bufs = Put(@, s.pos, At(@, s.pos) + s.ofs)]
         [] a = "ALIGN"  -> [next(1, 1) EXCEPT !.ofs = @ - ((At(s.bufs, s.pos) + @) % (Byte(s.p) + 1))]
         [] a \in WithArg \cup {"IMM_PC"} -> next(0, 1)
         [] a = "EXTERN" -> next(2, 0)
         [] a = "ESC"    -> next(1, 0)
         [] a \in {"SECTION", "STOP"} -> [s EXCEPT !.p = -1]
         [] OTHER        -> s

RECURSIVE LinkFrom(_)
LinkFrom(s) ==
    IF s.p >= 0 THEN LinkFrom(LinkAction(Advance(s, 1), Action(s.p)))
    ELSE IF s.pos # pos[s.sec] THEN LinkFrom([s EXCEPT !.p = At(s.bufs, s.pos), !.pos = @ + 1])
    ELSE LET t == Grow(s, ofs[s.sec])
         IN IF s.sec + 1 = MaxSection THEN t
            ELSE LinkFrom([t EXCEPT !.sec = @ + 1, !.pos = Pos(s.sec + 1)])

-----------------------------------------------------------------------------
(* Pass 3. s.code is what is written; s.mark the place of a ModRM or SIB    *)
(* byte to change, none if -1.                                              *)

Emit(s, bytes) == [s EXCEPT !.code = @ \o bytes]
Dword(n)       == [i \in 1 .. 4 |-> (n \div 256^(i - 1)) % 256]
Word(n)        == <<n % 256, (n \div 256) % 256>>
Unmarked(s)    == [s EXCEPT !.mark = -1]
Here(s)        == Len(s.code)
Marked(s)      == IF s.mark = -1 THEN Here(s) ELSE s.mark
\* The address after the four bytes of a reference.
After(s)       == Base + Here(s) + 4

\* An immediate that fits a byte, or does not.
EncodeImm(s, n, wide) ==
    IF Short(n) THEN Emit(Unmarked([s EXCEPT !.code[Marked(s) - 1] = @ + 2]), <<n % 256>>)
    ELSE Emit(Unmarked(s), wide)

\* The two bits of ModRM that tell how long the displacement is.
EncodeDisp(s, n) ==
    LET at    == Marked(s)
        kept  == [s EXCEPT !.mark = IF Action(s.p) \in {"IMM_DB", "IMM_WB"} THEN at ELSE -1]
        modrm == s.code[at] % 8
        base  == IF modrm = 4 THEN s.code[at + 1] % 8 ELSE modrm
    IN IF n = 0 /\ base # 5 THEN [kept EXCEPT !.code[at] = @ - 128]
       ELSE IF Short(n) THEN Emit([kept EXCEPT !.code[at] = @ - 64], <<n % 256>>)
       ELSE Emit(kept, Dword(n))

\* The prefix without the byte that is not needed; a VEX prefix of three bytes
\* becomes one of two.
Dropped(c, ex) ==
    LET vex == [c EXCEPT ![ex] = 197, ![ex + 1] = (@ & 128) | c[ex + 2]]
    IN IF c[ex] >= 128 THEN SubSeq(vex, 1, ex + 1) \o SubSeq(vex, ex + 3, Len(c))
       ELSE SubSeq(c, 1, ex - 1) \o SubSeq(c, ex + 1, Len(c))

EncodeVReg(s, n) ==
    LET t    == Byte(s.p)
        ex   == Here(s) - (t % 8) + 1
        bit  == t \div 64
        high == (n & 8) # 0 /\ t < 160
        drop == ~high /\ (n & 16) # 0
        c == CASE high /\ s.code[ex] >= 128 -> [s.code EXCEPT ![ex + 1] = @ ^^ (32 * 2^bit)]
               [] high -> [s.code EXCEPT ![ex] = @ ^^ (2^bit)]
               [] drop -> Dropped(s.code, ex)
               [] OTHER -> s.code
        r   == IF high \/ drop THEN n % 8 ELSE n
        out == [s EXCEPT !.p = @ + 1, !.code = c, !.mark = IF drop /\ @ # -1 THEN @ - 1 ELSE @]
        put(v) == [out EXCEPT !.code[Here(out)] = @ ^^ v]
    IN CASE t >= 192 -> put(16 * r)
         [] t >= 64 /\ t < 192 -> put(8 * r)
         [] r = 4 /\ t < 32 -> [Emit(put(4), <<32>>) EXCEPT !.code[Here(out) + 1] = @ ^^ 4]
         [] OTHER -> put(r)

\* What a reference says: where a label of the code is, one of another module,
\* or a label set to an address.
EncodeRel(s, n) ==
    LET label == At(bufs, n)
    IN Emit(s, Dword(IF label < 0 THEN At(bufs, n + 1) - After(s) ELSE label - (Here(s) + 4)))

EncodeAbs(s, n) ==
    LET label == At(bufs, n)
    IN Emit(s, Dword(IF label < 0 THEN At(bufs, n + 1) ELSE label + Base))

\* s.b is past the position of the action, p past the action.
EncodeAction(s, a, n) ==
    CASE a = "BYTE"   -> Emit(s, <<Byte(s.p - 1)>>)
      [] a = "ESC"    -> Emit(Advance(s, 1), <<Byte(s.p)>>)
      [] a = "MARK"   -> [s EXCEPT !.mark = Here(s)]
      [] a = "DISP"   -> EncodeDisp(s, n)
      [] a \in {"IMM_S", "IMM_B"} -> Emit(s, <<n % 256>>)
      [] a = "IMM_D"  -> Emit(s, Dword(n))
      [] a = "IMM_W"  -> Emit(s, Word(n))
      [] a = "IMM_DB" -> EncodeImm(s, n, Dword(n))
      [] a = "IMM_WB" -> EncodeImm(s, n, Word(n))
      [] a = "VREG"   -> EncodeVReg(s, n)
      [] a = "REL_A"  -> Emit(s, Dword(n - After(s)))
      [] a = "REL_PC" -> EncodeRel([s EXCEPT !.b = @ + 1], n)
      [] a = "REL_LG" -> LET t == [Advance(s, 1) EXCEPT !.b = @ + 1]
                         IN IF n >= 0 THEN EncodeRel(t, n) ELSE Emit(t, Dword(s.globals[-n] - After(s)))
      [] a = "IMM_LG" -> LET t == Advance(s, 1)
                         IN IF n >= 0 THEN EncodeAbs(t, n) ELSE Emit(t, Dword(s.globals[-n]))
      [] a = "IMM_PC" -> EncodeAbs(s, n)
      [] a = "LABEL_LG" -> IF Byte(s.p) < 10 THEN Advance(s, 1)
                           ELSE [Advance(s, 1) EXCEPT !.globals[Byte(s.p)] =
                                    Base + IF Action(s.p + 1) = "SETLABEL" THEN At(bufs, s.b) ELSE n]
      [] a \in {"LABEL_PC", "SETLABEL"} -> s
      [] a = "SPACE"  -> Emit(Advance(s, 1), [i \in 1 .. n |-> Byte(s.p)])
      [] a = "ALIGN"  -> Emit(Advance(s, 1), [i \in 1 .. (-Here(s)) % (Byte(s.p) + 1) |-> 144])
      [] a = "EXTERN" -> Emit(Advance(s, 2), Dword(0))

RECURSIVE EncodeFrom(_)
EncodeFrom(s) ==
    IF s.p >= 0
    THEN LET a == Action(s.p)
             t == IF a \in Placed THEN [Advance(s, 1) EXCEPT !.b = @ + 1] ELSE Advance(s, 1)
         IN IF a \in {"SECTION", "STOP"} THEN EncodeFrom([s EXCEPT !.p = -1])
            ELSE EncodeFrom(EncodeAction(t, a, IF a \in Placed THEN At(bufs, s.b) ELSE 0))
    ELSE IF s.b # pos[s.sec] THEN EncodeFrom([Unmarked(s) EXCEPT !.p = At(bufs, s.b), !.b = @ + 1])
    ELSE IF s.sec + 1 = MaxSection THEN s
    ELSE EncodeFrom([s EXCEPT !.sec = @ + 1, !.b = Pos(s.sec + 1)])

-----------------------------------------------------------------------------
(* The calls. *)

Init ==
    /\ bufs = [i \in Sections |-> <<>>]
    /\ room = [i \in Sections |-> 0]
    /\ pos = [i \in Sections |-> Pos(i)]
    /\ ofs = [i \in Sections |-> 0]
    /\ section = 0
    /\ labels = [lg |-> Zero(Grown(0, 10 + MaxGlobals)), pc |-> <<>>]
    /\ globals = [i \in 10 .. 9 + MaxGlobals |-> External(i)]
    /\ status = "OK" /\ size = 0 /\ code = <<>> /\ log = <<>>
    /\ phase = "ready" /\ round = 0
    /\ family \in Families

PCSize == Cardinality(DOMAIN labels.pc)

\* dasm_growpc, before or after dasm_setup: the labels there are stay.
GrowPC(n) ==
    /\ phase \in {"ready", "putting"}
    /\ PCSize < n
    /\ LET len == PCSize
       IN labels' = [labels EXCEPT !.pc = [i \in 0 .. Grown(len, n) - 1 |-> IF i < len THEN @[i] ELSE 0]]
    /\ UNCHANGED <<secvars, size, globals, status, code, phase, family, log, round>>

\* dasm_setup makes the state ready for other code; the buffers stay.
Setup ==
    /\ phase \in {"ready", "encoded"}
    /\ round < Rounds
    /\ round' = round + 1
    /\ phase' = "putting"
    /\ status' = "OK" /\ section' = 0 /\ log' = <<>> /\ code' = <<>> /\ size' = 0
    /\ labels' = [k \in DOMAIN labels |-> [i \in DOMAIN labels[k] |-> 0]]
    /\ bufs' = [i \in Sections |-> <<>>]
    /\ pos' = [i \in Sections |-> Pos(i)]
    /\ ofs' = [i \in Sections |-> 0]
    /\ UNCHANGED <<room, globals, family>>

\* dasm_put. A call that fails stores nothing that counts, but what it did to
\* the labels stays; the client ends then.
CallPut(call) ==
    /\ phase = "putting" /\ status = "OK"
    /\ Len(log) < Most(family, round)
    /\ LET sec == section
           s0  == [p |-> call.start, args |-> call.args, pos |-> pos[sec], ofs |-> ofs[sec], mrm |-> -1,
                   bufs |-> bufs, labels |-> labels, next |-> sec, status |-> "OK"]
           s   == PutFrom(Store(s0, call.start))
       IN /\ room' = [room EXCEPT ![sec] = Room(sec)]
          /\ bufs' = s.bufs /\ labels' = s.labels /\ status' = s.status
          /\ IF s.status = "OK"
             THEN /\ pos' = [pos EXCEPT ![sec] = s.pos]
                  /\ ofs' = [ofs EXCEPT ![sec] = s.ofs]
                  /\ section' = s.next
                  /\ log' = Append(log, call)
             ELSE UNCHANGED <<pos, ofs, section, log>>
    /\ UNCHANGED <<size, globals, code, phase, family, round>>

\* dasm_checkstep: no local label is left undefined, and those there are end.
CheckStep(match) ==
    /\ phase = "putting" /\ status = "OK"
    /\ Len(log) < Most(family, round)
    /\ LET undefined == {i \in 1 .. 9 : labels.lg[i] > 0}
           ended == {i \in 1 .. 9 : \A j \in undefined : i < j}
       IN /\ labels' = [labels EXCEPT !.lg = [i \in DOMAIN @ |-> IF i \in ended THEN 0 ELSE @[i]]]
          /\ status' = IF undefined # {} THEN "UNDEF_L"
                       ELSE IF match >= 0 /\ section # match THEN "MATCH_SEC" ELSE "OK"
    /\ log' = Append(log, [start |-> -1, args |-> <<>>])
    /\ UNCHANGED <<secvars, size, globals, code, phase, family, round>>

\* dasm_link, by a client that left no local label undefined.
Link ==
    /\ phase = "putting"
    /\ \A i \in 1 .. 9 : labels.lg[i] <= 0
    /\ LET undefined == {i \in DOMAIN labels.pc : labels.pc[i] > 0}
           s == LinkFrom([p |-> -1, pos |-> 0, ofs |-> 0, sec |-> 0, bufs |-> CollapseAll(bufs, 10)])
       IN IF status # "OK" THEN phase' = "refused" /\ UNCHANGED <<bufs, size, status>>
          ELSE IF undefined # {} THEN phase' = "refused" /\ status' = "UNDEF_PC" /\ UNCHANGED <<bufs, size>>
          ELSE phase' = "linked" /\ bufs' = s.bufs /\ size' = s.ofs /\ UNCHANGED status
    /\ UNCHANGED <<room, pos, ofs, section, labels, globals, code, family, log, round>>

\* dasm_encode; the error is that the passes do not agree on the size.
Encode ==
    /\ phase = "linked"
    /\ LET s == EncodeFrom([p |-> -1, b |-> 0, sec |-> 0, code |-> <<>>, mark |-> -1, globals |-> globals])
       IN /\ code' = s.code /\ globals' = s.globals
          /\ status' = IF Here(s) = size THEN "OK" ELSE "PHASE"
    /\ phase' = "encoded"
    /\ UNCHANGED <<secvars, labels, size, family, log, round>>

\* dasm_getpclabel
GetPCLabel(n) ==
    IF n \notin DOMAIN labels.pc THEN -2
    ELSE IF labels.pc[n] < 0 THEN At(bufs, -labels.pc[n]) ELSE IF labels.pc[n] > 0 THEN -1 ELSE -2

\* dasm_free, when the client likes; the code it wrote stays.
Free ==
    /\ phase # "freed"
    /\ phase' = "freed"
    /\ bufs' = [i \in Sections |-> <<>>]
    /\ room' = [i \in Sections |-> 0]
    /\ pos' = [i \in Sections |-> Pos(i)]
    /\ ofs' = [i \in Sections |-> 0]
    /\ labels' = [lg |-> <<>>, pc |-> <<>>]
    /\ section' = 0 /\ size' = 0 /\ log' = <<>> /\ status' = "OK"
    /\ UNCHANGED <<globals, code, family, round>>

Freed == phase = "freed" /\ UNCHANGED vars

Next ==
    \/ Setup
    \/ \E n \in GrowTo : GrowPC(n)
    \/ \E call \in Calls(family) : CallPut(call)
    \/ \E match \in Matches(family) : CheckStep(match)
    \/ Link
    \/ Encode
    \/ Free
    \/ Freed

Spec == Init /\ [][Next]_vars
=============================================================================
