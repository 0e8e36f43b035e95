-------------------------- MODULE MapTable_proofs --------------------------
(***************************************************************************)
(* Theorems about MapTable, for any number of threads, keys, tables and    *)
(* slots.                                                                  *)
(***************************************************************************)
EXTENDS MapTable, TLAPS

-----------------------------------------------------------------------------
(***************************************************************************)
(* Type correctness.  A step of a thread changes the locals of that thread *)
(* only, so each action needs three facts: the tables stay typed, and the  *)
(* thread's locals do and are consistent with where the thread is.         *)
(***************************************************************************)
SameLocals(t2) ==
    /\ pc'[t2] = pc[t2] /\ call'[t2] = call[t2] /\ top'[t2] = top[t2]
    /\ mv'[t2] = mv[t2] /\ pm'[t2] = pm[t2] /\ scan'[t2] = scan[t2]
    /\ ret'[t2] = ret[t2]

LocalStep(th) ==
    /\ LocalsTyped'
    /\ FrameInUse(th)'
    /\ \A t2 \in Threads \ {th} : SameLocals(t2)

TypedStep(th) == TypeOK' /\ LocalStep(th)

LEMMA StepTyped ==
  ASSUME TypeOK, NEW th \in Threads, TablesTyped', LocalStep(th)
  PROVE  TypedStep(th)
  <1>1. ASSUME NEW t2 \in Threads \ {th} PROVE FrameInUse(t2)'
    BY DEF LocalStep, SameLocals, TypeOK, FrameInUse, Moving, Putting, Scanning,
           AtSlot, InPutIfMatch
  <1> QED
    BY <1>1 DEF TypeOK, LocalStep, TypedStep

LEMMA LabelsTyped ==
    /\ {"idle", "load_latest", "load_prev", "reload", "exit",
        "mv_claim", "mv_key", "mv_prime", "mv_done", "mv_detach",
        "rl_val", "rl_key", "get_val", "get_key"} \subseteq Labels
    /\ PutLabels \subseteq Labels
    /\ Asserts \subseteq Labels
  BY DEF Labels

\* The records of a thread that is not in a call.
LEMMA NoneTyped ==
    /\ Empty \in Word /\ NoCall \in CallType /\ NoTop \in TopType
    /\ NoMove \in MoveType /\ NoFrame \in FrameType /\ NoScan \in ScanType
  BY SizeAssumption
  DEF Empty, Plain, Word, Content, NoCall, CallType, OpNames, NoTop, TopType, MaybeTable,
      Tables, NoMove, MoveType, NoFrame, FrameType, NoScan, ScanType

LEMMA PlainTyped == \A x \in Content : Plain(x) \in Word
  BY DEF Plain, Word

\* The types of the fields of a thread's records.
LEMMA Fields ==
  ASSUME LocalsTyped, NEW th \in Threads
  PROVE  /\ call[th].op \in OpNames
         /\ call[th].key \in Keys \union {NULL} /\ call[th].val \in Content
         /\ top[th].latest \in Tables /\ top[th].prev \in MaybeTable
         /\ mv[th].old \in Nat /\ mv[th].i \in Nat /\ mv[th].new \in Nat
         /\ mv[th].k \in Keys \union {NULL}
         /\ pm[th].latest \in Tables /\ pm[th].prev \in MaybeTable
         /\ pm[th].key \in Keys \union {NULL} /\ pm[th].val \in Content
         /\ pm[th].i \in Nat /\ pm[th].v \in Word /\ pm[th].mover \in BOOLEAN
         /\ scan[th].table \in Tables /\ scan[th].key \in Keys \union {NULL}
         /\ scan[th].i \in Nat /\ scan[th].v \in Word
  <1>1. /\ call[th] \in CallType /\ top[th] \in TopType /\ mv[th] \in MoveType
        /\ pm[th] \in FrameType /\ scan[th] \in ScanType
    BY DEF LocalsTyped
  <1> QED
    BY <1>1 DEF CallType, TopType, MoveType, FrameType, ScanType

LEMMA HomeSlot ==
  ASSUME NEW k \in Keys, NEW t \in Tables
  PROVE  Home[k][t] \in Slots(t) /\ Home[k][t] \in Nat
  BY SizeAssumption DEF Slots

LEMMA NextSlotTyped ==
  ASSUME NEW t \in Tables, NEW i \in Slots(t)
  PROVE  NextSlot(t, i) \in Slots(t) /\ NextSlot(t, i) \in Nat
  <1>1. Cap[t] \in Nat /\ Cap[t] > 0
    BY SizeAssumption
  <1> QED
    BY <1>1 DEF NextSlot, Slots

LEMMA InitTyped == Init => TypeOK
  <1> SUFFICES ASSUME Init PROVE TypeOK
    OBVIOUS
  <1>1. TablesTyped
    BY SizeAssumption, NoneTyped DEF Init, TablesTyped, Tables, MaybeTable
  <1>2. LocalsTyped
    BY NoneTyped, LabelsTyped DEF Init, LocalsTyped
  <1>3. \A th \in Threads : FrameInUse(th)
    BY DEF Init, FrameInUse, Moving, Putting, Scanning, AtSlot, InPutIfMatch, PutLabels,
           NoFrame
  <1> QED
    BY <1>1, <1>2, <1>3 DEF TypeOK

\* A write to a slot's value or key keeps the tables typed.
LEMMA ValWritten ==
  ASSUME TablesTyped, NEW t \in Tables, NEW s \in Slots(t), NEW w \in Word,
         val' = [val EXCEPT ![t][s] = w],
         UNCHANGED <<chain, key, count, chunks>>
  PROVE  TablesTyped'
  <1>1. \A u \in Tables : val'[u] = IF u = t THEN [val[t] EXCEPT ![s] = w] ELSE val[u]
    BY DEF TablesTyped
  <1>2. \A u \in Tables : val'[u] \in [Slots(u) -> Word]
    BY <1>1 DEF TablesTyped
  <1> QED
    BY <1>2 DEF TablesTyped, chain, chunks

LEMMA KeyWritten ==
  ASSUME TablesTyped, NEW t \in Tables, NEW s \in Slots(t), NEW k \in Keys,
         key' = [key EXCEPT ![t][s] = k],
         UNCHANGED <<chain, val, count, chunks>>
  PROVE  TablesTyped'
  <1>1. \A u \in Tables : key'[u] = IF u = t THEN [key[t] EXCEPT ![s] = k] ELSE key[u]
    BY DEF TablesTyped
  <1>2. \A u \in Tables : key'[u] \in [Slots(u) -> Keys \union {NULL}]
    BY <1>1 DEF TablesTyped
  <1> QED
    BY <1>2 DEF TablesTyped, chain, chunks

\* What the operators that end in a jump do to the locals of their thread.
LEMMA ReturnTyped ==
  ASSUME TypeOK, NEW th \in Threads, NEW w \in Word, pc[th] # "idle",
         Return(th, w), UNCHANGED call
  PROVE  LocalStep(th)
  <1>1. LocalsTyped'
    BY NoneTyped, LabelsTyped DEF TypeOK, LocalsTyped, Return, Goto
  <1>2. pc'[th] = "exit" /\ pm'[th] = NoFrame /\ call' = call
    BY DEF TypeOK, LocalsTyped, Return, Goto
  <1>3. FrameInUse(th)'
    BY <1>2 DEF TypeOK, FrameInUse, Moving, Putting, Scanning, AtSlot, InPutIfMatch, PutLabels,
           NoFrame
  <1>4. \A t2 \in Threads \ {th} : SameLocals(t2)
    BY DEF TypeOK, LocalsTyped, Return, Goto, SameLocals
  <1> QED
    BY <1>1, <1>3, <1>4 DEF LocalStep

LEMMA CallPutIfMatchTyped ==
  ASSUME TypeOK, NEW th \in Threads, pc[th] # "idle",
         NEW l \in Tables, NEW p \in MaybeTable, NEW k \in Keys,
         NEW v \in Content \ {NULL}, NEW m \in BOOLEAN,
         CallPutIfMatch(th, l, p, k, v, m),
         UNCHANGED <<call, scan, ret>>,
         m => UNCHANGED <<top, mv>> /\ Moving(th),
         top' \in [Threads -> TopType], mv' \in [Threads -> MoveType],
         \A t2 \in Threads \ {th} : top'[t2] = top[t2] /\ mv'[t2] = mv[t2]
  PROVE  LocalStep(th)
  <1> DEFINE f == [latest |-> l, prev |-> p, key |-> k, val |-> v,
                   i |-> 0, v |-> Empty, mover |-> m]
  <1>1. f \in FrameType
    BY NoneTyped DEF FrameType
  <1>2. pc'[th] = "pm_top" /\ pm'[th] = f
    BY DEF TypeOK, LocalsTyped, CallPutIfMatch, Goto
  <1>3. LocalsTyped'
    BY <1>1, LabelsTyped DEF TypeOK, LocalsTyped, CallPutIfMatch, Goto, PutLabels
  <1>4. FrameInUse(th)'
    BY <1>2 DEF TypeOK, FrameInUse, Moving, Putting, Scanning, AtSlot, InPutIfMatch, PutLabels
  <1>5. \A t2 \in Threads \ {th} : SameLocals(t2)
    BY DEF TypeOK, LocalsTyped, CallPutIfMatch, Goto, SameLocals
  <1> QED
    BY <1>3, <1>4, <1>5 DEF LocalStep

LEMMA ServeTyped ==
  ASSUME TypeOK, NEW th \in Threads, pc[th] \notin {"idle", "exit"}, pm[th] = NoFrame,
         NEW l \in Tables, NEW p \in MaybeTable, Serve(th, l, p),
         UNCHANGED <<call, ret>>,
         top' \in [Threads -> TopType], mv' \in [Threads -> MoveType],
         \A t2 \in Threads \ {th} : top'[t2] = top[t2] /\ mv'[t2] = mv[t2]
  PROVE  LocalStep(th)
  <1>1. /\ call[th].op \in OpNames /\ call[th].key \in Keys /\ call[th].val \in Content
        /\ call[th].op \in {"put", "remove"} => call[th].val # NULL
    BY Fields DEF TypeOK, FrameInUse
  <1>2. CASE /\ call[th].op \in {"put", "remove"}
             /\ CallPutIfMatch(th, l, p, call[th].key, call[th].val, FALSE)
             /\ UNCHANGED scan
    BY <1>1, <1>2, CallPutIfMatchTyped
  <1>3. CASE /\ call[th].op = "get"
             /\ Goto(th, "get_val")
             /\ scan' = [scan EXCEPT ![th] = Probe(l, call[th].key, call[th].key)]
             /\ UNCHANGED pm
    <2>1. /\ Probe(l, call[th].key, call[th].key) \in ScanType
          /\ Home[call[th].key][l] \in Slots(l)
      BY <1>1, NoneTyped, HomeSlot DEF Probe, ScanType
    <2>2. LocalsTyped'
      BY <1>3, <2>1, LabelsTyped DEF TypeOK, LocalsTyped, Goto
    <2>3. /\ pc'[th] = "get_val" /\ pm'[th] = NoFrame /\ call'[th] = call[th]
          /\ scan'[th] = Probe(l, call[th].key, call[th].key)
      BY <1>3 DEF TypeOK, LocalsTyped, Goto
    <2>4. FrameInUse(th)'
      BY <1>1, <2>1, <2>3
      DEF FrameInUse, Moving, Putting, Scanning, AtSlot, InPutIfMatch, PutLabels, NoFrame, Probe
    <2>5. \A t2 \in Threads \ {th} : SameLocals(t2)
      BY <1>3 DEF TypeOK, LocalsTyped, Goto, SameLocals
    <2> QED
      BY <2>2, <2>4, <2>5 DEF LocalStep
  <1>4. CASE /\ call[th].op = "resize_barrier"
             /\ Goto(th, "load_prev")
             /\ UNCHANGED <<pm, scan>>
    <2>1. LocalsTyped'
      BY <1>4, LabelsTyped DEF TypeOK, LocalsTyped, Goto
    <2>2. pc'[th] = "load_prev" /\ pm'[th] = NoFrame /\ call'[th] = call[th]
      BY <1>4 DEF TypeOK, LocalsTyped, Goto
    <2>3. FrameInUse(th)'
      BY <1>1, <2>2
      DEF FrameInUse, Moving, Putting, Scanning, AtSlot, InPutIfMatch, PutLabels, NoFrame
    <2>4. \A t2 \in Threads \ {th} : SameLocals(t2)
      BY <1>4 DEF TypeOK, LocalsTyped, Goto, SameLocals
    <2> QED
      BY <2>1, <2>3, <2>4 DEF LocalStep
  <1> QED
    BY <1>2, <1>3, <1>4 DEF Serve

LEMMA MvAdvanceTyped ==
  ASSUME TypeOK, NEW th \in Threads, Moving(th), pc[th] # "idle",
         MvAdvance(th), pm' \in [Threads -> FrameType], pm'[th] = NoFrame,
         \A t2 \in Threads \ {th} : pm'[t2] = pm[t2],
         UNCHANGED <<call, top, scan, ret>>
  PROVE  LocalStep(th)
  <1>1. /\ mv[th].old \in Nat /\ mv[th].i \in Nat /\ mv[th].new \in Nat
        /\ mv[th].old <= mv[th].i /\ mv[th].i < mv[th].new
        /\ mv[th].new <= Cap[top[th].prev] /\ top[th].prev \in Tables
    BY Fields DEF TypeOK, FrameInUse
  <1> DEFINE m == Chunk(mv[th].old, mv[th].i + 1, mv[th].new)
  <1>2. m \in MoveType /\ m.i = mv[th].i + 1 /\ m.old = mv[th].old /\ m.new = mv[th].new
    BY <1>1 DEF Chunk, MoveType
  <1>3. /\ mv' = [mv EXCEPT ![th] = m]
        /\ pc' = [pc EXCEPT ![th] = IF mv[th].i + 1 < mv[th].new THEN "mv_key" ELSE "mv_done"]
    BY DEF MvAdvance, Goto, TypeOK, LocalsTyped
  <1> HIDE DEF m
  <1>4. LocalsTyped'
    BY <1>2, <1>3, LabelsTyped DEF TypeOK, LocalsTyped
  <1>5. /\ mv'[th] = m /\ top'[th] = top[th] /\ call'[th] = call[th]
        /\ pc'[th] = IF mv[th].i + 1 < mv[th].new THEN "mv_key" ELSE "mv_done"
    BY <1>3 DEF TypeOK, LocalsTyped
  <1>6. FrameInUse(th)'
    BY <1>1, <1>2, <1>5
    DEF TypeOK, FrameInUse, Moving, Putting, Scanning, AtSlot, InPutIfMatch, PutLabels, NoFrame
  <1>7. \A t2 \in Threads \ {th} : SameLocals(t2)
    BY <1>3 DEF TypeOK, LocalsTyped, SameLocals
  <1> QED
    BY <1>4, <1>6, <1>7 DEF LocalStep

LEMMA PmReturnTyped ==
  ASSUME TypeOK, NEW th \in Threads, pc[th] \in PutLabels, NEW w \in Word,
         PmReturn(th, w), UNCHANGED call
  PROVE  LocalStep(th)
  <1>1. pc[th] # "idle"
    BY DEF PutLabels
  <1>2. CASE pm[th].mover
    <2>1. pm' = [pm EXCEPT ![th] = NoFrame]
      BY <1>2 DEF PmReturn
    <2>2. pm' \in [Threads -> FrameType] /\ pm'[th] = NoFrame
      BY <2>1, NoneTyped DEF TypeOK, LocalsTyped
    <2>3. \A t2 \in Threads \ {th} : pm'[t2] = pm[t2]
      BY <2>1 DEF TypeOK, LocalsTyped
    <2>4. Moving(th) /\ MvAdvance(th) /\ UNCHANGED <<call, top, scan, ret>>
      BY <1>2 DEF PmReturn, Moving
    <2> QED
      BY <1>1, <2>2, <2>3, <2>4, MvAdvanceTyped
  <1>3. CASE ~pm[th].mover
    BY <1>1, <1>3, ReturnTyped DEF PmReturn
  <1> QED
    BY <1>2, <1>3

\* A jump within put_if_match, or to the raw_lookup it calls.
LEMMA PmJump ==
  ASSUME TypeOK, NEW th \in Threads, pc[th] \in PutLabels,
         NEW label \in PutLabels \union {"rl_val"} \union Asserts, Goto(th, label),
         pm' \in [Threads -> FrameType], scan' \in [Threads -> ScanType],
         \A t2 \in Threads \ {th} : pm'[t2] = pm[t2] /\ scan'[t2] = scan[t2],
         /\ pm'[th].key = pm[th].key /\ pm'[th].val = pm[th].val
         /\ pm'[th].mover = pm[th].mover,
         label \in (PutLabels \union {"rl_val"}) \ {"pm_top", "pm_latest", "pm_prev"} =>
            pm'[th].i \in Slots(pm'[th].latest),
         label = "rl_val" => scan'[th].i \in Slots(scan'[th].table),
         UNCHANGED <<call, top, mv, ret>>
  PROVE  LocalStep(th)
  <1>1. LocalsTyped'
    BY LabelsTyped DEF TypeOK, LocalsTyped, Goto
  <1>2. /\ pc'[th] = label /\ call'[th] = call[th] /\ top'[th] = top[th]
        /\ mv'[th] = mv[th] /\ FrameInUse(th)
    BY DEF TypeOK, LocalsTyped, Goto
  <1>3. pc[th] \notin {"idle", "mv_key", "mv_prime"} /\ Putting(th)
    BY DEF PutLabels, Putting
  <1>4. label \notin {"idle", "mv_key", "mv_prime", "mv_claim", "mv_done", "mv_detach",
                      "rl_key", "get_val", "get_key"}
    BY DEF PutLabels, Asserts
  <1>5. FrameInUse(th)'
    BY <1>2, <1>3, <1>4 DEF FrameInUse, Moving, Putting, Scanning, AtSlot, InPutIfMatch
  <1>6. \A t2 \in Threads \ {th} : SameLocals(t2)
    BY DEF TypeOK, LocalsTyped, Goto, SameLocals
  <1> QED
    BY <1>1, <1>5, <1>6 DEF LocalStep

\* The actions, one by one.
LEMMA BeginTyped ==
  ASSUME TypeOK, NEW th \in Threads, Begin(th)
  PROVE  TypedStep(th)
  <1>1. PICK c \in Calls[th] : call' = [call EXCEPT ![th] = c]
    BY DEF Begin
  <1>2. /\ c \in CallType /\ c.key \in Keys
        /\ c.op \in {"put", "remove"} => c.val # NULL
    <2>1. Calls[th] \subseteq [op : OpNames, key : Keys, val : Content]
      BY CallAssumption
    <2>2. c \in [op : OpNames, key : Keys, val : Content]
      BY <2>1
    <2> QED
      BY <2>2, CallAssumption DEF CallType
  <1>3. LocalsTyped'
    BY <1>1, <1>2, LabelsTyped DEF TypeOK, LocalsTyped, Begin, Goto
  <1>4. pm[th] = NoFrame
    BY DEF TypeOK, FrameInUse, Begin, At, PutLabels, Asserts
  <1>5. FrameInUse(th)'
    <2>1. pc'[th] = "load_latest" /\ call'[th] = c /\ pm'[th] = NoFrame
      BY <1>1, <1>4 DEF TypeOK, LocalsTyped, Begin, Goto
    <2> QED
      BY <1>2, <2>1
      DEF FrameInUse, Moving, Putting, Scanning, AtSlot, InPutIfMatch, PutLabels, NoFrame
  <1>6. \A t2 \in Threads \ {th} : SameLocals(t2)
    BY <1>1 DEF TypeOK, LocalsTyped, Begin, Goto, SameLocals
  <1>7. TablesTyped'
    BY DEF TypeOK, TablesTyped, Begin, tables, chain, slots, chunks
  <1> QED
    BY <1>3, <1>5, <1>6, <1>7, StepTyped DEF LocalStep

LEMMA LoadLatestTyped ==
  ASSUME TypeOK, NEW th \in Threads, LoadLatest(th)
  PROVE  TypedStep(th)
  <1>1. [top[th] EXCEPT !.latest = latest] \in TopType
    BY DEF TypeOK, TablesTyped, LocalsTyped, TopType
  <1>2. top' \in [Threads -> TopType]
    BY <1>1 DEF TypeOK, LocalsTyped, LoadLatest
  <1>3. LocalsTyped'
    BY <1>2, LabelsTyped DEF TypeOK, LocalsTyped, LoadLatest, Goto
  <1>4. /\ pm[th] = NoFrame /\ call[th].key \in Keys
        /\ call[th].op \in {"put", "remove"} => call[th].val # NULL
    BY DEF TypeOK, FrameInUse, LoadLatest, At, PutLabels, Asserts
  <1>5. FrameInUse(th)'
    <2>1. pc'[th] = "load_prev" /\ call'[th] = call[th] /\ pm'[th] = NoFrame
      BY <1>4 DEF TypeOK, LocalsTyped, LoadLatest, Goto
    <2> QED
      BY <1>4, <2>1
      DEF FrameInUse, Moving, Putting, Scanning, AtSlot, InPutIfMatch, PutLabels, NoFrame
  <1>6. \A t2 \in Threads \ {th} : SameLocals(t2)
    BY DEF TypeOK, LocalsTyped, LoadLatest, Goto, SameLocals
  <1>7. TablesTyped'
    BY DEF TypeOK, TablesTyped, LoadLatest, tables, chain, slots, chunks
  <1> QED
    BY <1>3, <1>5, <1>6, <1>7, StepTyped DEF LocalStep

LEMMA LoadPrevTyped ==
  ASSUME TypeOK, NEW th \in Threads, LoadPrev(th)
  PROVE  TypedStep(th)
  <1> DEFINE p == prev[top[th].latest]
  <1>1. /\ pc[th] = "load_prev" /\ pm[th] = NoFrame /\ p \in MaybeTable
        /\ top[th].latest \in Tables
    BY Fields DEF TypeOK, TablesTyped, FrameInUse, LoadPrev, At, PutLabels, Asserts
  <1>2. TablesTyped'
    BY DEF TypeOK, TablesTyped, LoadPrev, tables, chain, slots, chunks
  <1>3. /\ [top[th] EXCEPT !.prev = p] \in TopType
        /\ [top[th] EXCEPT !.prev = p].prev = p
        /\ [top[th] EXCEPT !.prev = NULL] \in TopType
    BY <1>1 DEF TypeOK, LocalsTyped, TopType, MaybeTable
  <1>4. CASE /\ p # NULL
             /\ top' = [top EXCEPT ![th].prev = p]
             /\ Goto(th, "mv_claim")
             /\ UNCHANGED <<mv, pm, scan, ret>>
    <2>1. top' \in [Threads -> TopType] /\ top'[th].prev = p
      BY <1>3, <1>4 DEF TypeOK, LocalsTyped
    <2>2. LocalsTyped'
      BY <1>4, <2>1, LabelsTyped DEF TypeOK, LocalsTyped, Goto, LoadPrev
    <2>3. /\ pc'[th] = "mv_claim" /\ call'[th] = call[th] /\ pm'[th] = pm[th]
          /\ p \in Tables
      BY <1>1, <1>4 DEF TypeOK, LocalsTyped, LoadPrev, Goto, MaybeTable
    <2>4. FrameInUse(th)'
      BY <1>1, <2>1, <2>3
      DEF TypeOK, FrameInUse, Moving, Putting, Scanning, AtSlot, InPutIfMatch, PutLabels, NoFrame
    <2>5. \A t2 \in Threads \ {th} : SameLocals(t2)
      BY <1>4 DEF TypeOK, LocalsTyped, LoadPrev, Goto, SameLocals
    <2> QED
      BY <1>2, <2>2, <2>4, <2>5, StepTyped DEF LocalStep
  <1>5. CASE /\ p = NULL /\ call[th].op # "resize_barrier"
             /\ top' = [top EXCEPT ![th].prev = NULL]
             /\ Serve(th, top[th].latest, NULL)
             /\ UNCHANGED <<mv, ret>>
    <2>1. /\ top' \in [Threads -> TopType] /\ mv' \in [Threads -> MoveType]
          /\ \A t2 \in Threads \ {th} : top'[t2] = top[t2] /\ mv'[t2] = mv[t2]
      BY <1>3, <1>5 DEF TypeOK, LocalsTyped
    <2>2. UNCHANGED <<call, ret>> /\ NULL \in MaybeTable
      BY <1>5 DEF LoadPrev, MaybeTable
    <2>3. LocalStep(th)
      BY <1>1, <1>5, <2>1, <2>2, ServeTyped
    <2> QED
      BY <1>2, <2>3, StepTyped
  <1>6. CASE Return(th, Empty)
    BY <1>1, <1>2, <1>6, NoneTyped, ReturnTyped, StepTyped DEF LoadPrev
  <1> QED
    BY <1>4, <1>5, <1>6 DEF LoadPrev

LEMMA ReloadTyped ==
  ASSUME TypeOK, NEW th \in Threads, Reload(th)
  PROVE  TypedStep(th)
  <1>1. pc[th] = "reload" /\ pm[th] = NoFrame /\ latest \in Tables
    BY DEF TypeOK, TablesTyped, FrameInUse, Reload, At, PutLabels, Asserts
  <1>2. TablesTyped'
    BY DEF TypeOK, TablesTyped, Reload, tables, chain, slots, chunks
  <1>3. [top[th] EXCEPT !.latest = latest] \in TopType
    BY <1>1 DEF TypeOK, LocalsTyped, TopType
  <1>4. /\ top' \in [Threads -> TopType] /\ mv' \in [Threads -> MoveType]
        /\ \A t2 \in Threads \ {th} : top'[t2] = top[t2] /\ mv'[t2] = mv[t2]
    BY <1>3 DEF TypeOK, LocalsTyped, Reload
  <1>5. UNCHANGED <<call, ret>> /\ NULL \in MaybeTable /\ Serve(th, latest, NULL)
    BY DEF Reload, MaybeTable
  <1>6. LocalStep(th)
    BY <1>1, <1>4, <1>5, ServeTyped
  <1> QED
    BY <1>2, <1>6, StepTyped

LEMMA ExitTyped ==
  ASSUME TypeOK, NEW th \in Threads, Exit(th)
  PROVE  TypedStep(th)
  <1>1. LocalsTyped'
    BY NoneTyped, LabelsTyped DEF TypeOK, LocalsTyped, Exit, Goto
  <1>2. pm[th] = NoFrame
    BY DEF TypeOK, FrameInUse, Exit, At, PutLabels, Asserts
  <1>3. FrameInUse(th)'
    <2>1. pc'[th] = "idle" /\ pm'[th] = NoFrame
      BY <1>2 DEF TypeOK, LocalsTyped, Exit, Goto
    <2> QED
      BY <2>1 DEF FrameInUse, Moving, Putting, Scanning, AtSlot, InPutIfMatch, PutLabels, NoFrame
  <1>4. \A t2 \in Threads \ {th} : SameLocals(t2)
    BY DEF TypeOK, LocalsTyped, Exit, Goto, SameLocals
  <1>5. TablesTyped'
    BY DEF TypeOK, TablesTyped, Exit, tables, chain, slots, chunks
  <1> QED
    BY <1>1, <1>3, <1>4, <1>5, StepTyped DEF LocalStep

LEMMA MvClaimTyped ==
  ASSUME TypeOK, NEW th \in Threads, MvClaim(th)
  PROVE  TypedStep(th)
  <1> DEFINE p   == top[th].prev
             end == moved[p] + IF call[th].op = "resize_barrier" THEN Cap[p]
                                                                 ELSE MoveAmount
             new == IF end > Cap[p] THEN Cap[p] ELSE end
  <1>1. /\ pc[th] = "mv_claim" /\ pm[th] = NoFrame /\ p \in Tables
        /\ call[th].key \in Keys
        /\ call[th].op \in {"put", "remove"} => call[th].val # NULL
    BY DEF TypeOK, FrameInUse, MvClaim, At, PutLabels, Asserts
  <1>2. top[th].latest \in Tables /\ p \in MaybeTable
    BY Fields DEF TypeOK
  <1>3. CASE /\ moved[p] = Cap[p]
             /\ Serve(th, top[th].latest, p)
             /\ UNCHANGED <<moved, mv>>
    <2>1. TablesTyped'
      BY <1>3 DEF TypeOK, TablesTyped, MvClaim, chain, slots
    <2>2. /\ top' \in [Threads -> TopType] /\ mv' \in [Threads -> MoveType]
          /\ \A t2 \in Threads \ {th} : top'[t2] = top[t2] /\ mv'[t2] = mv[t2]
          /\ UNCHANGED <<call, ret>>
      BY <1>3 DEF TypeOK, LocalsTyped, MvClaim
    <2>3. LocalStep(th)
      BY <1>1, <1>2, <1>3, <2>2, ServeTyped
    <2> QED
      BY <2>1, <2>3, StepTyped
  <1>4. CASE /\ moved[p] # Cap[p]
             /\ moved' = [moved EXCEPT ![p] = new]
             /\ mv' = [mv EXCEPT ![th] = Chunk(moved[p], moved[p], new)]
             /\ Goto(th, "mv_key")
             /\ UNCHANGED <<pm, scan>>
    <2>1. /\ moved[p] \in Nat /\ Cap[p] \in Nat /\ Cap[p] > 0 /\ moved[p] <= Cap[p]
          /\ MoveAmount \in Nat /\ MoveAmount > 0
      BY <1>1, SizeAssumption DEF TypeOK, TablesTyped
    <2>2. new \in Nat /\ moved[p] < new /\ new <= Cap[p]
      BY <1>4, <2>1
    <2> HIDE DEF new
    <2>3. TablesTyped'
      BY <1>1, <1>4, <2>2 DEF TypeOK, TablesTyped, MvClaim, chain, slots
    <2>4. Chunk(moved[p], moved[p], new) \in MoveType
      BY <2>1, <2>2 DEF Chunk, MoveType
    <2>5. LocalsTyped'
      BY <1>4, <2>4, LabelsTyped DEF TypeOK, LocalsTyped, MvClaim, Goto
    <2>6. /\ pc'[th] = "mv_key" /\ mv'[th] = Chunk(moved[p], moved[p], new)
          /\ pm'[th] = NoFrame /\ top'[th] = top[th] /\ call'[th] = call[th]
      BY <1>1, <1>4 DEF TypeOK, LocalsTyped, MvClaim, Goto
    <2>7. FrameInUse(th)'
      BY <1>1, <2>1, <2>2, <2>6
      DEF FrameInUse, Moving, Putting, Scanning, AtSlot, InPutIfMatch, PutLabels, NoFrame, Chunk
    <2>8. \A t2 \in Threads \ {th} : SameLocals(t2)
      BY <1>4 DEF TypeOK, LocalsTyped, MvClaim, Goto, SameLocals
    <2> QED
      BY <2>3, <2>5, <2>7, <2>8, StepTyped DEF LocalStep
  <1> QED
    BY <1>3, <1>4 DEF MvClaim

\* What is known of a thread in the loop of move_items.
LEMMA MovingFacts ==
  ASSUME TypeOK, NEW th \in Threads, pc[th] \in {"mv_key", "mv_prime"}
  PROVE  /\ pm[th] = NoFrame /\ top[th].prev \in Tables /\ top[th].latest \in Tables
         /\ mv[th].i \in Slots(top[th].prev)
         /\ mv[th].old \in Nat /\ mv[th].i \in Nat /\ mv[th].new \in Nat
         /\ mv[th].old <= mv[th].i /\ mv[th].i < mv[th].new
         /\ mv[th].new <= Cap[top[th].prev]
         /\ call[th].key \in Keys
         /\ call[th].op \in {"put", "remove"} => call[th].val # NULL
  <1>1. /\ mv[th].old \in Nat /\ mv[th].i \in Nat /\ mv[th].new \in Nat
        /\ top[th].latest \in Tables
    BY Fields DEF TypeOK
  <1>2. Moving(th) /\ pc[th] \notin {"idle"} \union PutLabels \union {"rl_val", "rl_key"} \union Asserts
    BY DEF Moving, PutLabels, Asserts
  <1>3. FrameInUse(th)
    BY DEF TypeOK
  <1>4. /\ pm[th] = NoFrame /\ top[th].prev \in Tables
        /\ mv[th].old <= mv[th].i /\ mv[th].i < mv[th].new
        /\ mv[th].new <= Cap[top[th].prev]
        /\ call[th].key \in Keys
        /\ call[th].op \in {"put", "remove"} => call[th].val # NULL
    BY <1>2, <1>3 DEF FrameInUse
  <1>5. Cap[top[th].prev] \in Nat
    BY <1>4, SizeAssumption
  <1> QED
    BY <1>1, <1>4, <1>5 DEF Slots

LEMMA MvKeyTyped ==
  ASSUME TypeOK, NEW th \in Threads, MvKey(th)
  PROVE  TypedStep(th)
  <1> DEFINE k == key[top[th].prev][mv[th].i]
  <1>1. pc[th] = "mv_key"
    BY DEF MvKey, At
  <1>2. k \in Keys \union {NULL}
    BY <1>1, MovingFacts DEF TypeOK, TablesTyped
  <1>3. /\ [mv[th] EXCEPT !.k = k] \in MoveType
        /\ [mv[th] EXCEPT !.k = k].old = mv[th].old
        /\ [mv[th] EXCEPT !.k = k].i = mv[th].i
        /\ [mv[th] EXCEPT !.k = k].new = mv[th].new
    BY <1>2 DEF TypeOK, LocalsTyped, MoveType
  <1>4. mv' = [mv EXCEPT ![th] = [mv[th] EXCEPT !.k = k]]
    BY DEF MvKey, TypeOK, LocalsTyped
  <1> HIDE DEF k
  <1>5. LocalsTyped'
    BY <1>3, <1>4, LabelsTyped DEF TypeOK, LocalsTyped, MvKey, Goto
  <1>6. /\ pc'[th] = "mv_prime" /\ mv'[th] = [mv[th] EXCEPT !.k = k]
        /\ pm'[th] = pm[th] /\ top'[th] = top[th] /\ call'[th] = call[th]
    BY <1>4 DEF TypeOK, LocalsTyped, MvKey, Goto
  <1>7. FrameInUse(th)'
    <2>1. /\ pm[th] = NoFrame /\ top[th].prev \in Tables
          /\ mv[th].old <= mv[th].i /\ mv[th].i < mv[th].new
          /\ mv[th].new <= Cap[top[th].prev]
          /\ call[th].key \in Keys
          /\ call[th].op \in {"put", "remove"} => call[th].val # NULL
      BY <1>1, MovingFacts
    <2> QED
      BY <1>3, <1>6, <2>1
      DEF FrameInUse, Moving, Putting, Scanning, AtSlot, InPutIfMatch, PutLabels, NoFrame
  <1>8. \A t2 \in Threads \ {th} : SameLocals(t2)
    BY <1>4 DEF TypeOK, LocalsTyped, MvKey, Goto, SameLocals
  <1>9. TablesTyped'
    BY DEF TypeOK, TablesTyped, MvKey, tables, chain, slots, chunks
  <1> QED
    BY <1>5, <1>7, <1>8, <1>9, StepTyped DEF LocalStep

LEMMA FrozenTyped == \A w \in Word : Frozen(w) \in Word
  BY DEF Frozen, Word, Content

LEMMA MvPrimeTyped ==
  ASSUME TypeOK, NEW th \in Threads, MvPrime(th)
  PROVE  TypedStep(th)
  <1> DEFINE p == top[th].prev
             w == val[p][mv[th].i]
             live == ~w.prime /\ w.v \notin {NULL, TOMBSTONE}
  <1>1. pc[th] = "mv_prime" /\ Moving(th)
    BY DEF MvPrime, At, Moving
  <1>2. w \in Word /\ w.v \in Content
    BY <1>1, MovingFacts DEF TypeOK, TablesTyped, Word
  <1>3. TablesTyped'
    <2>1. val' = [val EXCEPT ![p][mv[th].i] = Frozen(w)]
      BY DEF MvPrime
    <2>2. UNCHANGED <<chain, key, count, chunks>>
      BY DEF MvPrime
    <2> QED
      BY <1>1, <1>2, <2>1, <2>2, FrozenTyped, MovingFacts, ValWritten DEF TypeOK
  <1>4. CASE MvAdvance(th) /\ UNCHANGED pm
    <2>1. /\ pm' \in [Threads -> FrameType] /\ pm'[th] = NoFrame
          /\ \A t2 \in Threads \ {th} : pm'[t2] = pm[t2]
          /\ UNCHANGED <<call, top, scan>>
      BY <1>1, <1>4, MovingFacts DEF TypeOK, LocalsTyped, MvPrime
    <2>2. ret' = ret
      BY DEF MvPrime
    <2>3. LocalStep(th)
      BY <1>1, <1>4, <2>1, <2>2, MvAdvanceTyped
    <2> QED
      BY <1>3, <2>3, StepTyped
  <1>5. CASE /\ live /\ mv[th].k # NULL
             /\ CallPutIfMatch(th, top[th].latest, NULL, mv[th].k, w.v, TRUE)
             /\ UNCHANGED mv
    <2>1. mv[th].k \in Keys /\ top[th].latest \in Tables
      BY <1>5, Fields DEF TypeOK
    <2>2. w.v \in Content \ {NULL} /\ NULL \in MaybeTable
      BY <1>2, <1>5 DEF MaybeTable
    <2>3. UNCHANGED <<call, scan, ret>> /\ UNCHANGED <<top, mv>>
      BY <1>5 DEF MvPrime
    <2>4. /\ top' \in [Threads -> TopType] /\ mv' \in [Threads -> MoveType]
          /\ \A t2 \in Threads \ {th} : top'[t2] = top[t2] /\ mv'[t2] = mv[t2]
      BY <2>3 DEF TypeOK, LocalsTyped
    <2> HIDE DEF w
    <2>5. LocalStep(th)
      BY <1>1, <1>5, <2>1, <2>2, <2>3, <2>4, CallPutIfMatchTyped
    <2> QED
      BY <1>3, <2>5, StepTyped
  <1>6. CASE Goto(th, "assert(key)") /\ UNCHANGED <<mv, pm>>
    <2>1. LocalsTyped'
      BY <1>6, LabelsTyped DEF TypeOK, LocalsTyped, MvPrime, Goto, Asserts
    <2>2. /\ pc'[th] = "assert(key)" /\ pm'[th] = NoFrame /\ call'[th] = call[th]
          /\ call[th].key \in Keys
          /\ call[th].op \in {"put", "remove"} => call[th].val # NULL
      BY <1>1, <1>6, MovingFacts DEF TypeOK, LocalsTyped, MvPrime, Goto
    <2>3. FrameInUse(th)'
      BY <2>2
      DEF FrameInUse, Moving, Putting, Scanning, AtSlot, InPutIfMatch, PutLabels, NoFrame
    <2>4. \A t2 \in Threads \ {th} : SameLocals(t2)
      BY <1>6 DEF TypeOK, LocalsTyped, MvPrime, Goto, SameLocals
    <2> QED
      BY <1>3, <2>1, <2>3, <2>4, StepTyped DEF LocalStep
  <1> QED
    BY <1>4, <1>5, <1>6 DEF MvPrime

LEMMA MvDoneTyped ==
  ASSUME TypeOK, NEW th \in Threads, MvDone(th)
  PROVE  TypedStep(th)
  <1> DEFINE p == top[th].prev
             done == move_done[p] + ChunkSize(th)
  <1>1. /\ pc[th] = "mv_done" /\ pm[th] = NoFrame /\ p \in Tables
        /\ mv[th].old <= mv[th].new
        /\ call[th].key \in Keys
        /\ call[th].op \in {"put", "remove"} => call[th].val # NULL
    BY DEF TypeOK, FrameInUse, MvDone, At, PutLabels, Asserts
  <1>2. /\ mv[th].old \in Nat /\ mv[th].new \in Nat /\ top[th].latest \in Tables
        /\ p \in MaybeTable
    BY Fields DEF TypeOK
  <1>3. done \in Nat
    BY <1>1, <1>2 DEF ChunkSize, TypeOK, TablesTyped
  <1>4. /\ move_done' = [move_done EXCEPT ![p] = done]
        /\ mv' = [mv EXCEPT ![th] = NoMove]
        /\ UNCHANGED <<chain, slots, moved>>
        /\ UNCHANGED <<call, top, ret>>
    BY DEF MvDone
  <1> HIDE DEF done
  <1>5. TablesTyped'
    BY <1>3, <1>4 DEF TypeOK, TablesTyped, chain, slots
  <1>6. /\ top' \in [Threads -> TopType] /\ mv' \in [Threads -> MoveType]
        /\ \A t2 \in Threads \ {th} : top'[t2] = top[t2] /\ mv'[t2] = mv[t2]
    BY <1>4, NoneTyped DEF TypeOK, LocalsTyped
  <1>7. CASE Goto(th, "mv_detach") /\ UNCHANGED <<pm, scan>>
    <2>1. LocalsTyped'
      BY <1>4, <1>6, <1>7, LabelsTyped DEF TypeOK, LocalsTyped, Goto
    <2>2. /\ pc'[th] = "mv_detach" /\ pm'[th] = NoFrame /\ call'[th] = call[th]
          /\ top'[th] = top[th]
      BY <1>1, <1>4, <1>7 DEF TypeOK, LocalsTyped, Goto
    <2>3. FrameInUse(th)'
      BY <1>1, <2>2
      DEF FrameInUse, Moving, Putting, Scanning, AtSlot, InPutIfMatch, PutLabels, NoFrame
    <2>4. \A t2 \in Threads \ {th} : SameLocals(t2)
      BY <1>4, <1>6, <1>7 DEF TypeOK, LocalsTyped, Goto, SameLocals
    <2> QED
      BY <1>5, <2>1, <2>3, <2>4, StepTyped DEF LocalStep
  <1>8. CASE Serve(th, top[th].latest, p)
    <2>1. LocalStep(th)
      BY <1>1, <1>2, <1>4, <1>6, <1>8, ServeTyped
    <2> QED
      BY <1>5, <2>1, StepTyped
  <1> QED
    BY <1>7, <1>8 DEF MvDone

LEMMA MvDetachTyped ==
  ASSUME TypeOK, NEW th \in Threads, MvDetach(th)
  PROVE  TypedStep(th)
  <1>1. /\ pc[th] = "mv_detach" /\ pm[th] = NoFrame /\ top[th].prev \in Tables
        /\ call[th].key \in Keys
        /\ call[th].op \in {"put", "remove"} => call[th].val # NULL
    BY DEF TypeOK, FrameInUse, MvDetach, At, PutLabels, Asserts
  <1>2. TablesTyped'
    BY <1>1 DEF TypeOK, TablesTyped, MvDetach, slots, chunks, MaybeTable
  <1>3. [top[th] EXCEPT !.prev = NULL] \in TopType
    BY DEF TypeOK, LocalsTyped, TopType, MaybeTable
  <1>4. top' \in [Threads -> TopType]
    BY <1>3 DEF TypeOK, LocalsTyped, MvDetach
  <1>5. LocalsTyped'
    BY <1>4, LabelsTyped DEF TypeOK, LocalsTyped, MvDetach, Goto
  <1>6. /\ pc'[th] \in {"load_prev", "reload"} /\ pm'[th] = NoFrame
        /\ call'[th] = call[th]
    BY <1>1 DEF TypeOK, LocalsTyped, MvDetach, Goto
  <1>7. FrameInUse(th)'
    BY <1>1, <1>6
    DEF FrameInUse, Moving, Putting, Scanning, AtSlot, InPutIfMatch, PutLabels, NoFrame
  <1>8. \A t2 \in Threads \ {th} : SameLocals(t2)
    BY DEF TypeOK, LocalsTyped, MvDetach, Goto, SameLocals
  <1> QED
    BY <1>2, <1>5, <1>7, <1>8, StepTyped DEF LocalStep

\* What is known of a thread in put_if_match.
LEMMA PuttingFacts ==
  ASSUME TypeOK, NEW th \in Threads, pc[th] \in PutLabels
  PROVE  /\ pm[th] \in FrameType /\ pm[th].latest \in Tables
         /\ pm[th].prev \in MaybeTable /\ pm[th].key \in Keys
         /\ pm[th].val \in Content \ {NULL} /\ pm[th].v \in Word
         /\ pm[th].i \in Nat /\ pm[th].mover \in BOOLEAN
         /\ pc[th] # "idle"
  <1>1. Putting(th) /\ FrameInUse(th) /\ pc[th] # "idle"
    BY DEF TypeOK, Putting, PutLabels
  <1>2. pm[th].key \in Keys /\ pm[th].val # NULL
    BY <1>1 DEF FrameInUse
  <1> QED
    BY <1>1, <1>2, Fields DEF TypeOK, LocalsTyped

LEMMA ProbingFacts ==
  ASSUME TypeOK, NEW th \in Threads,
         pc[th] \in PutLabels \ {"pm_top", "pm_latest", "pm_prev"}
  PROVE  /\ pm[th].i \in Slots(pm[th].latest)
         /\ val[pm[th].latest][pm[th].i] \in Word
         /\ key[pm[th].latest][pm[th].i] \in Keys \union {NULL}
  <1>1. pm[th].i \in Slots(pm[th].latest)
    BY DEF TypeOK, FrameInUse, AtSlot
  <1> QED
    BY <1>1, PuttingFacts DEF TypeOK, TablesTyped

\* An update of one field of a frame of put_if_match.
LEMMA FrameUpdates ==
  ASSUME NEW f \in FrameType
  PROVE  /\ \A t \in Tables : LET g == [f EXCEPT !.latest = t] IN
              /\ g \in FrameType /\ g.key = f.key /\ g.val = f.val /\ g.mover = f.mover
         /\ \A p \in MaybeTable : LET g == [f EXCEPT !.prev = p] IN
              /\ g \in FrameType /\ g.key = f.key /\ g.val = f.val /\ g.mover = f.mover
         /\ \A i \in Nat : LET g == [f EXCEPT !.i = i] IN
              /\ g \in FrameType /\ g.key = f.key /\ g.val = f.val /\ g.mover = f.mover
              /\ g.i = i /\ g.latest = f.latest
         /\ \A w \in Word : LET g == [f EXCEPT !.v = w] IN
              /\ g \in FrameType /\ g.key = f.key /\ g.val = f.val /\ g.mover = f.mover
              /\ g.i = f.i /\ g.latest = f.latest
  BY DEF FrameType

LEMMA PmTopTyped ==
  ASSUME TypeOK, NEW th \in Threads, PmTop(th)
  PROVE  TypedStep(th)
  <1> DEFINE l == pm[th].latest
             f == pm[th]
  <1>1. pc[th] = "pm_top" /\ pc[th] \in PutLabels
    BY DEF PmTop, At, PutLabels
  <1>2. f \in FrameType /\ l \in Tables /\ f.key \in Keys /\ latest \in Tables
    BY <1>1, PuttingFacts DEF TypeOK, TablesTyped
  <1>3. UNCHANGED <<retired, slots, chunks>> /\ UNCHANGED <<call, top, mv, scan, ret>>
    BY DEF PmTop
  <1>4. scan' \in [Threads -> ScanType] /\ \A t2 \in Threads \ {th} : scan'[t2] = scan[t2]
    BY <1>3 DEF TypeOK, LocalsTyped
  <1>5. CASE /\ latest = l /\ l < MaxTables
             /\ latest' = l + 1
             /\ prev' = [prev EXCEPT ![l + 1] = l]
             /\ pm' = [pm EXCEPT ![th].latest = l + 1, ![th].prev = l]
             /\ UNCHANGED pc
    <2>1. l + 1 \in Tables /\ l \in MaybeTable
      BY <1>2, <1>5, SizeAssumption DEF Tables, MaybeTable
    <2>2. TablesTyped'
      BY <1>3, <1>5, <2>1 DEF TypeOK, TablesTyped, slots, chunks
    <2> DEFINE e == [f EXCEPT !.latest = l + 1]
               g == [e EXCEPT !.prev = l]
    <2>3. /\ g \in FrameType /\ g.key = f.key /\ g.val = f.val /\ g.mover = f.mover
      <3>1. e \in FrameType /\ e.key = f.key /\ e.val = f.val /\ e.mover = f.mover
        BY <1>2, <2>1, FrameUpdates
      <3> HIDE DEF e
      <3> QED
        BY <2>1, <3>1, FrameUpdates
    <2>4. pm' = [pm EXCEPT ![th] = g]
      BY <1>5 DEF TypeOK, LocalsTyped
    <2> HIDE DEF g
    <2>5. /\ pm' \in [Threads -> FrameType] /\ pm'[th] = g
          /\ \A t2 \in Threads \ {th} : pm'[t2] = pm[t2]
          /\ Goto(th, "pm_top")
      BY <1>1, <1>5, <2>3, <2>4 DEF TypeOK, LocalsTyped, Goto
    <2>6. "pm_top" \in PutLabels /\ "pm_top" # "rl_val"
      BY DEF PutLabels
    <2>7. LocalStep(th)
      BY <1>1, <1>3, <1>4, <2>3, <2>5, <2>6, PmJump
    <2> QED
      BY <2>2, <2>7, StepTyped
  <1>6. CASE /\ pm' = [pm EXCEPT ![th].latest = latest]
             /\ Goto(th, "pm_prev")
             /\ UNCHANGED <<latest, prev>>
    <2>1. TablesTyped'
      BY <1>3, <1>6 DEF TypeOK, TablesTyped, slots, chunks
    <2>2. /\ pm' \in [Threads -> FrameType]
          /\ pm'[th] = [f EXCEPT !.latest = latest]
          /\ \A t2 \in Threads \ {th} : pm'[t2] = pm[t2]
      BY <1>2, <1>6, FrameUpdates DEF TypeOK, LocalsTyped
    <2>3. "pm_prev" \in PutLabels
      BY DEF PutLabels
    <2>4. LocalStep(th)
      BY <1>1, <1>2, <1>3, <1>4, <1>6, <2>2, <2>3, FrameUpdates, PmJump
    <2> QED
      BY <2>1, <2>4, StepTyped
  <1>7. CASE /\ pm' = [pm EXCEPT ![th].i = Home[pm[th].key][l]]
             /\ Goto(th, "pm_val")
             /\ UNCHANGED <<latest, prev>>
    <2>1. TablesTyped'
      BY <1>3, <1>7 DEF TypeOK, TablesTyped, slots, chunks
    <2>2. Home[f.key][l] \in Slots(l) /\ Home[f.key][l] \in Nat
      BY <1>2, HomeSlot
    <2>3. /\ pm' \in [Threads -> FrameType]
          /\ pm'[th] = [f EXCEPT !.i = Home[f.key][l]]
          /\ \A t2 \in Threads \ {th} : pm'[t2] = pm[t2]
      BY <1>2, <1>7, <2>2, FrameUpdates DEF TypeOK, LocalsTyped
    <2>4. "pm_val" \in PutLabels
      BY DEF PutLabels
    <2>5. /\ pm'[th].key = f.key /\ pm'[th].val = f.val /\ pm'[th].mover = f.mover
          /\ pm'[th].i \in Slots(pm'[th].latest)
      BY <1>2, <2>2, <2>3, FrameUpdates
    <2>6. LocalStep(th)
      BY <1>1, <1>3, <1>4, <1>7, <2>3, <2>4, <2>5, PmJump
    <2> QED
      BY <2>1, <2>6, StepTyped
  <1> QED
    BY <1>5, <1>6, <1>7 DEF PmTop

LEMMA PmLatestTyped ==
  ASSUME TypeOK, NEW th \in Threads, PmLatest(th)
  PROVE  TypedStep(th)
  <1>1. pc[th] \in PutLabels /\ latest \in Tables /\ "pm_prev" \in PutLabels
    BY DEF PmLatest, At, PutLabels, TypeOK, TablesTyped
  <1>2. pm[th] \in FrameType
    BY <1>1, PuttingFacts
  <1>3. TablesTyped'
    BY DEF TypeOK, TablesTyped, PmLatest, tables, chain, slots, chunks
  <1>4. /\ pm' \in [Threads -> FrameType]
        /\ pm'[th] = [pm[th] EXCEPT !.latest = latest]
        /\ scan' \in [Threads -> ScanType]
        /\ \A t2 \in Threads \ {th} : pm'[t2] = pm[t2] /\ scan'[t2] = scan[t2]
    BY <1>1, <1>2, FrameUpdates DEF TypeOK, LocalsTyped, PmLatest
  <1>5. /\ pm'[th].key = pm[th].key /\ pm'[th].val = pm[th].val
        /\ pm'[th].mover = pm[th].mover
    BY <1>1, <1>2, <1>4, FrameUpdates
  <1>6. Goto(th, "pm_prev") /\ UNCHANGED <<call, top, mv, ret>>
    BY DEF PmLatest
  <1>7. LocalStep(th)
    BY <1>1, <1>4, <1>5, <1>6, PmJump
  <1> QED
    BY <1>3, <1>7, StepTyped

LEMMA PmPrevTyped ==
  ASSUME TypeOK, NEW th \in Threads, PmPrev(th)
  PROVE  TypedStep(th)
  <1> DEFINE p == prev[pm[th].latest]
  <1>1. pc[th] \in PutLabels /\ "pm_top" \in PutLabels
    BY DEF PmPrev, LoadedPrev, At, PutLabels
  <1>2. pm[th] \in FrameType /\ p \in MaybeTable
    BY <1>1, PuttingFacts DEF TypeOK, TablesTyped
  <1>3. TablesTyped'
    BY DEF TypeOK, TablesTyped, PmPrev, LoadedPrev, tables, chain, slots, chunks
  <1>4. /\ pm' \in [Threads -> FrameType]
        /\ pm'[th] = [pm[th] EXCEPT !.prev = p]
        /\ scan' \in [Threads -> ScanType]
        /\ \A t2 \in Threads \ {th} : pm'[t2] = pm[t2] /\ scan'[t2] = scan[t2]
    BY <1>2, FrameUpdates DEF TypeOK, LocalsTyped, PmPrev, LoadedPrev
  <1>5. /\ pm'[th].key = pm[th].key /\ pm'[th].val = pm[th].val
        /\ pm'[th].mover = pm[th].mover
    BY <1>2, <1>4, FrameUpdates
  <1>6. Goto(th, "pm_top") /\ UNCHANGED <<call, top, mv, ret>>
    BY DEF PmPrev, LoadedPrev
  <1>7. LocalStep(th)
    BY <1>1, <1>4, <1>5, <1>6, PmJump
  <1> QED
    BY <1>3, <1>7, StepTyped

LEMMA PmValTyped ==
  ASSUME TypeOK, NEW th \in Threads, PmVal(th)
  PROVE  TypedStep(th)
  <1> DEFINE w == val[pm[th].latest][pm[th].i]
  <1>1. /\ pc[th] \in PutLabels \ {"pm_top", "pm_latest", "pm_prev"}
        /\ "pm_key" \in PutLabels
    BY DEF PmVal, At, PutLabels
  <1>2. pm[th] \in FrameType /\ w \in Word /\ pm[th].i \in Slots(pm[th].latest)
    BY <1>1, PuttingFacts, ProbingFacts
  <1>3. TablesTyped'
    BY DEF TypeOK, TablesTyped, PmVal, tables, chain, slots, chunks
  <1>4. /\ pm' \in [Threads -> FrameType]
        /\ pm'[th] = [pm[th] EXCEPT !.v = w]
        /\ scan' \in [Threads -> ScanType]
        /\ \A t2 \in Threads \ {th} : pm'[t2] = pm[t2] /\ scan'[t2] = scan[t2]
    BY <1>2, FrameUpdates DEF TypeOK, LocalsTyped, PmVal
  <1>5. /\ pm'[th].key = pm[th].key /\ pm'[th].val = pm[th].val
        /\ pm'[th].mover = pm[th].mover /\ pm'[th].i \in Slots(pm'[th].latest)
    BY <1>2, <1>4, FrameUpdates
  <1>6. Goto(th, "pm_key") /\ UNCHANGED <<call, top, mv, ret>>
    BY DEF PmVal
  <1>7. LocalStep(th)
    BY <1>1, <1>4, <1>5, <1>6, PmJump
  <1> QED
    BY <1>3, <1>7, StepTyped

LEMMA PmKeyTyped ==
  ASSUME TypeOK, NEW th \in Threads, PmKey(th)
  PROVE  TypedStep(th)
  <1> DEFINE l == pm[th].latest
             i == pm[th].i
  <1>1. /\ pc[th] \in PutLabels \ {"pm_top", "pm_latest", "pm_prev"}
        /\ {"pm_count", "pm_barrier", "pm_val", "pm_latest"} \subseteq PutLabels
    BY DEF PmKey, At, PutLabels
  <1>2. /\ pm[th] \in FrameType /\ l \in Tables /\ i \in Slots(l) /\ pm[th].key \in Keys
        /\ NextSlot(l, i) \in Slots(l) /\ NextSlot(l, i) \in Nat
    BY <1>1, PuttingFacts, ProbingFacts, NextSlotTyped
  <1>3. UNCHANGED <<chain, val, count, chunks>> /\ UNCHANGED call
    BY DEF PmKey
  <1>4. CASE PmReturn(th, Empty) /\ UNCHANGED key
    <2>1. TablesTyped'
      BY <1>3, <1>4 DEF TypeOK, TablesTyped, chain, chunks
    <2> QED
      BY <1>1, <1>3, <1>4, <2>1, NoneTyped, PmReturnTyped, StepTyped
  <1>5. CASE /\ key' = [key EXCEPT ![l][i] = pm[th].key]
             /\ Goto(th, "pm_count")
             /\ UNCHANGED <<top, mv, pm, scan, ret>>
    <2>1. TablesTyped'
      BY <1>2, <1>3, <1>5, KeyWritten DEF TypeOK
    <2>2. LocalStep(th)
      BY <1>1, <1>2, <1>3, <1>5, PmJump DEF TypeOK, LocalsTyped
    <2> QED
      BY <2>1, <2>2, StepTyped
  <1>6. CASE /\ Goto(th, "pm_barrier") \/ Goto(th, "pm_latest")
             /\ UNCHANGED <<key, top, mv, pm, scan, ret>>
    <2>1. TablesTyped'
      BY <1>3, <1>6 DEF TypeOK, TablesTyped, chain, chunks
    <2>2. LocalStep(th)
      BY <1>1, <1>2, <1>3, <1>6, PmJump DEF TypeOK, LocalsTyped
    <2> QED
      BY <2>1, <2>2, StepTyped
  <1>7. CASE /\ pm' = [pm EXCEPT ![th].i = NextSlot(l, i)]
             /\ Goto(th, "pm_val")
             /\ UNCHANGED <<key, top, mv, scan, ret>>
    <2>1. TablesTyped'
      BY <1>3, <1>7 DEF TypeOK, TablesTyped, chain, chunks
    <2>2. /\ pm' \in [Threads -> FrameType]
          /\ pm'[th] = [pm[th] EXCEPT !.i = NextSlot(l, i)]
          /\ scan' \in [Threads -> ScanType]
          /\ \A t2 \in Threads \ {th} : pm'[t2] = pm[t2] /\ scan'[t2] = scan[t2]
      BY <1>2, <1>7, FrameUpdates DEF TypeOK, LocalsTyped
    <2>3. /\ pm'[th].key = pm[th].key /\ pm'[th].val = pm[th].val
          /\ pm'[th].mover = pm[th].mover /\ pm'[th].i \in Slots(pm'[th].latest)
      BY <1>2, <2>2, FrameUpdates
    <2>4. LocalStep(th)
      BY <1>1, <1>3, <1>7, <2>2, <2>3, PmJump
    <2> QED
      BY <2>1, <2>4, StepTyped
  <1> QED
    BY <1>4, <1>5, <1>6, <1>7 DEF PmKey

LEMMA PmCountTyped ==
  ASSUME TypeOK, NEW th \in Threads, PmCount(th)
  PROVE  TypedStep(th)
  <1>1. /\ pc[th] \in PutLabels \ {"pm_top", "pm_latest", "pm_prev"}
        /\ "pm_barrier" \in PutLabels
    BY DEF PmCount, At, PutLabels
  <1>2. pm[th].i \in Slots(pm[th].latest) /\ pm[th].latest \in Tables
    BY <1>1, PuttingFacts, ProbingFacts
  <1>3. TablesTyped'
    BY <1>2 DEF TypeOK, TablesTyped, PmCount, Counted, chain, chunks
  <1>4. Goto(th, "pm_barrier") /\ UNCHANGED <<call, top, mv, pm, scan, ret>>
    BY DEF PmCount
  <1>5. LocalStep(th)
    BY <1>1, <1>2, <1>4, PmJump DEF TypeOK, LocalsTyped
  <1> QED
    BY <1>3, <1>5, StepTyped

LEMMA SoughtTyped == \A v : Sought(v) \in Keys \union {NULL}
  BY CallAssumption DEF Sought

LEMMA ProbeTyped ==
  ASSUME NEW t \in Tables, NEW k \in Keys \union {NULL}, NEW h \in Keys
  PROVE  /\ Probe(t, k, h) \in ScanType
         /\ Probe(t, k, h).i \in Slots(Probe(t, k, h).table)
  BY NoneTyped, HomeSlot DEF Probe, ScanType

LEMMA PmBarrierTyped ==
  ASSUME TypeOK, NEW th \in Threads, PmBarrier(th)
  PROVE  TypedStep(th)
  <1> DEFINE p == pm[th].prev
  <1>1. /\ pc[th] \in PutLabels \ {"pm_top", "pm_latest", "pm_prev"}
        /\ {"pm_top", "pm_write"} \subseteq PutLabels
        /\ "assert(prev->prev == NULL)" \in Asserts \ PutLabels
        /\ "assert(prev->prev == NULL)" # "rl_val"
        /\ "rl_val" \notin PutLabels
    BY DEF PmBarrier, At, PutLabels, Asserts
  <1>2. /\ pm[th].i \in Slots(pm[th].latest) /\ p \in MaybeTable
        /\ pm[th].key \in Keys /\ Sought(pm[th].val) \in Keys \union {NULL}
    BY <1>1, PuttingFacts, ProbingFacts, SoughtTyped
  <1>3. TablesTyped'
    BY DEF TypeOK, TablesTyped, PmBarrier, tables, chain, slots, chunks
  <1>4. /\ UNCHANGED <<call, top, mv, ret>> /\ pm' = pm
        /\ pm' \in [Threads -> FrameType]
    BY DEF PmBarrier, TypeOK, LocalsTyped
  <1>5. CASE /\ p # NULL
             /\ scan' = [scan EXCEPT ![th] = Probe(p, Sought(pm[th].val), pm[th].key)]
             /\ Goto(th, "rl_val")
    <2>1. p \in Tables
      BY <1>2, <1>5 DEF MaybeTable
    <2>2. /\ scan' \in [Threads -> ScanType]
          /\ scan'[th] = Probe(p, Sought(pm[th].val), pm[th].key)
          /\ \A t2 \in Threads \ {th} : scan'[t2] = scan[t2]
      BY <1>2, <1>5, <2>1, ProbeTyped DEF TypeOK, LocalsTyped
    <2>3. scan'[th].i \in Slots(scan'[th].table)
      BY <1>2, <2>1, <2>2, ProbeTyped
    <2>4. LocalStep(th)
      BY <1>1, <1>2, <1>4, <1>5, <2>2, <2>3, PmJump
    <2> QED
      BY <1>3, <2>4, StepTyped
  <1>6. CASE /\ \E x \in {"assert(prev->prev == NULL)", "pm_top", "pm_write"} : Goto(th, x)
             /\ UNCHANGED scan
    <2>1. /\ scan' \in [Threads -> ScanType]
          /\ \A t2 \in Threads \ {th} : scan'[t2] = scan[t2] /\ pm'[t2] = pm[t2]
      BY <1>4, <1>6 DEF TypeOK, LocalsTyped
    <2>2. LocalStep(th)
      BY <1>1, <1>2, <1>4, <1>6, <2>1, PmJump
    <2> QED
      BY <1>3, <2>2, StepTyped
  <1> QED
    BY <1>5, <1>6 DEF PmBarrier, AfterBarrier

LEMMA PmAdoptTyped ==
  ASSUME TypeOK, NEW th \in Threads, PmAdopt(th)
  PROVE  TypedStep(th)
  <1> DEFINE l == pm[th].latest
             i == pm[th].i
             w == IF val[l][i] = Empty THEN Plain(scan[th].v.v) ELSE val[l][i]
  <1>1. /\ pc[th] \in PutLabels \ {"pm_top", "pm_latest", "pm_prev"}
        /\ {"pm_top", "pm_write"} \subseteq PutLabels
        /\ "rl_val" \notin PutLabels
    BY DEF PmAdopt, At, PutLabels
  <1>2. pm[th] \in FrameType /\ l \in Tables /\ i \in Slots(l) /\ val[l][i] \in Word
    BY <1>1, PuttingFacts, ProbingFacts
  <1>3. w \in Word
    <2>1. scan[th].v \in Word
      BY Fields DEF TypeOK
    <2>2. scan[th].v.v \in Content
      BY <2>1 DEF Word
    <2> QED
      BY <1>2, <2>2, PlainTyped
  <1>4. /\ UNCHANGED <<chain, key, count, chunks>> /\ UNCHANGED <<call, top, mv, ret>>
        /\ scan' \in [Threads -> ScanType]
        /\ \A t2 \in Threads \ {th} : scan'[t2] = scan[t2]
    BY NoneTyped DEF PmAdopt, TypeOK, LocalsTyped
  <1>5. CASE Goto(th, "pm_write") /\ UNCHANGED <<val, pm>>
    <2>1. TablesTyped'
      BY <1>4, <1>5 DEF TypeOK, TablesTyped, chain, chunks
    <2>2. LocalStep(th)
      BY <1>1, <1>2, <1>4, <1>5, PmJump DEF TypeOK, LocalsTyped
    <2> QED
      BY <2>1, <2>2, StepTyped
  <1>6. CASE /\ val' = [val EXCEPT ![l][i] = w]
             /\ pm' = [pm EXCEPT ![th].v = w]
             /\ Goto(th, AfterBarrier(w))
    <2> HIDE DEF w
    <2>1. TablesTyped'
      BY <1>2, <1>3, <1>4, <1>6, ValWritten DEF TypeOK
    <2>2. /\ pm' \in [Threads -> FrameType]
          /\ pm'[th] = [pm[th] EXCEPT !.v = w]
          /\ \A t2 \in Threads \ {th} : pm'[t2] = pm[t2]
      BY <1>2, <1>3, <1>6, FrameUpdates DEF TypeOK, LocalsTyped
    <2>3. /\ pm'[th].key = pm[th].key /\ pm'[th].val = pm[th].val
          /\ pm'[th].mover = pm[th].mover /\ pm'[th].i \in Slots(pm'[th].latest)
      BY <1>2, <1>3, <2>2, FrameUpdates
    <2>4. AfterBarrier(w) \in PutLabels
      BY <1>1 DEF AfterBarrier
    <2>5. LocalStep(th)
      BY <1>1, <1>4, <1>6, <2>2, <2>3, <2>4, PmJump
    <2> QED
      BY <2>1, <2>5, StepTyped
  <1> QED
    BY <1>5, <1>6 DEF PmAdopt

LEMMA PmWriteTyped ==
  ASSUME TypeOK, NEW th \in Threads, PmWrite(th)
  PROVE  TypedStep(th)
  <1> DEFINE l == pm[th].latest
             i == pm[th].i
             w == val[l][i]
             new == Plain(pm[th].val)
  <1>1. /\ pc[th] \in PutLabels \ {"pm_top", "pm_latest", "pm_prev"}
        /\ "pm_top" \in PutLabels
    BY DEF PmWrite, At, PutLabels
  <1>2. /\ pm[th] \in FrameType /\ l \in Tables /\ i \in Slots(l) /\ w \in Word
        /\ new \in Word
    BY <1>1, PuttingFacts, ProbingFacts, PlainTyped
  <1>3. UNCHANGED <<chain, key, count, chunks>> /\ UNCHANGED call
    BY DEF PmWrite
  <1> HIDE DEF w, new
  <1>4. CASE \/ PmReturn(th, new) /\ UNCHANGED val
             \/ PmReturn(th, w) /\ UNCHANGED val
    <2>1. TablesTyped'
      BY <1>3, <1>4 DEF TypeOK, TablesTyped, chain, chunks
    <2> QED
      BY <1>1, <1>2, <1>3, <1>4, <2>1, PmReturnTyped, StepTyped
  <1>5. CASE val' = [val EXCEPT ![l][i] = new] /\ PmReturn(th, new)
    <2>1. TablesTyped'
      BY <1>2, <1>3, <1>5, ValWritten DEF TypeOK
    <2> QED
      BY <1>1, <1>2, <1>3, <1>5, <2>1, PmReturnTyped, StepTyped
  <1>6. CASE /\ Goto(th, "pm_top")
             /\ pm' = [pm EXCEPT ![th].v = Empty]
             /\ UNCHANGED <<val, top, mv, scan, ret>>
    <2>1. TablesTyped'
      BY <1>3, <1>6 DEF TypeOK, TablesTyped, chain, chunks
    <2>2. /\ pm' \in [Threads -> FrameType]
          /\ pm'[th] = [pm[th] EXCEPT !.v = Empty]
          /\ scan' \in [Threads -> ScanType]
          /\ \A t2 \in Threads \ {th} : pm'[t2] = pm[t2] /\ scan'[t2] = scan[t2]
      BY <1>2, <1>6, NoneTyped, FrameUpdates DEF TypeOK, LocalsTyped
    <2>3. /\ pm'[th].key = pm[th].key /\ pm'[th].val = pm[th].val
          /\ pm'[th].mover = pm[th].mover
      BY <1>2, <2>2, NoneTyped, FrameUpdates
    <2>4. LocalStep(th)
      BY <1>1, <1>3, <1>6, <2>2, <2>3, PmJump
    <2> QED
      BY <2>1, <2>4, StepTyped
  <1> QED
    BY <1>4, <1>5, <1>6 DEF PmWrite, w, new

\* What is known of a thread in raw_lookup, or in the probe loop of get.
LEMMA ScanningFacts ==
  ASSUME TypeOK, NEW th \in Threads, Scanning(th)
  PROVE  /\ scan[th] \in ScanType /\ scan[th].table \in Tables
         /\ scan[th].i \in Slots(scan[th].table)
         /\ scan[th].key \in Keys \union {NULL} /\ scan[th].v \in Word
         /\ val[scan[th].table][scan[th].i] \in Word
         /\ pc[th] # "idle" /\ pc[th] \notin PutLabels \union {"mv_key", "mv_prime"}
         /\ call[th].key \in Keys
  <1>1. pc[th] # "idle" /\ pc[th] \notin PutLabels \union {"mv_key", "mv_prime"}
    BY DEF Scanning, PutLabels
  <1>2. scan[th].table \in Tables /\ scan[th].i \in Slots(scan[th].table)
    BY Fields DEF TypeOK, FrameInUse
  <1>3. val[scan[th].table][scan[th].i] \in Word
    BY <1>2 DEF TypeOK, TablesTyped
  <1> QED
    BY <1>1, <1>2, <1>3, Fields DEF TypeOK, LocalsTyped, FrameInUse

LEMMA ScanUpdates ==
  ASSUME NEW f \in ScanType
  PROVE  /\ \A i \in Nat : LET g == [f EXCEPT !.i = i] IN
              g \in ScanType /\ g.table = f.table /\ g.i = i
         /\ \A w \in Word : LET g == [f EXCEPT !.v = w] IN
              g \in ScanType /\ g.table = f.table /\ g.i = f.i
  BY DEF ScanType

\* A jump from one step of a lookup to the next, or back to put_if_match.
LEMMA ScanJump ==
  ASSUME TypeOK, NEW th \in Threads, Scanning(th),
         NEW label \in {"rl_val", "rl_key", "get_val", "get_key", "pm_adopt"},
         Goto(th, label),
         label \in {"rl_val", "rl_key"} => pc[th] \in {"rl_val", "rl_key", "get_key"},
         label \in {"get_val", "get_key"} => pc[th] \in {"get_val", "get_key"},
         label = "pm_adopt" => InPutIfMatch(th) /\ pc[th] = "rl_key",
         scan' \in [Threads -> ScanType],
         \A t2 \in Threads \ {th} : scan'[t2] = scan[t2],
         label # "pm_adopt" => scan'[th].i \in Slots(scan'[th].table),
         UNCHANGED <<call, top, mv, pm, ret>>
  PROVE  LocalStep(th)
  <1>1. LocalsTyped'
    BY LabelsTyped DEF TypeOK, LocalsTyped, Goto, PutLabels
  <1>2. /\ pc'[th] = label /\ call'[th] = call[th] /\ top'[th] = top[th]
        /\ mv'[th] = mv[th] /\ pm'[th] = pm[th] /\ FrameInUse(th)
    BY DEF TypeOK, LocalsTyped, Goto
  <1>3. /\ pc[th] \notin PutLabels /\ pc[th] \notin {"idle", "mv_key", "mv_prime"}
        /\ pc[th] \in {"rl_val", "rl_key"} \/ pm[th] = NoFrame
    BY <1>2, ScanningFacts DEF FrameInUse, Scanning, PutLabels, Asserts
  <1>4. FrameInUse(th)'
    BY <1>2, <1>3
    DEF FrameInUse, Moving, Putting, Scanning, AtSlot, InPutIfMatch, PutLabels, NoFrame
  <1>5. \A t2 \in Threads \ {th} : SameLocals(t2)
    BY DEF TypeOK, LocalsTyped, Goto, SameLocals
  <1> QED
    BY <1>1, <1>4, <1>5 DEF LocalStep

LEMMA ScanValTyped ==
  ASSUME TypeOK, NEW th \in Threads, ScanVal(th)
  PROVE  TypedStep(th)
  <1> DEFINE w == val[scan[th].table][scan[th].i]
  <1>1. Scanning(th)
    BY DEF ScanVal, At, Scanning
  <1>2. /\ scan[th] \in ScanType /\ w \in Word
        /\ scan[th].i \in Slots(scan[th].table)
    BY <1>1, ScanningFacts
  <1>3. /\ scan' = [scan EXCEPT ![th].v = w]
        /\ UNCHANGED tables /\ UNCHANGED <<call, top, mv, pm, ret>>
    BY DEF ScanVal
  <1> HIDE DEF w
  <1>4. TablesTyped'
    BY <1>3 DEF TypeOK, TablesTyped, tables, chain, slots, chunks
  <1>5. /\ scan' \in [Threads -> ScanType]
        /\ scan'[th] = [scan[th] EXCEPT !.v = w]
        /\ \A t2 \in Threads \ {th} : scan'[t2] = scan[t2]
    BY <1>2, <1>3, ScanUpdates DEF TypeOK, LocalsTyped
  <1>6. scan'[th].i \in Slots(scan'[th].table)
    BY <1>2, <1>5, ScanUpdates
  <1>7. CASE At(th, "rl_val") /\ Goto(th, "rl_key")
    BY <1>1, <1>3, <1>4, <1>5, <1>6, <1>7, ScanJump, StepTyped DEF At
  <1>8. CASE At(th, "get_val") /\ Goto(th, "get_key")
    BY <1>1, <1>3, <1>4, <1>5, <1>6, <1>8, ScanJump, StepTyped DEF At
  <1> QED
    BY <1>7, <1>8 DEF ScanVal

\* The lookup goes on with the next slot.
LEMMA ScanNextTyped ==
  ASSUME TypeOK, NEW th \in Threads, Scanning(th),
         NEW label \in {"rl_val", "get_val"},
         label = "rl_val" => pc[th] = "rl_key", label = "get_val" => pc[th] = "get_key",
         ScanNext(th, NextSlot(scan[th].table, scan[th].i), label), UNCHANGED call
  PROVE  LocalStep(th)
  <1> DEFINE n == NextSlot(scan[th].table, scan[th].i)
  <1>1. scan[th] \in ScanType /\ n \in Slots(scan[th].table) /\ n \in Nat
    BY ScanningFacts, NextSlotTyped
  <1>2. /\ scan' = [scan EXCEPT ![th].i = n]
        /\ Goto(th, label) /\ UNCHANGED <<call, top, mv, pm, ret>>
    BY DEF ScanNext
  <1> HIDE DEF n
  <1>3. /\ scan' \in [Threads -> ScanType]
        /\ scan'[th] = [scan[th] EXCEPT !.i = n]
        /\ \A t2 \in Threads \ {th} : scan'[t2] = scan[t2]
    BY <1>1, <1>2, ScanUpdates DEF TypeOK, LocalsTyped
  <1>4. scan'[th].i \in Slots(scan'[th].table)
    BY <1>1, <1>3, ScanUpdates
  <1> QED
    BY <1>2, <1>3, <1>4, ScanJump

LEMMA RlReturnTyped ==
  ASSUME TypeOK, NEW th \in Threads, pc[th] = "rl_key", NEW w \in Word,
         RlReturn(th, w), UNCHANGED call
  PROVE  LocalStep(th)
  <1>1. Scanning(th)
    BY DEF Scanning
  <1>2. scan[th] \in ScanType /\ pc[th] # "idle"
    BY <1>1, ScanningFacts
  <1>3. CASE Return(th, w)
    BY <1>2, <1>3, ReturnTyped
  <1>4. CASE /\ InPutIfMatch(th)
             /\ Goto(th, "pm_adopt")
             /\ scan' = [scan EXCEPT ![th].v = w]
             /\ UNCHANGED <<top, mv, pm, ret>>
    <2>1. /\ scan' \in [Threads -> ScanType]
          /\ \A t2 \in Threads \ {th} : scan'[t2] = scan[t2]
      BY <1>2, <1>4, ScanUpdates DEF TypeOK, LocalsTyped
    <2> QED
      BY <1>1, <1>4, <2>1, ScanJump
  <1> QED
    BY <1>3, <1>4 DEF RlReturn

LEMMA RlKeyTyped ==
  ASSUME TypeOK, NEW th \in Threads, RlKey(th)
  PROVE  TypedStep(th)
  <1>1. Scanning(th) /\ pc[th] = "rl_key"
    BY DEF RlKey, At, Scanning
  <1>2. UNCHANGED tables /\ UNCHANGED call
    BY DEF RlKey
  <1>3. TablesTyped'
    BY <1>2 DEF TypeOK, TablesTyped, tables, chain, slots, chunks
  <1>4. scan[th].v \in Word
    BY <1>1, ScanningFacts
  <1>5. CASE \E w \in {Empty, scan[th].v} : RlReturn(th, w)
    BY <1>1, <1>2, <1>3, <1>4, <1>5, NoneTyped, RlReturnTyped, StepTyped
  <1>6. CASE ScanNext(th, NextSlot(scan[th].table, scan[th].i), "rl_val")
    BY <1>1, <1>2, <1>3, <1>6, ScanNextTyped, StepTyped
  <1> QED
    BY <1>5, <1>6 DEF RlKey

LEMMA GetKeyTyped ==
  ASSUME TypeOK, NEW th \in Threads, GetKey(th)
  PROVE  TypedStep(th)
  <1> DEFINE p == top[th].prev
             s == Probe(p, call[th].key, call[th].key)
  <1>1. Scanning(th) /\ pc[th] = "get_key"
    BY DEF GetKey, At, Scanning
  <1>2. UNCHANGED tables /\ UNCHANGED call
    BY DEF GetKey
  <1>3. TablesTyped'
    BY <1>2 DEF TypeOK, TablesTyped, tables, chain, slots, chunks
  <1>4. /\ scan[th].v \in Word /\ p \in MaybeTable /\ call[th].key \in Keys
        /\ pc[th] # "idle"
    BY <1>1, ScanningFacts, Fields DEF TypeOK
  <1>5. CASE /\ p # NULL
             /\ scan' = [scan EXCEPT ![th] = s]
             /\ Goto(th, "rl_val")
             /\ UNCHANGED <<top, mv, pm, ret>>
    <2>1. s \in ScanType /\ s.i \in Slots(s.table)
      BY <1>4, <1>5, ProbeTyped DEF MaybeTable
    <2>2. /\ scan' \in [Threads -> ScanType] /\ scan'[th] = s
          /\ \A t2 \in Threads \ {th} : scan'[t2] = scan[t2]
      BY <1>5, <2>1 DEF TypeOK, LocalsTyped
    <2>3. LocalStep(th)
      BY <1>1, <1>2, <1>5, <2>1, <2>2, ScanJump
    <2> QED
      BY <1>3, <2>3, StepTyped
  <1>6. CASE Return(th, scan[th].v)
    BY <1>2, <1>3, <1>4, <1>6, ReturnTyped, StepTyped
  <1>7. CASE ScanNext(th, NextSlot(scan[th].table, scan[th].i), "get_val")
    BY <1>1, <1>2, <1>3, <1>7, ScanNextTyped, StepTyped
  <1> QED
    BY <1>5, <1>6, <1>7 DEF GetKey

LEMMA EveryStepTyped ==
  ASSUME TypeOK, NEW th \in Threads, Step(th)
  PROVE  TypedStep(th)
  BY BeginTyped, LoadLatestTyped, LoadPrevTyped, ReloadTyped, ExitTyped,
     MvClaimTyped, MvKeyTyped, MvPrimeTyped, MvDoneTyped, MvDetachTyped, PmTopTyped,
     PmLatestTyped, PmPrevTyped, PmValTyped, PmKeyTyped, PmCountTyped,
     PmBarrierTyped, PmAdoptTyped, PmWriteTyped, ScanValTyped, RlKeyTyped, GetKeyTyped
  DEF Step

LEMMA NextTyped ==
  ASSUME TypeOK, [Next]_vars
  PROVE  TypeOK'
  <1>1. ASSUME NEW th \in Threads, Step(th) PROVE TypeOK'
    BY <1>1, EveryStepTyped DEF TypedStep
  <1>2. ASSUME UNCHANGED vars PROVE TypeOK'
    BY <1>2 DEF vars, tables, chain, slots, chunks, TypeOK, TablesTyped, LocalsTyped,
       FrameInUse, Moving, Putting, Scanning, AtSlot, InPutIfMatch
  <1> QED
    BY <1>1, <1>2 DEF Next

\* No operation of the map ever reads or writes a slot outside a table, or a
\* table that does not exist, wherever a migration displaces it.
THEOREM TypeCorrect == Spec => []TypeOK
  BY InitTyped, NextTyped, PTL DEF Spec

-----------------------------------------------------------------------------
(***************************************************************************)
(* Open addressing: no empty slot and no second copy of a key comes before *)
(* the key on its probe sequence.  UniqueKeys alone is not inductive: the  *)
(* claim of an empty slot is safe only because the claimer has walked over *)
(* every slot before it, and what it found there never changes.            *)
(***************************************************************************)
LEMMA DistanceFacts ==
  ASSUME NEW t \in Tables, NEW f \in Slots(t)
  PROVE  /\ Distance(t, f, f) = 0
         /\ \A s \in Slots(t) : Distance(t, f, s) \in Nat
         /\ \A s, r \in Slots(t) : Distance(t, f, s) = Distance(t, f, r) => s = r
         /\ \A s \in Slots(t) : NextSlot(t, s) # f =>
               Distance(t, f, NextSlot(t, s)) = Distance(t, f, s) + 1
  <1> DEFINE c == Cap[t]
  <1>1. c \in Nat /\ c > 0
    BY SizeAssumption
  <1>2. Slots(t) = 0..(c - 1)
    BY DEF Slots
  <1>3. \A s : NextSlot(t, s) = IF s = c - 1 THEN 0 ELSE s + 1
    BY DEF NextSlot
  <1>4. \A s : Distance(t, f, s) = IF s >= f THEN s - f ELSE s - f + c
    BY DEF Distance
  <1> HIDE DEF c
  <1>5. f \in Nat /\ f < c /\ \A s \in Slots(t) : s \in Nat /\ s < c
    BY <1>1, <1>2
  <1>6. Distance(t, f, f) = 0
    BY <1>4, <1>5
  <1>7. \A s \in Slots(t) : Distance(t, f, s) \in Nat
    BY <1>1, <1>4, <1>5
  <1>8. ASSUME NEW s \in Slots(t), NEW r \in Slots(t), Distance(t, f, s) = Distance(t, f, r)
        PROVE  s = r
    BY <1>1, <1>4, <1>5, <1>8
  <1>9. ASSUME NEW s \in Slots(t), NextSlot(t, s) # f
        PROVE  Distance(t, f, NextSlot(t, s)) = Distance(t, f, s) + 1
    <2>1. CASE s = c - 1
      BY <1>1, <1>3, <1>4, <1>5, <1>9, <2>1
    <2>2. CASE s # c - 1
      BY <1>1, <1>3, <1>4, <1>5, <1>9, <2>2
    <2> QED
      BY <2>1, <2>2
  <1> QED
    BY <1>6, <1>7, <1>8, <1>9

\* The claim of an empty slot by put_if_match is the only write to a key.
Claims(th) ==
    LET l == pm[th].latest
        i == pm[th].i
    IN  /\ pc[th] = "pm_key" /\ key[l][i] = NULL
        /\ key' = [key EXCEPT ![l][i] = pm[th].key]
        /\ pc'[th] = "pm_count"

LEMMA KeyWrites ==
  ASSUME TypeOK, NEW th \in Threads, Step(th)
  PROVE  key' = key \/ Claims(th)
  <1>1. CASE PmKey(th)
    BY <1>1 DEF PmKey, Claims, Claimable, At, Goto, TypeOK, LocalsTyped
  <1>2. CASE PmTop(th) \/ PmCount(th) \/ PmAdopt(th) \/ PmWrite(th)
    BY <1>2 DEF PmTop, PmCount, PmAdopt, PmWrite, slots
  <1>3. CASE MvClaim(th) \/ MvPrime(th) \/ MvDone(th) \/ MvDetach(th)
    BY <1>3 DEF MvClaim, MvPrime, MvDone, MvDetach, slots
  <1>4. CASE UNCHANGED tables
    BY <1>4 DEF tables, slots
  <1> QED
    BY <1>1, <1>2, <1>3, <1>4
    DEF Step, Begin, LoadLatest, LoadPrev, Reload, Exit, MvKey, PmLatest, PmPrev, LoadedPrev, PmVal,
        PmBarrier, ScanVal, RlKey, GetKey

\* How a thread comes to be at a slot of its probe.
StartsProbe(th) == pm'[th].i = Home[pm'[th].key][pm'[th].latest]

StaysAtSlot(th) ==
    /\ pc[th] \in {"pm_val", "pm_key"}
    /\ pm'[th].latest = pm[th].latest /\ pm'[th].key = pm[th].key
    /\ pm'[th].i = pm[th].i

StepsOver(th) ==
    LET l == pm[th].latest
        i == pm[th].i
    IN  /\ pc[th] = "pm_key"
        /\ pm'[th].latest = l /\ pm'[th].key = pm[th].key
        /\ key[l][i] \notin {NULL, pm[th].key}
        /\ NextSlot(l, i) # Home[pm[th].key][l]
        /\ pm'[th].i = NextSlot(l, i)

LEMMA ProbeSteps ==
  ASSUME TypeOK, NEW th \in Threads, Step(th), pc'[th] \in {"pm_val", "pm_key"}
  PROVE  StartsProbe(th) \/ StaysAtSlot(th) \/ StepsOver(th)
  <1>1. pc \in [Threads -> Labels] /\ pm \in [Threads -> FrameType] /\ pm[th] \in FrameType
    BY DEF TypeOK, LocalsTyped
  <1>2. CASE PmTop(th)
    <2>1. /\ pm' = [pm EXCEPT ![th].i = Home[pm[th].key][pm[th].latest]]
      BY <1>1, <1>2 DEF PmTop, At, Goto
    <2>2. pm'[th] = [pm[th] EXCEPT !.i = Home[pm[th].key][pm[th].latest]]
      BY <1>1, <2>1
    <2> QED
      BY <1>1, <2>2 DEF StartsProbe, FrameType
  <1>3. CASE PmVal(th)
    <2>1. /\ pm'[th] = [pm[th] EXCEPT !.v = val[pm[th].latest][pm[th].i]]
          /\ pc[th] = "pm_val"
      BY <1>1, <1>3 DEF PmVal, At
    <2> QED
      BY <1>1, <2>1 DEF StaysAtSlot, FrameType
  <1>4. CASE PmKey(th)
    <2> DEFINE l == pm[th].latest
               i == pm[th].i
    <2>1. ~ PmReturn(th, Empty)
      BY <1>1 DEF PmReturn, MvAdvance, Return, Goto
    <2>2. /\ pc[th] = "pm_key" /\ key[l][i] \notin {NULL, pm[th].key}
          /\ NextSlot(l, i) # Home[pm[th].key][l]
          /\ pm'[th] = [pm[th] EXCEPT !.i = NextSlot(l, i)]
      BY <1>1, <1>4, <2>1 DEF PmKey, At, Goto, Claimable
    <2> QED
      BY <1>1, <2>2 DEF StepsOver, FrameType
  <1>5. CASE PmAdopt(th) \/ PmBarrier(th) \/ PmCount(th) \/ PmLatest(th) \/ PmPrev(th)
    BY <1>1, <1>5 DEF PmAdopt, PmBarrier, PmCount, PmLatest, PmPrev, LoadedPrev, AfterBarrier, Goto
  <1>6. CASE PmWrite(th)
    BY <1>1, <1>6 DEF PmWrite, PmReturn, MvAdvance, Return, Goto
  <1>7. CASE Begin(th) \/ LoadLatest(th) \/ Exit(th) \/ MvKey(th) \/ MvDetach(th) \/ ScanVal(th)
    BY <1>1, <1>7 DEF Begin, LoadLatest, Exit, MvKey, MvDetach, ScanVal, Goto
  <1>8. CASE LoadPrev(th) \/ Reload(th) \/ MvClaim(th) \/ MvDone(th)
    BY <1>1, <1>8
    DEF LoadPrev, Reload, MvClaim, MvDone, Serve, CallPutIfMatch, Return, Goto
  <1>9. CASE MvPrime(th)
    BY <1>1, <1>9 DEF MvPrime, MvAdvance, CallPutIfMatch, Goto
  <1>10. CASE RlKey(th) \/ GetKey(th)
    BY <1>1, <1>10 DEF RlKey, GetKey, RlReturn, Return, ScanNext, Goto
  <1> QED
    BY <1>2, <1>3, <1>4, <1>5, <1>6, <1>7, <1>8, <1>9, <1>10 DEF Step

LEMMA KeysOnPathStep ==
  ASSUME TypeOK, KeysOnPath, NEW th \in Threads, Step(th)
  PROVE  KeysOnPath'
  <1>1. TypeOK' /\ \A t2 \in Threads \ {th} : SameLocals(t2)
    BY EveryStepTyped DEF TypedStep, LocalStep
  <1>2. \A t \in Tables : \A s \in Slots(t) : key[t][s] # NULL => key'[t][s] = key[t][s]
    <2>1. CASE key' = key
      BY <2>1
    <2>2. CASE Claims(th)
      <3>1. \A t \in Tables : key[t] \in [Slots(t) -> Keys \union {NULL}] /\ DOMAIN key = Tables
        BY DEF TypeOK, TablesTyped
      <3> QED
        BY <2>2, <3>1 DEF Claims
    <2> QED
      BY <2>1, <2>2, KeyWrites
  \* What a probe has passed stays passed.
  <1>3. ASSUME NEW t \in Tables, NEW k, NEW s \in Slots(t), Passed(t, k, s)
        PROVE  Passed(t, k, s)'
    BY <1>2, <1>3 DEF Passed
  <1>4. ASSUME NEW t \in Tables, NEW s \in Slots(t), key'[t][s] # NULL
        PROVE  Passed(t, key[t][s], s)'
    <2>1. CASE key[t][s] # NULL
      <3>1. Passed(t, key[t][s], s)
        BY <2>1 DEF KeysOnPath
      <3>2. key'[t][s] = key[t][s]
        BY <1>2, <2>1
      <3> QED
        BY <1>2, <3>1, <3>2 DEF Passed
    <2>2. CASE key[t][s] = NULL
      <3>1. Claims(th) /\ t = pm[th].latest /\ s = pm[th].i /\ key'[t][s] = pm[th].key
        <4>1. Claims(th)
          BY <1>4, <2>2, KeyWrites
        <4>2. DOMAIN key = Tables /\ key[t] \in [Slots(t) -> Keys \union {NULL}]
          BY DEF TypeOK, TablesTyped
        <4> QED
          BY <1>4, <2>2, <4>1, <4>2 DEF Claims
      <3>2. Passed(t, pm[th].key, s)
        BY <3>1 DEF KeysOnPath, Claims
      <3> QED
        BY <1>2, <3>1, <3>2 DEF Passed
    <2> QED
      BY <2>1, <2>2
  <1>5. ASSUME NEW t2 \in Threads, pc'[t2] \in {"pm_val", "pm_key"}
        PROVE  Passed(pm[t2].latest, pm[t2].key, pm[t2].i)'
    <2>1. CASE t2 # th
      <3>1. pm'[t2] = pm[t2] /\ pc[t2] \in {"pm_val", "pm_key"}
        BY <1>1, <1>5, <2>1 DEF SameLocals
      <3>2. pm[t2].latest \in Tables /\ pm[t2].i \in Slots(pm[t2].latest)
        BY <3>1, PuttingFacts, ProbingFacts DEF PutLabels
      <3>3. Passed(pm[t2].latest, pm[t2].key, pm[t2].i)
        BY <3>1 DEF KeysOnPath
      <3> QED
        BY <1>2, <3>1, <3>2, <3>3 DEF Passed
    <2>2. CASE t2 = th
      <3> DEFINE l == pm'[th].latest
                 k == pm'[th].key
                 i == pm'[th].i
                 d == Home[k][l]
      <3>1. l \in Tables /\ k \in Keys /\ i \in Slots(l) /\ d \in Slots(l)
        <4>1. /\ pm'[th] \in FrameType /\ FrameInUse(th)'
          BY <1>1 DEF TypeOK, LocalsTyped
        <4>2. Putting(th)' /\ AtSlot(th)'
          BY <1>5, <2>2 DEF Putting, AtSlot, PutLabels
        <4>3. l \in Tables /\ k \in Keys /\ i \in Slots(l)
          BY <4>1, <4>2 DEF FrameInUse, FrameType
        <4> QED
          BY <4>3, HomeSlot
      <3>2. CASE StartsProbe(th)
        <4>1. i = d
          BY <3>2 DEF StartsProbe
        <4> HIDE DEF i, d
        <4>2. \A x \in Slots(l) : ~(Distance(l, d, x) < Distance(l, d, i))
          BY <3>1, <4>1, DistanceFacts
        <4> QED
          BY <2>2, <4>2 DEF Passed, i, d
      <3>3. CASE StaysAtSlot(th)
        BY <1>2, <2>2, <3>1, <3>3 DEF StaysAtSlot, KeysOnPath, Passed
      <3>4. CASE StepsOver(th)
        <4>1. /\ pm[th].latest = l /\ pm[th].key = k /\ pm[th].i \in Slots(l)
              /\ key[l][pm[th].i] \notin {NULL, k} /\ NextSlot(l, pm[th].i) # d
              /\ i = NextSlot(l, pm[th].i)
          BY <3>4, ProbingFacts DEF StepsOver, PutLabels
        <4>2. Passed(l, k, pm[th].i)
          BY <3>4, <4>1 DEF KeysOnPath, StepsOver
        <4> DEFINE j == pm[th].i
        <4> HIDE DEF i, j, k, l, d
        <4>3. Distance(l, d, i) = Distance(l, d, j) + 1
          BY <3>1, <4>1, DistanceFacts DEF j
        <4>4. ASSUME NEW x \in Slots(l), Distance(l, d, x) < Distance(l, d, i)
              PROVE  key[l][x] \notin {NULL, k}
          <5>1. CASE x = j
            BY <4>1, <5>1 DEF j
          <5>2. CASE x # j
            <6>1. Distance(l, d, x) < Distance(l, d, j)
              BY <3>1, <4>1, <4>3, <4>4, <5>2, DistanceFacts DEF j
            <6> QED
              BY <4>2, <6>1 DEF Passed, j, d
          <5> QED
            BY <5>1, <5>2
        <4>5. \A x \in Slots(l) : Distance(l, d, x) < Distance(l, d, i) =>
                  key'[l][x] \notin {NULL, k}
          BY <1>2, <3>1, <4>4
        <4> QED
          BY <2>2, <4>5 DEF Passed, i, k, l, d
      <3> QED
        BY <1>5, <2>2, <3>2, <3>3, <3>4, ProbeSteps
    <2> QED
      BY <2>1, <2>2
  <1> QED
    BY <1>4, <1>5 DEF KeysOnPath

\* A key occupies at most one slot of a table: two copies on one probe
\* sequence would each have to come before the other.
LEMMA OnPathUnique == TypeOK /\ KeysOnPath => UniqueKeys
  <1> SUFFICES ASSUME TypeOK, KeysOnPath, NEW t \in Tables,
                      NEW s1 \in Slots(t), NEW s2 \in Slots(t),
                      key[t][s1] # NULL, key[t][s1] = key[t][s2]
               PROVE  s1 = s2
    BY DEF UniqueKeys
  <1> DEFINE k == key[t][s1]
             d == Home[k][t]
  <1>1. k \in Keys
    BY DEF TypeOK, TablesTyped
  <1>2. d \in Slots(t)
    BY <1>1, HomeSlot
  <1>3. Passed(t, k, s1) /\ Passed(t, k, s2)
    BY DEF KeysOnPath
  <1>4. /\ ~(Distance(t, d, s1) < Distance(t, d, s2))
        /\ ~(Distance(t, d, s2) < Distance(t, d, s1))
    BY <1>3 DEF Passed
  <1> HIDE DEF d
  <1> QED
    BY <1>2, <1>4, DistanceFacts

LEMMA InitOnPath == Init => KeysOnPath
  BY DEF Init, KeysOnPath

LEMMA NextOnPath ==
  ASSUME TypeOK, KeysOnPath, [Next]_vars
  PROVE  KeysOnPath'
  <1>1. ASSUME UNCHANGED vars PROVE KeysOnPath'
    BY <1>1 DEF vars, tables, slots, KeysOnPath, Passed
  <1> QED
    BY <1>1, KeysOnPathStep DEF Next

\* Every claimed key is found by the probe loops of put_if_match, raw_lookup
\* and get, whatever claims and migrations run beside them.
THEOREM ProbesFindKeys == Spec => []KeysOnPath
  <1>1. Init /\ [][Next]_vars => [](TypeOK /\ KeysOnPath)
    BY InitTyped, NextTyped, InitOnPath, NextOnPath, PTL
  <1> QED
    BY <1>1, PTL DEF Spec

\* Threads that race to claim a slot for one key agree on the slot.
THEOREM KeysAreUnique == Spec => []UniqueKeys
  BY TypeCorrect, ProbesFindKeys, OnPathUnique, PTL

-----------------------------------------------------------------------------
(***************************************************************************)
(* What is written and what is returned.  A value is written by CAS on a   *)
(* word that was read before, so it matters which words can be expected:   *)
(* never a primed one, and Empty only if nothing else was seen.            *)
(***************************************************************************)
InLookup(th) == pc[th] \in {"rl_val", "rl_key"} /\ InPutIfMatch(th)

Settled(th) ==
    /\ pc[th] = "pm_write" => ~pm[th].v.prime
    /\ pc[th] = "pm_adopt" \/ InLookup(th) => pm[th].v = Empty
    /\ AtSlot(th) /\ pc[th] # "pm_val" /\ pm[th].v # Empty =>
          val[pm[th].latest][pm[th].i] # Empty
    /\ Putting(th) /\ ~pm[th].mover =>
          call[th].op \in {"put", "remove"} /\ pm[th].val = call[th].val
    /\ Scanning(th) /\ ~InPutIfMatch(th) => call[th].op = "get"
    /\ call[th].op = "put" => call[th].val \in Values
    /\ pc[th] = "exit" /\ call[th].op \in {"put", "remove"} =>
          /\ ~ret[th].prime
          /\ call[th].op = "put" => ret[th] # Empty

AllSettled == \A th \in Threads : Settled(th)

LEMMA InitSettled == Init => AllSettled
  BY DEF Init, AllSettled, Settled, InLookup, InPutIfMatch, AtSlot, Putting, Scanning,
         PutLabels, NoFrame, NoCall

\* Values written: a word that is not Empty never becomes Empty, and a
\* primed word is never written.
ValGrows ==
    \A t \in Tables : \A s \in Slots(t) :
        /\ val[t][s] # Empty => val'[t][s] # Empty
        /\ val[t][s].prime => val'[t][s] = val[t][s]

LEMMA SlotWritten ==
  ASSUME TypeOK, NEW t \in Tables, NEW s \in Slots(t), NEW w \in Word,
         val' = [val EXCEPT ![t][s] = w],
         val[t][s] # Empty => w # Empty, val[t][s].prime => w = val[t][s]
  PROVE  ValGrows
  <1>1. DOMAIN val = Tables /\ \A u \in Tables : val[u] \in [Slots(u) -> Word]
    BY DEF TypeOK, TablesTyped
  <1> QED
    BY <1>1 DEF ValGrows

LEMMA ValSteps ==
  ASSUME TypeOK, NEW th \in Threads, Settled(th), Step(th)
  PROVE  ValGrows
  <1>1. CASE MvPrime(th)
    <2> DEFINE t == top[th].prev
               s == mv[th].i
    <2>1. t \in Tables /\ s \in Slots(t)
      BY <1>1, MovingFacts DEF MvPrime, At
    <2>2. val[t][s] \in Word /\ Frozen(val[t][s]) \in Word
      BY <2>1, FrozenTyped DEF TypeOK, TablesTyped
    <2>3. val' = [val EXCEPT ![t][s] = Frozen(val[t][s])]
      BY <1>1 DEF MvPrime
    <2>4. Frozen(val[t][s]) # Empty /\ (val[t][s].prime => Frozen(val[t][s]) = val[t][s])
      BY DEF Frozen, Empty, Plain
    <2> QED
      BY <2>1, <2>2, <2>3, <2>4, SlotWritten
  <1>2. CASE PmAdopt(th)
    <2> DEFINE t == pm[th].latest
               s == pm[th].i
               w == IF val[t][s] = Empty THEN Plain(scan[th].v.v) ELSE val[t][s]
    <2>1. t \in Tables /\ s \in Slots(t) /\ val[t][s] \in Word
      BY <1>2, PuttingFacts, ProbingFacts DEF PmAdopt, At, PutLabels
    <2>2. scan[th].v \in Word
      BY Fields DEF TypeOK
    <2>3. w \in Word
      BY <2>1, <2>2, PlainTyped DEF Word
    <2>4. val' = val \/ val' = [val EXCEPT ![t][s] = w]
      BY <1>2 DEF PmAdopt
    <2>5. /\ val[t][s] # Empty => w # Empty
          /\ val[t][s].prime => w = val[t][s]
      BY DEF Empty, Plain
    <2> HIDE DEF w
    <2>6. CASE val' = val
      BY <2>6 DEF ValGrows
    <2> QED
      BY <2>1, <2>3, <2>4, <2>5, <2>6, SlotWritten
  <1>3. CASE PmWrite(th)
    <2> DEFINE t == pm[th].latest
               s == pm[th].i
               new == Plain(pm[th].val)
    <2>1. pc[th] = "pm_write"
      BY <1>3 DEF PmWrite, At
    <2>2. t \in Tables /\ s \in Slots(t) /\ new \in Word /\ pm[th].val # NULL
      BY <2>1, PuttingFacts, ProbingFacts, PlainTyped DEF PutLabels
    <2>3. \/ val' = val
          \/ val' = [val EXCEPT ![t][s] = new] /\ val[t][s] = pm[th].v
      BY <1>3 DEF PmWrite, CasWins
    <2>4. new # Empty
      BY <2>2 DEF Empty, Plain
    <2>5. ~pm[th].v.prime
      BY <2>1 DEF Settled
    <2>6. CASE val' = val
      BY <2>6 DEF ValGrows
    <2> HIDE DEF new
    <2> QED
      BY <2>2, <2>3, <2>4, <2>5, <2>6, SlotWritten
  <1>4. CASE val' = val
    BY <1>4 DEF ValGrows
  <1> QED
    BY <1>1, <1>2, <1>3, <1>4
    DEF Step, tables, slots, Begin, LoadLatest, LoadPrev, Reload, Exit, MvClaim, MvKey,
        MvDone, MvDetach, PmTop, PmLatest, PmPrev, LoadedPrev, PmVal, PmKey, PmCount, PmBarrier,
        ScanVal, RlKey, GetKey

\* Each operator that ends in a jump leaves its thread settled.
LEMMA ReturnSettled ==
  ASSUME TypeOK, NEW th \in Threads, Settled(th), NEW w \in Word,
         Return(th, w), UNCHANGED call,
         call[th].op \in {"put", "remove"} => ~w.prime,
         call[th].op = "put" => w # Empty
  PROVE  Settled(th)'
  <1>1. /\ pc'[th] = "exit" /\ pm'[th] = NoFrame /\ ret'[th] = w /\ call'[th] = call[th]
    BY DEF TypeOK, LocalsTyped, Return, Goto
  <1> QED
    BY <1>1 DEF Settled, InLookup, InPutIfMatch, AtSlot, Putting, Scanning, PutLabels, NoFrame

LEMMA CallPutIfMatchSettled ==
  ASSUME TypeOK, NEW th \in Threads, Settled(th),
         NEW l, NEW p, NEW k, NEW v, NEW m \in BOOLEAN,
         CallPutIfMatch(th, l, p, k, v, m), UNCHANGED call,
         ~m => call[th].op \in {"put", "remove"} /\ v = call[th].val
  PROVE  Settled(th)'
  <1>1. /\ pc'[th] = "pm_top" /\ call'[th] = call[th]
        /\ pm'[th] = [latest |-> l, prev |-> p, key |-> k, val |-> v,
                      i |-> 0, v |-> Empty, mover |-> m]
    BY DEF TypeOK, LocalsTyped, CallPutIfMatch, Goto
  <1> QED
    BY <1>1 DEF Settled, InLookup, InPutIfMatch, AtSlot, Putting, Scanning, PutLabels

LEMMA ServeSettled ==
  ASSUME TypeOK, NEW th \in Threads, Settled(th), pm[th] = NoFrame,
         NEW l, NEW p, Serve(th, l, p), UNCHANGED call
  PROVE  Settled(th)'
  <1>1. CASE /\ call[th].op \in {"put", "remove"}
             /\ CallPutIfMatch(th, l, p, call[th].key, call[th].val, FALSE)
    BY <1>1, CallPutIfMatchSettled
  <1>2. CASE /\ call[th].op = "get" /\ Goto(th, "get_val") /\ UNCHANGED pm
    <2>1. pc'[th] = "get_val" /\ pm'[th] = NoFrame /\ call'[th] = call[th]
      BY <1>2 DEF TypeOK, LocalsTyped, Goto
    <2> QED
      BY <1>2, <2>1
      DEF Settled, InLookup, InPutIfMatch, AtSlot, Putting, Scanning, PutLabels, NoFrame
  <1>3. CASE Goto(th, "load_prev") /\ UNCHANGED pm
    <2>1. pc'[th] = "load_prev" /\ pm'[th] = NoFrame /\ call'[th] = call[th]
      BY <1>3 DEF TypeOK, LocalsTyped, Goto
    <2> QED
      BY <2>1
      DEF Settled, InLookup, InPutIfMatch, AtSlot, Putting, Scanning, PutLabels, NoFrame
  <1> QED
    BY <1>1, <1>2, <1>3 DEF Serve

LEMMA MvAdvanceSettled ==
  ASSUME TypeOK, NEW th \in Threads, Settled(th), MvAdvance(th), pm'[th] = NoFrame,
         UNCHANGED call
  PROVE  Settled(th)'
  <1>1. pc'[th] \in {"mv_key", "mv_done"} /\ call'[th] = call[th]
    BY DEF TypeOK, LocalsTyped, MvAdvance, Goto
  <1> QED
    BY <1>1 DEF Settled, InLookup, InPutIfMatch, AtSlot, Putting, Scanning, PutLabels, NoFrame

LEMMA PmReturnSettled ==
  ASSUME TypeOK, NEW th \in Threads, Settled(th), NEW w \in Word,
         PmReturn(th, w), UNCHANGED call,
         pc[th] \in PutLabels,
         ~w.prime, pm[th].val # TOMBSTONE => w # Empty
  PROVE  Settled(th)'
  <1>1. CASE pm[th].mover
    <2>1. pm'[th] = NoFrame /\ MvAdvance(th)
      BY <1>1 DEF PmReturn, TypeOK, LocalsTyped
    <2> QED
      BY <2>1, MvAdvanceSettled
  <1>2. CASE ~pm[th].mover
    <2>1. pm[th].val = call[th].val
      BY <1>2 DEF Settled, Putting
    <2>2. call[th].op = "put" => pm[th].val # TOMBSTONE
      BY <2>1, CallAssumption DEF Settled
    <2> QED
      BY <1>2, <2>2, ReturnSettled DEF PmReturn
  <1> QED
    BY <1>1, <1>2

\* A jump of put_if_match to a place where no word has been chosen yet.
LEMMA RestartSettled ==
  ASSUME TypeOK, NEW th \in Threads, Settled(th), pc[th] \in PutLabels,
         NEW label \in {"pm_top", "pm_latest", "pm_prev", "pm_val"}, Goto(th, label),
         /\ pm'[th].key = pm[th].key /\ pm'[th].val = pm[th].val
         /\ pm'[th].mover = pm[th].mover,
         UNCHANGED call
  PROVE  Settled(th)'
  <1>1. pc'[th] = label /\ call'[th] = call[th] /\ Putting(th)
    BY DEF TypeOK, LocalsTyped, Goto, Putting
  <1> QED
    BY <1>1 DEF Settled, InLookup, InPutIfMatch, AtSlot, Putting, Scanning, PutLabels

\* A jump of put_if_match that keeps its frame.
LEMMA KeepSettled ==
  ASSUME TypeOK, NEW th \in Threads, Settled(th), ValGrows,
         pc[th] \in PutLabels \ {"pm_top", "pm_latest", "pm_prev", "pm_val"},
         NEW label \in {"pm_top", "pm_latest", "pm_count", "pm_barrier", "pm_write",
                        "rl_val", "assert(prev->prev == NULL)"},
         Goto(th, label), pm'[th] = pm[th], UNCHANGED call,
         label = "pm_write" => ~pm[th].v.prime,
         label = "rl_val" => pm[th].v = Empty
  PROVE  Settled(th)'
  <1>1. pc'[th] = label /\ call'[th] = call[th] /\ Putting(th) /\ AtSlot(th)
    BY DEF TypeOK, LocalsTyped, Goto, Putting, AtSlot
  <1>2. InPutIfMatch(th)
    BY PuttingFacts, CallAssumption DEF InPutIfMatch
  <1>3. pm[th].v # Empty => val'[pm[th].latest][pm[th].i] # Empty
    BY <1>1, PuttingFacts, ProbingFacts DEF Settled, ValGrows
  <1> QED
    BY <1>1, <1>2, <1>3
    DEF Settled, InLookup, InPutIfMatch, AtSlot, Putting, Scanning, PutLabels

LEMMA ThreadSettled ==
  ASSUME TypeOK, NEW th \in Threads, Settled(th), Step(th)
  PROVE  Settled(th)'
  <1>0. ValGrows
    BY ValSteps
  <1>1. CASE Begin(th)
    <2>1. PICK c \in Calls[th] : call' = [call EXCEPT ![th] = c]
      BY <1>1 DEF Begin
    <2>2. pm[th] = NoFrame
      BY <1>1 DEF TypeOK, FrameInUse, Begin, At, PutLabels, Asserts
    <2>3. pc'[th] = "load_latest" /\ call'[th] = c /\ pm'[th] = NoFrame
      BY <1>1, <2>1, <2>2 DEF TypeOK, LocalsTyped, Begin, Goto
    <2>4. c.op = "put" => c.val \in Values
      BY CallAssumption
    <2> QED
      BY <2>3, <2>4
      DEF Settled, InLookup, InPutIfMatch, AtSlot, Putting, Scanning, PutLabels, NoFrame
  <1>2. CASE LoadLatest(th) \/ MvKey(th) \/ MvDetach(th)
    <2>1. pm[th] = NoFrame
      BY <1>2
      DEF TypeOK, FrameInUse, LoadLatest, MvKey, MvDetach, At, PutLabels, Asserts
    <2>2. /\ pc'[th] \in {"load_prev", "mv_prime", "reload"} /\ pm'[th] = NoFrame
          /\ call'[th] = call[th]
      BY <1>2, <2>1 DEF TypeOK, LocalsTyped, LoadLatest, MvKey, MvDetach, Goto
    <2> QED
      BY <2>2
      DEF Settled, InLookup, InPutIfMatch, AtSlot, Putting, Scanning, PutLabels, NoFrame
  <1>3. CASE Exit(th)
    <2>1. pm[th] = NoFrame
      BY <1>3 DEF TypeOK, FrameInUse, Exit, At, PutLabels, Asserts
    <2>2. pc'[th] = "idle" /\ pm'[th] = NoFrame /\ call'[th] = NoCall
      BY <1>3, <2>1 DEF TypeOK, LocalsTyped, Exit, Goto
    <2> QED
      BY <2>2
      DEF Settled, InLookup, InPutIfMatch, AtSlot, Putting, Scanning, PutLabels, NoFrame,
          NoCall
  <1>4. CASE LoadPrev(th)
    <2>1. pm[th] = NoFrame /\ call' = call
      BY <1>4 DEF TypeOK, FrameInUse, LoadPrev, At, PutLabels, Asserts
    <2>2. CASE Goto(th, "mv_claim") /\ UNCHANGED pm
      <3>1. pc'[th] = "mv_claim" /\ pm'[th] = NoFrame /\ call'[th] = call[th]
        BY <2>1, <2>2 DEF TypeOK, LocalsTyped, Goto
      <3> QED
        BY <3>1
        DEF Settled, InLookup, InPutIfMatch, AtSlot, Putting, Scanning, PutLabels, NoFrame
    <2>3. CASE Serve(th, top[th].latest, NULL)
      BY <2>1, <2>3, ServeSettled
    <2>4. CASE call[th].op = "resize_barrier" /\ Return(th, Empty)
      BY <2>1, <2>4, NoneTyped, ReturnSettled
    <2> QED
      BY <1>4, <2>2, <2>3, <2>4 DEF LoadPrev
  <1>5. CASE Reload(th)
    BY <1>5, ServeSettled DEF TypeOK, FrameInUse, Reload, At, PutLabels, Asserts
  <1>6. CASE MvClaim(th)
    <2>1. pm[th] = NoFrame /\ call' = call
      BY <1>6 DEF TypeOK, FrameInUse, MvClaim, At, PutLabels, Asserts
    <2>2. CASE Goto(th, "mv_key") /\ UNCHANGED pm
      <3>1. pc'[th] = "mv_key" /\ pm'[th] = NoFrame /\ call'[th] = call[th]
        BY <2>1, <2>2 DEF TypeOK, LocalsTyped, Goto
      <3> QED
        BY <3>1
        DEF Settled, InLookup, InPutIfMatch, AtSlot, Putting, Scanning, PutLabels, NoFrame
    <2>3. CASE Serve(th, top[th].latest, top[th].prev)
      BY <2>1, <2>3, ServeSettled
    <2> QED
      BY <1>6, <2>2, <2>3 DEF MvClaim
  <1>7. CASE MvPrime(th)
    <2>1. pm[th] = NoFrame /\ call' = call
      BY <1>7 DEF TypeOK, FrameInUse, MvPrime, At, PutLabels, Asserts
    <2>2. CASE MvAdvance(th) /\ UNCHANGED pm
      BY <2>1, <2>2, MvAdvanceSettled
    <2>3. CASE \E w \in Word :
                  CallPutIfMatch(th, top[th].latest, NULL, mv[th].k, w.v, TRUE)
      BY <2>1, <2>3, CallPutIfMatchSettled
    <2>4. CASE Goto(th, "assert(key)") /\ UNCHANGED pm
      <3>1. pc'[th] = "assert(key)" /\ pm'[th] = NoFrame /\ call'[th] = call[th]
        BY <2>1, <2>4 DEF TypeOK, LocalsTyped, Goto
      <3> QED
        BY <3>1
        DEF Settled, InLookup, InPutIfMatch, AtSlot, Putting, Scanning, PutLabels, NoFrame
    <2>5. val[top[th].prev][mv[th].i] \in Word
      BY <1>7, MovingFacts DEF MvPrime, At, TypeOK, TablesTyped
    <2> QED
      BY <1>7, <2>2, <2>3, <2>4, <2>5 DEF MvPrime
  <1>8. CASE MvDone(th)
    <2>1. pm[th] = NoFrame /\ call' = call
      BY <1>8 DEF TypeOK, FrameInUse, MvDone, At, PutLabels, Asserts
    <2>2. CASE Goto(th, "mv_detach") /\ UNCHANGED pm
      <3>1. pc'[th] = "mv_detach" /\ pm'[th] = NoFrame /\ call'[th] = call[th]
        BY <2>1, <2>2 DEF TypeOK, LocalsTyped, Goto
      <3> QED
        BY <3>1
        DEF Settled, InLookup, InPutIfMatch, AtSlot, Putting, Scanning, PutLabels, NoFrame
    <2>3. CASE Serve(th, top[th].latest, top[th].prev)
      BY <2>1, <2>3, ServeSettled
    <2> QED
      BY <1>8, <2>2, <2>3 DEF MvDone
  <1>9. CASE PmTop(th) \/ PmLatest(th) \/ PmPrev(th)
    <2>1. pc[th] \in PutLabels /\ call' = call
      BY <1>9 DEF PmTop, PmLatest, PmPrev, LoadedPrev, At, PutLabels
    <2>2. \E label \in {"pm_top", "pm_latest", "pm_prev", "pm_val"} : Goto(th, label)
      BY <1>9 DEF PmTop, PmLatest, PmPrev, LoadedPrev, At, Goto, TypeOK, LocalsTyped
    <2>3. /\ pm'[th].key = pm[th].key /\ pm'[th].val = pm[th].val
          /\ pm'[th].mover = pm[th].mover
      BY <1>9, <2>1, PuttingFacts DEF PmTop, PmLatest, PmPrev, LoadedPrev, TypeOK, LocalsTyped, FrameType
    <2> QED
      BY <2>1, <2>2, <2>3, RestartSettled
  <1>10. CASE PmVal(th)
    <2> DEFINE w == val[pm[th].latest][pm[th].i]
    <2>1. pc[th] = "pm_val" /\ pc[th] \in PutLabels
      BY <1>10 DEF PmVal, At, PutLabels
    <2>2. pm[th] \in FrameType /\ w \in Word
      BY <2>1, PuttingFacts, ProbingFacts
    <2>3. pm'[th] = [pm[th] EXCEPT !.v = w]
      BY <1>10 DEF PmVal, TypeOK, LocalsTyped
    <2>4. pm'[th].v = w
      BY <2>2, <2>3 DEF FrameType
    <2> HIDE DEF w
    <2>5. /\ pm'[th].key = pm[th].key /\ pm'[th].val = pm[th].val
          /\ pm'[th].mover = pm[th].mover
          /\ pm'[th].latest = pm[th].latest /\ pm'[th].i = pm[th].i
      BY <2>2, <2>3, FrameUpdates
    <2>6. pc'[th] = "pm_key" /\ call'[th] = call[th] /\ val' = val /\ Putting(th)
      BY <1>10, <2>1 DEF PmVal, TypeOK, LocalsTyped, Goto, tables, slots, Putting
    <2>7. w = val'[pm'[th].latest][pm'[th].i]
      BY <2>5, <2>6 DEF w
    <2> QED
      BY <2>4, <2>5, <2>6, <2>7
      DEF Settled, InLookup, InPutIfMatch, AtSlot, Putting, Scanning, PutLabels
  <1>11. CASE PmKey(th)
    <2>1. pc[th] \in PutLabels \ {"pm_top", "pm_latest", "pm_prev", "pm_val"} /\ call' = call
      BY <1>11 DEF PmKey, At, PutLabels
    <2>2. CASE pm[th].val = TOMBSTONE /\ PmReturn(th, Empty)
      <3>1. ~Empty.prime
        BY DEF Empty, Plain
      <3> QED
        BY <2>1, <2>2, <3>1, NoneTyped, PmReturnSettled
    <2>3. CASE /\ \E label \in {"pm_count", "pm_barrier", "pm_latest"} : Goto(th, label)
               /\ UNCHANGED pm
      BY <1>0, <2>1, <2>3, KeepSettled
    <2>4. CASE \E i \in Nat : pm' = [pm EXCEPT ![th].i = i] /\ Goto(th, "pm_val")
      <3>1. PICK i \in Nat : pm' = [pm EXCEPT ![th].i = i]
        BY <2>4
      <3>2. pm'[th] = [pm[th] EXCEPT !.i = i] /\ pm[th] \in FrameType
        BY <3>1, <2>1, PuttingFacts DEF TypeOK, LocalsTyped
      <3> QED
        BY <2>1, <2>4, <3>2, FrameUpdates, RestartSettled
    <2>5. NextSlot(pm[th].latest, pm[th].i) \in Nat
      BY <2>1, PuttingFacts, ProbingFacts, NextSlotTyped
    <2> QED
      BY <1>11, <2>2, <2>3, <2>4, <2>5 DEF PmKey
  <1>12. CASE PmCount(th)
    BY <1>0, <1>12, KeepSettled DEF PmCount, At, PutLabels
  <1>13. CASE PmBarrier(th)
    BY <1>0, <1>13, KeepSettled DEF PmBarrier, AfterBarrier, At, PutLabels
  <1>14. CASE PmAdopt(th)
    <2> DEFINE t == pm[th].latest
               s == pm[th].i
               w == IF val[t][s] = Empty THEN Plain(scan[th].v.v) ELSE val[t][s]
    <2>1. pc[th] \in PutLabels \ {"pm_top", "pm_latest", "pm_prev", "pm_val"}
      BY <1>14 DEF PmAdopt, At, PutLabels
    <2>2. call' = call /\ pm[th].v = Empty
      BY <1>14 DEF PmAdopt, At, Settled
    <2>3. CASE Goto(th, "pm_write") /\ UNCHANGED pm
      <3>1. ~pm[th].v.prime
        BY <2>2 DEF Empty, Plain
      <3> QED
        BY <1>0, <2>1, <2>2, <2>3, <3>1, KeepSettled
    <2>4. CASE /\ pm' = [pm EXCEPT ![th].v = w] /\ scan[th].v # Empty
               /\ val' = [val EXCEPT ![t][s] = w] /\ Goto(th, AfterBarrier(w))
      <3>1. pm[th] \in FrameType /\ t \in Tables /\ s \in Slots(t) /\ val[t][s] \in Word
        BY <2>1, PuttingFacts, ProbingFacts
      <3>2. val'[t][s] = w
        BY <2>4, <3>1 DEF TypeOK, TablesTyped
      <3>3. pm'[th] = [pm[th] EXCEPT !.v = w]
        BY <2>4 DEF TypeOK, LocalsTyped
      <3>4. scan[th].v \in Word
        BY Fields DEF TypeOK
      <3>5. w \in Word
        BY <3>1, <3>4, PlainTyped DEF Word
      <3>6. pm'[th].v = w
        BY <3>1, <3>3 DEF FrameType
      <3>7. Goto(th, AfterBarrier(w))
        BY <2>4
      <3> HIDE DEF w
      <3>8. /\ pm'[th].key = pm[th].key /\ pm'[th].val = pm[th].val
            /\ pm'[th].mover = pm[th].mover
            /\ pm'[th].latest = t /\ pm'[th].i = s
        BY <3>1, <3>3, <3>5, FrameUpdates
      <3>9. CASE w.prime
        BY <2>1, <2>2, <3>7, <3>8, <3>9, RestartSettled DEF AfterBarrier
      <3>10. CASE ~w.prime
        <4>1. pc'[th] = "pm_write" /\ call'[th] = call[th] /\ Putting(th)
          BY <2>1, <2>2, <3>7, <3>10 DEF TypeOK, LocalsTyped, Goto, AfterBarrier, Putting
        <4> QED
          BY <3>2, <3>6, <3>8, <3>10, <4>1
          DEF Settled, InLookup, InPutIfMatch, AtSlot, Putting, Scanning, PutLabels
      <3> QED
        BY <3>9, <3>10
    <2> QED
      BY <1>14, <2>3, <2>4 DEF PmAdopt
  <1>15. CASE PmWrite(th)
    <2> DEFINE t == pm[th].latest
               s == pm[th].i
               new == Plain(pm[th].val)
    <2>1. pc[th] = "pm_write" /\ pc[th] \in PutLabels /\ call' = call
      BY <1>15 DEF PmWrite, At, PutLabels
    <2>2. /\ val[t][s] \in Word /\ new \in Word /\ pm[th].val # NULL
          /\ pm[th] \in FrameType
      BY <2>1, PuttingFacts, ProbingFacts, PlainTyped DEF PutLabels
    <2>3. ~new.prime /\ new # Empty
      BY <2>2 DEF Empty, Plain
    <2>4. CASE PmReturn(th, new)
      <3> HIDE DEF new
      <3> QED
        BY <2>1, <2>2, <2>3, <2>4, PmReturnSettled
    <2>5. CASE /\ PmReturn(th, val[t][s]) /\ val[t][s] # pm[th].v
               /\ ~val[t][s].prime
      <3>1. val[t][s] # Empty
        BY <2>1, <2>5 DEF Settled, AtSlot, PutLabels
      <3> QED
        BY <2>1, <2>2, <2>5, <3>1, PmReturnSettled
    <2>6. CASE pm' = [pm EXCEPT ![th].v = Empty] /\ Goto(th, "pm_top")
      <3>1. pm'[th] = [pm[th] EXCEPT !.v = Empty]
        BY <2>6 DEF TypeOK, LocalsTyped
      <3> QED
        BY <2>1, <2>2, <2>6, <3>1, NoneTyped, FrameUpdates, RestartSettled
    <2> QED
      BY <1>15, <2>4, <2>5, <2>6 DEF PmWrite, CasWins, Displaced
  <1>16. CASE ScanVal(th)
    <2>1. pm' = pm /\ call' = call
      BY <1>16 DEF ScanVal
    <2>4. \/ pc[th] = "rl_val" /\ pc'[th] = "rl_key"
          \/ pc[th] = "get_val" /\ pc'[th] = "get_key"
      BY <1>16 DEF ScanVal, At, Goto, TypeOK, LocalsTyped
    <2>5. Scanning(th)
      BY <2>4 DEF Scanning
    <2>2. val' = val
      BY <1>16 DEF ScanVal, tables, slots
    <2>3. pc[th] = "get_val" => pm[th] = NoFrame
      BY DEF TypeOK, FrameInUse, PutLabels, Asserts
    <2> QED
      BY <2>1, <2>2, <2>3, <2>4, <2>5
      DEF Settled, InLookup, InPutIfMatch, AtSlot, Putting, Scanning, PutLabels, NoFrame
  <1>17. CASE RlKey(th)
    <2>1. pc[th] = "rl_key" /\ Scanning(th) /\ call' = call /\ val' = val
      BY <1>17 DEF RlKey, At, Scanning, tables, slots
    <2>2. ASSUME pm' = pm,
                 pc'[th] = "pm_adopt", InPutIfMatch(th)
          PROVE  Settled(th)'
      BY <2>1, <2>2
      DEF Settled, InLookup, InPutIfMatch, AtSlot, Putting, Scanning, PutLabels
    <2>3. ASSUME NEW w \in Word, Return(th, w), ~InPutIfMatch(th) PROVE Settled(th)'
      <3>1. call[th].op = "get"
        BY <2>1, <2>3 DEF Settled
      <3> QED
        BY <2>1, <2>3, <3>1, ReturnSettled
    <2>4. ASSUME NEW w \in Word, RlReturn(th, w) PROVE Settled(th)'
      <3>1. CASE InPutIfMatch(th)
        <4>1. pm' = pm /\ pc'[th] = "pm_adopt"
          BY <2>4, <3>1 DEF RlReturn, Goto, TypeOK, LocalsTyped
        <4> QED
          BY <2>2, <3>1, <4>1
      <3> QED
        BY <2>3, <2>4, <3>1 DEF RlReturn
    <2>5. (IF scan[th].v = Plain(TOMBSTONE) THEN Empty ELSE scan[th].v) \in Word
      BY <2>1, ScanningFacts, NoneTyped
    <2>6. CASE \E w \in Word : RlReturn(th, w)
      BY <2>4, <2>6
    <2>7. CASE Goto(th, "rl_val") /\ UNCHANGED pm
      <3>1. pm' = pm /\ pc'[th] = "rl_val"
        BY <2>7 DEF Goto, TypeOK, LocalsTyped
      <3> QED
        BY <2>1, <3>1
        DEF Settled, InLookup, InPutIfMatch, AtSlot, Putting, Scanning, PutLabels
    <2> QED
      BY <1>17, <2>5, <2>6, <2>7, NoneTyped DEF RlKey, ScanNext
  <1>18. CASE GetKey(th)
    <2>1. pc[th] = "get_key" /\ Scanning(th) /\ call' = call
      BY <1>18 DEF GetKey, At, Scanning
    <2>6. pm[th] = NoFrame
      BY <2>1 DEF TypeOK, FrameInUse, PutLabels, Asserts
    <2>2. pm[th] = NoFrame /\ ~InPutIfMatch(th)
      BY <2>6 DEF InPutIfMatch, NoFrame
    <2>3. call[th].op = "get" /\ scan[th].v \in Word
      BY <2>1, <2>2, ScanningFacts DEF Settled
    <2>4. CASE (Goto(th, "rl_val") \/ Goto(th, "get_val")) /\ UNCHANGED pm
      <3>1. /\ pc'[th] \in {"rl_val", "get_val"} /\ pm'[th] = NoFrame
            /\ call'[th] = call[th]
        BY <2>1, <2>2, <2>4 DEF TypeOK, LocalsTyped, Goto
      <3> QED
        BY <2>3, <3>1
        DEF Settled, InLookup, InPutIfMatch, AtSlot, Putting, Scanning, PutLabels, NoFrame
    <2>5. CASE Return(th, scan[th].v)
      BY <2>1, <2>3, <2>5, ReturnSettled
    <2> QED
      BY <1>18, <2>4, <2>5 DEF GetKey, ScanNext
  <1> QED
    BY <1>1, <1>2, <1>3, <1>4, <1>5, <1>6, <1>7, <1>8, <1>9, <1>10, <1>11, <1>12,
       <1>13, <1>14, <1>15, <1>16, <1>17, <1>18 DEF Step

LEMMA OthersSettled ==
  ASSUME TypeOK, AllSettled, NEW th \in Threads, Step(th), NEW t2 \in Threads \ {th}
  PROVE  Settled(t2)'
  <1>1. ValGrows
    BY ValSteps DEF AllSettled
  <1>2. SameLocals(t2)
    BY EveryStepTyped DEF TypedStep, LocalStep
  <1>3. AtSlot(t2) => pm[t2].latest \in Tables /\ pm[t2].i \in Slots(pm[t2].latest)
    BY Fields DEF TypeOK, FrameInUse
  <1> QED
    BY <1>1, <1>2, <1>3
    DEF AllSettled, SameLocals, ValGrows, Settled, InLookup, InPutIfMatch, AtSlot,
        Putting, Scanning

LEMMA NextSettled ==
  ASSUME TypeOK, AllSettled, [Next]_vars
  PROVE  AllSettled'
  <1>1. ASSUME UNCHANGED vars PROVE AllSettled'
    BY <1>1
    DEF vars, tables, slots, AllSettled, Settled, InLookup, InPutIfMatch, AtSlot, Putting,
        Scanning
  <1>2. ASSUME NEW th \in Threads, Step(th) PROVE AllSettled'
    BY <1>2, ThreadSettled, OthersSettled DEF AllSettled
  <1> QED
    BY <1>1, <1>2 DEF Next

LEMMA SettledAlways == Spec => [](TypeOK /\ AllSettled)
  <1>1. Init /\ [][Next]_vars => [](TypeOK /\ AllSettled)
    BY InitTyped, NextTyped, InitSettled, NextSettled, PTL
  <1> QED
    BY <1>1, PTL DEF Spec

\* put and remove never hand a frozen word to their client, and put never
\* returns NULL, however often migrations displace the call.
THEOREM ResultsAreUsable == Spec => []WriteResults
  <1>1. AllSettled => WriteResults
    BY DEF AllSettled, Settled, WriteResults
  <1> QED
    BY <1>1, SettledAlways, PTL

\* A claimed key is never changed and a frozen word is never written again.
THEOREM MigrationFreezes == Spec => FrozenForever
  <1> DEFINE Kept == \A t \in Tables : \A s \in Slots(t) :
                        /\ key[t][s] # NULL => key'[t][s] = key[t][s]
                        /\ val[t][s].prime => val'[t][s] = val[t][s]
  <1>1. ASSUME TypeOK, AllSettled, NEW th \in Threads, Step(th) PROVE Kept
    <2>1. \A t \in Tables : \A s \in Slots(t) : val[t][s].prime => val'[t][s] = val[t][s]
      BY <1>1, ValSteps DEF AllSettled, ValGrows
    <2>2. \A t \in Tables : \A s \in Slots(t) : key[t][s] # NULL => key'[t][s] = key[t][s]
      <3>1. CASE Claims(th)
        <4> DEFINE l == pm[th].latest
                   i == pm[th].i
                   k == pm[th].key
        <4>1. key' = [key EXCEPT ![l][i] = k] /\ key[l][i] = NULL
          BY <3>1 DEF Claims
        <4> HIDE DEF l, i, k
        <4>2. DOMAIN key = Tables /\ \A t \in Tables : key[t] \in [Slots(t) -> Keys \union {NULL}]
          BY <1>1 DEF TypeOK, TablesTyped
        <4> QED
          BY <4>1, <4>2
      <3> QED
        BY <1>1, <3>1, KeyWrites
    <2> QED
      BY <2>1, <2>2
  <1>2. TypeOK /\ AllSettled /\ [Next]_vars => [Kept]_tables
    BY <1>1 DEF Next, vars
  <1> QED
    BY <1>2, SettledAlways, PTL DEF Spec, FrozenForever
=============================================================================
