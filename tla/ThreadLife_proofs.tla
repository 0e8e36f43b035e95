------------------------- MODULE ThreadLife_proofs --------------------------
(***************************************************************************)
(* Theorems about ThreadLife, for any threads, keys, table size and        *)
(* scripts.                                                                *)
(***************************************************************************)
EXTENDS ThreadLife, TLAPS

-----------------------------------------------------------------------------
(* One-time initialisation.                                                *)

Places == {"idle", "begin", "func", "spin", "register", "set_key", "set_dtor"}

InFunc(t) == pc[t] = "func"

\* Nobody is inside call_once while the flag is 0, one thread runs the function
\* while it is 1, and none does once it is 2.
OnceInv ==
    /\ pc \in [Threads -> Places]
    /\ \/ /\ status = 0 /\ runs = 0
          /\ \A t \in Threads : ~ InFunc(t) /\ pc[t] # "spin"
       \/ /\ status = 1 /\ runs = 1
          /\ \A t, u \in Threads : InFunc(t) /\ InFunc(u) => t = u
       \/ /\ status = 2 /\ runs = 1
          /\ \A t \in Threads : ~ InFunc(t)

LEMMA InitOnce == Init => OnceInv
  BY DEF Init, OnceInv, InFunc, Places

LEMMA StepOnce ==
  ASSUME OnceInv, [Next]_vars
  PROVE  OnceInv'
  <1>1. CASE UNCHANGED vars
    BY <1>1 DEF vars, onceVars, OnceInv, InFunc, Places
  <1>2. ASSUME NEW t \in Threads, ThreadStep(t) PROVE OnceInv'
    <2>1. CASE CallOnce(t)
      BY <2>1, SMTT(30) DEF CallOnce, Calls, Goto, Staying, onceVars, OnceInv, InFunc, Places
    <2>2. CASE OnceDone(t)
      BY <2>2, SMTT(30) DEF OnceDone, Finished, Return, Goto, OnceInv, InFunc, Places
    <2>3. CASE ~ CallOnce(t) /\ ~ OnceDone(t)
      <3>1. /\ UNCHANGED <<status, runs>>
            /\ \/ UNCHANGED pc
               \/ \E place \in {"idle", "begin", "register", "set_key", "set_dtor"} :
                     pc' = [pc EXCEPT ![t] = place]
        BY <1>2, <2>3, SMTT(30)
           DEF ThreadStep, ThrdCreate, BeginThread, ThrdRoutine, ThrdExit, ThrdDetach,
               ThrdJoin, Spin, TssCreate, Register, SetKey, SetDtor, TssDelete, TssSet,
               InvokeCheck, InvokeCall, Ended, PosixEnded, Return, Goto, Staying,
               onceVars, tssVars, threadVars, localVars
      <3>2. pc' \in [Threads -> Places] /\ \A u \in Threads :
              InFunc(u)' => InFunc(u)
        BY <3>1 DEF OnceInv, InFunc, Places
      <3>3. \A u \in Threads : pc'[u] = "spin" => pc[u] = "spin"
        BY <3>1 DEF OnceInv
      <3> QED
        BY <3>1, <3>2, <3>3 DEF OnceInv
    <2> QED
      BY <2>1, <2>2, <2>3
  <1> QED
    BY <1>1, <1>2 DEF Next

\* Whoever returns from call_once finds that its function has run, once.
THEOREM OnceIsOnce == Spec => InitialisedOnce
  <1>1. OnceInv /\ [Next]_vars =>
          [\A t \in Threads :
              OnceDone(t) \/ Spin(t) => runs' = 1 /\ status' = 2]_vars
    <2>1. ASSUME OnceInv, NEW t \in Threads, OnceDone(t) \/ Spin(t)
          PROVE  runs' = 1 /\ status' = 2
      BY <2>1 DEF OnceInv, InFunc, OnceDone, Finished, Spin, Waited, onceVars
    <2> QED
      BY <2>1
  <1>2. Spec => []OnceInv
    BY InitOnce, StepOnce, PTL DEF Spec
  <1> QED
    BY <1>1, <1>2, PTL DEF Spec, InitialisedOnce

-----------------------------------------------------------------------------
(* Types, and what a thread is at.                                         *)

Values == Threads \X Keys

Setting(t)     == pc[t] \in {"set_key", "set_dtor"}
Registering(t) == pc[t] = "register" \/ Setting(t)
Looking(t)     == life[t] = "exiting" /\ seen[t] # NULL

LifeTyped ==
    /\ todo \in [Threads -> Seq(ThreadCalls \union StorageCalls)]
    /\ pc \in [Threads -> Places]
    /\ slot \in [Threads -> 1 .. Slots + 1]
    /\ seen \in [Threads -> Values \union {NULL}]
    /\ life \in [Threads -> {"unborn", "starting", "running", "exiting", "ended"}]
    /\ tbl \in [1 .. Slots -> [key : Indexes \union {NULL}, dtor : Keys \union {NULL}]]
    /\ key \in [Keys -> Indexes \union {NULL}]
    /\ tls \in [Threads -> [Indexes -> Values \union {NULL}]]
    /\ collided \in BOOLEAN /\ recycled \in BOOLEAN

\* A thread inside a call has not taken it off its script, a thread that
\* registers is in tss_create, one that ends is in no call, and each looks at an
\* entry that exists.
CallInv ==
    \A t \in Threads :
        /\ pc[t] # "idle" => todo[t] # <<>>
        /\ Registering(t) => Head(todo[t])[1] = "tss_create"
        /\ life[t] = "exiting" => pc[t] = "idle"
        /\ Setting(t) \/ Looking(t) => slot[t] \in 1 .. Slots

Basic == LifeTyped /\ CallInv

LEMMA InitBasic == Init => Basic
  <1> SUFFICES ASSUME Init PROVE Basic
    OBVIOUS
  <1>1. todo \in [Threads -> Seq(ThreadCalls \union StorageCalls)]
    BY ScriptsAssumption DEF Init
  <1>2. 1 \in 1 .. Slots + 1
    BY LifeAssumption
  <1>3. LifeTyped
    BY <1>1, <1>2 DEF Init, LifeTyped, Places, Empty
  <1>4. CallInv
    BY DEF Init, CallInv, Registering, Setting, Looking
  <1> QED
    BY <1>3, <1>4 DEF Basic

\* The argument of a call on storage is a key.
LEMMA KeyCall ==
  ASSUME Basic, NEW t \in Threads, todo[t] # <<>>,
         Head(todo[t])[1] \in {"tss_create", "tss_delete", "tss_set"}
  PROVE  Arg(t) \in Keys
  <1>1. Head(todo[t]) \in ThreadCalls \union StorageCalls
    <2>1. todo[t] \in Seq(ThreadCalls \union StorageCalls)
      BY DEF Basic, LifeTyped
    <2> QED
      BY <2>1
  <1>2. Head(todo[t]) \in StorageCalls
    BY <1>1 DEF ThreadCalls
  <1> QED
    BY <1>2 DEF StorageCalls, Arg

\* Returning from a call keeps the rest of the script.
LEMMA ReturnTyped ==
  ASSUME Basic, NEW t \in Threads, todo[t] # <<>>, NEW result, Return(t, result)
  PROVE  /\ todo' \in [Threads -> Seq(ThreadCalls \union StorageCalls)]
         /\ pc' \in [Threads -> Places]
         /\ pc'[t] = "idle"
         /\ \A u \in Threads \ {t} : todo'[u] = todo[u] /\ pc'[u] = pc[u]
  <1>1. Tail(todo[t]) \in Seq(ThreadCalls \union StorageCalls)
    <2>1. todo[t] \in Seq(ThreadCalls \union StorageCalls)
      BY DEF Basic, LifeTyped
    <2> QED
      BY <2>1
  <1>2. todo' \in [Threads -> Seq(ThreadCalls \union StorageCalls)]
    BY <1>1 DEF Basic, LifeTyped, Return
  <1> QED
    BY <1>2 DEF Basic, LifeTyped, Return, Goto, Places

\* The steps that concern neither the storage nor the walk through the table.
Quiet ==
    /\ UNCHANGED <<localVars, tssVars>>
    /\ todo' \in [Threads -> Seq(ThreadCalls \union StorageCalls)]
    /\ pc' \in [Threads -> Places]
    /\ life' \in [Threads -> {"unborn", "starting", "running", "exiting", "ended"}]
    /\ \A u \in Threads :
          /\ Registering(u)' \/ Registering(u) => pc'[u] = pc[u]
          /\ pc'[u] # "idle" => todo'[u] = todo[u] /\ todo[u] # <<>>
          /\ life'[u] = "exiting" => life[u] = "exiting" /\ pc'[u] = "idle"
          /\ life'[u] = "ended" => life[u] = "ended"

LEMMA QuietSteps ==
  ASSUME Basic, NEW t \in Threads,
         \/ ThrdCreate(t) \/ BeginThread(t) \/ ThrdRoutine(t) \/ ThrdDetach(t)
         \/ ThrdJoin(t) \/ CallOnce(t) \/ OnceDone(t) \/ Spin(t)
  PROVE  Quiet
  <1>1. UNCHANGED <<localVars, tssVars>>
    BY SMTT(30) DEF ThrdCreate, BeginThread, ThrdRoutine, ThrdDetach, ThrdJoin, CallOnce, OnceDone,
          Spin
  <1>2. \/ UNCHANGED life
        \/ \E u, now : now \in {"starting", "running"} /\ life' = [life EXCEPT ![u] = now]
    BY DEF ThrdCreate, BeginThread, ThrdRoutine, ThrdDetach, ThrdJoin, CallOnce,
           OnceDone, Spin, threadVars
  <1>3. /\ life' \in [Threads -> {"unborn", "starting", "running", "exiting", "ended"}]
        /\ \A u \in Threads : /\ life'[u] = "exiting" => life[u] = "exiting"
                              /\ life'[u] = "ended" => life[u] = "ended"
    BY <1>2 DEF Basic, LifeTyped
  <1>4. CASE UNCHANGED <<todo, pc>>
    BY <1>1, <1>3, <1>4 DEF Quiet, Registering, Setting, Basic, LifeTyped, CallInv
  <1>5. ASSUME NEW place \in {"begin", "func", "spin"}, Calls(t, "create") \/ Calls(t, "once"),
               Goto(t, place), UNCHANGED todo
        PROVE  Quiet
    BY <1>1, <1>3, <1>5
       DEF Quiet, Registering, Setting, Basic, LifeTyped, CallInv, Calls, Goto, Places
  <1>6. ASSUME NEW result, ~ Registering(t), todo[t] # <<>>, Return(t, result)
        PROVE  Quiet
    <2>1. /\ todo' \in [Threads -> Seq(ThreadCalls \union StorageCalls)]
          /\ pc' \in [Threads -> Places]
          /\ pc'[t] = "idle"
          /\ \A u \in Threads \ {t} : todo'[u] = todo[u] /\ pc'[u] = pc[u]
      BY <1>6, ReturnTyped
    <2> QED
      BY <1>1, <1>3, <1>6, <2>1 DEF Quiet, Registering, Setting, Basic, CallInv
  <1>7. CASE ThrdRoutine(t)
    BY <1>4, <1>7 DEF ThrdRoutine, Staying
  <1>8. CASE ThrdCreate(t)
    BY <1>5, <1>6, <1>8 DEF ThrdCreate, Calls, Registering, Setting
  <1>9. CASE BeginThread(t)
    BY <1>6, <1>9 DEF BeginThread, Registering, Setting, Basic, CallInv
  <1>10. CASE ThrdDetach(t) \/ ThrdJoin(t)
    BY <1>6, <1>10 DEF ThrdDetach, ThrdJoin, Calls, Registering, Setting
  <1>11. CASE CallOnce(t)
    BY <1>5, <1>11 DEF CallOnce, Staying
  <1>12. CASE OnceDone(t) \/ Spin(t)
    BY <1>6, <1>12 DEF OnceDone, Spin, Registering, Setting, Basic, CallInv
  <1> QED
    BY <1>7, <1>8, <1>9, <1>10, <1>11, <1>12

LEMMA QuietBasic ==
  ASSUME Basic, Quiet
  PROVE  Basic'
  <1>1. LifeTyped'
    BY DEF Basic, LifeTyped, Quiet, localVars, tssVars
  <1>2. CallInv'
    BY DEF Basic, LifeTyped, CallInv, Quiet, localVars, tssVars, Registering, Setting, Looking
  <1> QED
    BY <1>1, <1>2 DEF Basic

\* A thread that ends starts at the first entry, with nothing seen.
LEMMA ExitBasic ==
  ASSUME Basic, NEW t \in Threads, ThrdExit(t)
  PROVE  Basic'
  <1>1. 1 \in 1 .. Slots + 1
    BY LifeAssumption
  <1>2. LifeTyped'
    BY <1>1 DEF ThrdExit, Basic, LifeTyped, tssVars
  <1>3. CallInv'
    BY DEF ThrdExit, Basic, LifeTyped, CallInv, Registering, Setting, Looking
  <1> QED
    BY <1>2, <1>3 DEF Basic

\* New keys and values.
LEMMA AllocTyped ==
  ASSUME Basic, NEW k \in Keys, NEW x \in Indexes \union {NULL}, Alloc(k, x)
  PROVE  /\ key' \in [Keys -> Indexes \union {NULL}]
         /\ tls' \in [Threads -> [Indexes -> Values \union {NULL}]]
         /\ recycled' \in BOOLEAN
  BY DEF Alloc, Basic, LifeTyped

LEMMA CreateBasic ==
  ASSUME Basic, NEW t \in Threads, TssCreate(t)
  PROVE  Basic'
  <1>1. Arg(t) \in Keys /\ todo[t] # <<>> /\ Head(todo[t])[1] = "tss_create"
    BY KeyCall DEF TssCreate, Calls
  <1>2. PICK x \in Indexes \union {NULL} : Alloc(Arg(t), x)
    BY DEF TssCreate
  <1>3. /\ key' \in [Keys -> Indexes \union {NULL}]
        /\ tls' \in [Threads -> [Indexes -> Values \union {NULL}]]
        /\ recycled' \in BOOLEAN
    BY <1>1, <1>2, AllocTyped
  <1>4. CASE Goto(t, "register") /\ UNCHANGED todo
    <2>1. LifeTyped'
      BY <1>3, <1>4 DEF TssCreate, Goto, Basic, LifeTyped, Places, localVars, threadVars
    <2>2. CallInv'
      BY <1>1, <1>4 DEF TssCreate, Calls, Goto, Basic, LifeTyped, CallInv, Registering, Setting,
                        Looking, localVars, threadVars
    <2> QED
      BY <2>1, <2>2 DEF Basic
  <1>5. CASE \E result : Return(t, result)
    <2>1. /\ todo' \in [Threads -> Seq(ThreadCalls \union StorageCalls)]
          /\ pc' \in [Threads -> Places]
          /\ pc'[t] = "idle"
          /\ \A u \in Threads \ {t} : todo'[u] = todo[u] /\ pc'[u] = pc[u]
      BY <1>1, <1>5, ReturnTyped
    <2>2. LifeTyped'
      BY <1>3, <2>1 DEF TssCreate, Basic, LifeTyped, localVars, threadVars
    <2>3. CallInv'
      BY <2>1 DEF TssCreate, Basic, LifeTyped, CallInv, Registering, Setting,
                  Looking, localVars, threadVars
    <2> QED
      BY <2>2, <2>3 DEF Basic
  <1> QED
    BY <1>4, <1>5 DEF TssCreate

LEMMA RegisterBasic ==
  ASSUME Basic, NEW t \in Threads, Register(t)
  PROVE  Basic'
  <1>1. Arg(t) \in Keys /\ todo[t] # <<>> /\ Head(todo[t])[1] = "tss_create"
    BY KeyCall DEF Register, Basic, CallInv, Registering
  <1>2. CASE Return(t, "error")
             /\ key' = [key EXCEPT ![Arg(t)] = NULL]
             /\ tls' = [u \in Threads |->
                        [x \in Indexes |-> IF x = key[Arg(t)] THEN NULL ELSE tls[u][x]]]
             /\ UNCHANGED <<slot, collided>>
    <2>1. /\ todo' \in [Threads -> Seq(ThreadCalls \union StorageCalls)]
          /\ pc' \in [Threads -> Places]
          /\ pc'[t] = "idle"
          /\ \A u \in Threads \ {t} : todo'[u] = todo[u] /\ pc'[u] = pc[u]
      BY <1>1, <1>2, ReturnTyped
    <2>2. LifeTyped'
      BY <1>1, <1>2, <2>1 DEF Register, Basic, LifeTyped, threadVars
    <2>3. CallInv'
      BY <1>2, <2>1 DEF Register, Basic, LifeTyped, CallInv, Registering, Setting, Looking,
                        threadVars
    <2> QED
      BY <2>2, <2>3 DEF Basic
  <1>3. ASSUME NEW i \in Unused, slot' = [slot EXCEPT ![t] = i], Goto(t, "set_key"),
               collided' \in BOOLEAN, UNCHANGED <<todo, key, tls>>
        PROVE  Basic'
    <2>1. i \in 1 .. Slots /\ i \in 1 .. Slots + 1
      BY LifeAssumption DEF Unused
    <2>2. LifeTyped'
      BY <1>3, <2>1 DEF Register, Goto, Basic, LifeTyped, Places, threadVars
    <2>3. CallInv'
      BY <1>1, <1>3, <2>1
         DEF Register, Goto, Basic, LifeTyped, CallInv, Registering, Setting, Looking, threadVars
    <2> QED
      BY <2>2, <2>3 DEF Basic
  <1> QED
    BY <1>2, <1>3 DEF Register, Basic, LifeTyped

LEMMA SetKeyBasic ==
  ASSUME Basic, NEW t \in Threads, SetKey(t)
  PROVE  Basic'
  <1>1. Arg(t) \in Keys /\ todo[t] # <<>> /\ slot[t] \in 1 .. Slots
    BY KeyCall DEF SetKey, Basic, CallInv, Registering, Setting
  <1>2. tbl' \in [1 .. Slots -> [key : Indexes \union {NULL}, dtor : Keys \union {NULL}]]
    BY <1>1 DEF SetKey, Basic, LifeTyped
  <1>3. LifeTyped'
    BY <1>2 DEF SetKey, Goto, Staying, Basic, LifeTyped, Places, localVars, threadVars
  <1>4. CallInv'
    BY <1>1 DEF SetKey, Goto, Staying, Basic, LifeTyped, CallInv, Registering, Setting, Looking,
                localVars, threadVars
  <1> QED
    BY <1>3, <1>4 DEF Basic

LEMMA SetDtorBasic ==
  ASSUME Basic, NEW t \in Threads, SetDtor(t)
  PROVE  Basic'
  <1>1. Arg(t) \in Keys /\ todo[t] # <<>> /\ slot[t] \in 1 .. Slots
    BY KeyCall DEF SetDtor, Basic, CallInv, Registering, Setting
  <1>2. tbl' \in [1 .. Slots -> [key : Indexes \union {NULL}, dtor : Keys \union {NULL}]]
    BY <1>1 DEF SetDtor, Basic, LifeTyped
  <1>3. /\ todo' \in [Threads -> Seq(ThreadCalls \union StorageCalls)]
        /\ pc' \in [Threads -> Places]
        /\ pc'[t] = "idle"
        /\ \A u \in Threads \ {t} : todo'[u] = todo[u] /\ pc'[u] = pc[u]
    BY <1>1, ReturnTyped DEF SetDtor
  <1>4. LifeTyped'
    BY <1>2, <1>3 DEF SetDtor, Basic, LifeTyped, localVars, threadVars
  <1>5. CallInv'
    BY <1>3 DEF SetDtor, Basic, CallInv, Registering, Setting, Looking, localVars, threadVars
  <1> QED
    BY <1>4, <1>5 DEF Basic

LEMMA DeleteSetBasic ==
  ASSUME Basic, NEW t \in Threads, TssDelete(t) \/ TssSet(t)
  PROVE  Basic'
  <1>1. Arg(t) \in Keys /\ todo[t] # <<>>
    BY KeyCall DEF TssDelete, TssSet, Calls
  <1>2. /\ todo' \in [Threads -> Seq(ThreadCalls \union StorageCalls)]
        /\ pc' \in [Threads -> Places]
        /\ pc'[t] = "idle"
        /\ \A u \in Threads \ {t} : todo'[u] = todo[u] /\ pc'[u] = pc[u]
    BY <1>1, ReturnTyped DEF TssDelete, TssSet
  <1>3. key' \in [Keys -> Indexes \union {NULL}]
    BY <1>1 DEF TssDelete, TssSet, Basic, LifeTyped
  <1>4. tls' \in [Threads -> [Indexes -> Values \union {NULL}]]
    <2>1. CASE TssDelete(t)
      BY <2>1 DEF TssDelete, Basic, LifeTyped
    <2>2. CASE TssSet(t)
      <3>1. <<t, Arg(t)>> \in Values
        BY <1>1 DEF Values
      <3>2. CASE key[Arg(t)] # NULL
        BY <1>1, <2>2, <3>1, <3>2 DEF TssSet, Basic, LifeTyped
      <3> QED
        BY <2>2, <3>2 DEF TssSet, Basic, LifeTyped
    <2> QED
      BY <2>1, <2>2
  <1>5. LifeTyped'
    BY <1>2, <1>3, <1>4 DEF TssDelete, TssSet, Basic, LifeTyped, localVars, threadVars
  <1>6. CallInv'
    BY <1>2 DEF TssDelete, TssSet, Basic, CallInv, Registering, Setting, Looking, localVars,
                threadVars
  <1> QED
    BY <1>5, <1>6 DEF Basic

\* What a thread that ends finds at its entry.
Found(t) ==
    IF tbl[slot[t]].dtor = NULL \/ tbl[slot[t]].key = NULL
    THEN NULL ELSE tls[t][tbl[slot[t]].key]

LEMMA FoundTyped ==
  ASSUME Basic, NEW t \in Threads, slot[t] \in 1 .. Slots
  PROVE  Found(t) \in Values \union {NULL}
  <1>1. tbl[slot[t]].key \in Indexes \union {NULL}
    BY DEF Basic, LifeTyped
  <1> QED
    BY <1>1 DEF Found, Basic, LifeTyped

LEMMA EndBasic ==
  ASSUME Basic, NEW t \in Threads,
         InvokeCheck(t) \/ InvokeCall(t) \/ Ended(t) \/ PosixEnded(t)
  PROVE  Basic'
  <1>1. Slots \in Nat /\ slot[t] \in 1 .. Slots + 1
    BY LifeAssumption DEF Basic, LifeTyped
  <1>2. CASE InvokeCheck(t)
    <2>1. slot[t] \in 1 .. Slots /\ slot[t] + 1 \in 1 .. Slots + 1
      BY <1>1, <1>2 DEF InvokeCheck, LastSlot
    <2>2. Found(t) \in Values \union {NULL}
      BY <2>1, FoundTyped
    <2>3. IF Found(t) = NULL
          THEN slot' = [slot EXCEPT ![t] = @ + 1] /\ UNCHANGED seen
          ELSE seen' = [seen EXCEPT ![t] = Found(t)] /\ UNCHANGED slot
      BY <1>2 DEF InvokeCheck, Found
    <2>4. LifeTyped'
      BY <1>2, <2>1, <2>2, <2>3
         DEF InvokeCheck, Staying, Basic, LifeTyped, threadVars, tssVars
    <2>5. CallInv'
      BY <1>2, <2>1, <2>3 DEF InvokeCheck, Staying, Basic, LifeTyped, CallInv, Registering,
                              Setting, Looking, threadVars, tssVars
    <2> QED
      BY <2>4, <2>5 DEF Basic
  <1>3. CASE InvokeCall(t)
    <2>1. slot[t] \in 1 .. Slots /\ slot[t] + 1 \in 1 .. Slots + 1
      BY <1>1, <1>3 DEF InvokeCall, Basic, CallInv, Looking
    <2>2. LifeTyped'
      BY <1>3, <2>1 DEF InvokeCall, Staying, Basic, LifeTyped, threadVars
    <2>3. CallInv'
      BY <1>3, <2>1 DEF InvokeCall, Staying, Basic, LifeTyped, CallInv, Registering, Setting,
                        Looking, threadVars
    <2> QED
      BY <2>2, <2>3 DEF Basic
  <1>4. CASE Ended(t) \/ PosixEnded(t)
    <2>1. tls' \in [Threads -> [Indexes -> Values \union {NULL}]]
      <3>1. CASE Ended(t)
        BY <3>1 DEF Ended, tssVars, Basic, LifeTyped
      <3>2. CASE PosixEnded(t)
        BY <3>2 DEF PosixEnded, Basic, LifeTyped
      <3> QED
        BY <1>4, <3>1, <3>2
    <2>2. /\ UNCHANGED <<todo, pc, slot, seen, tbl, key, collided, recycled>>
          /\ life' = [life EXCEPT ![t] = "ended"]
      BY <1>4 DEF Ended, PosixEnded, Staying, localVars, tssVars
    <2>3. LifeTyped'
      BY <2>1, <2>2 DEF Basic, LifeTyped
    <2>4. CallInv'
      BY <2>2 DEF Basic, LifeTyped, CallInv, Registering, Setting, Looking
    <2> QED
      BY <2>3, <2>4 DEF Basic
  <1> QED
    BY <1>2, <1>3, <1>4

LEMMA StepBasic ==
  ASSUME Basic, [Next]_vars
  PROVE  Basic'
  <1>1. CASE UNCHANGED vars
    BY <1>1 DEF vars, localVars, threadVars, tssVars, Basic, LifeTyped, CallInv, Registering,
                Setting, Looking
  <1>2. ASSUME NEW t \in Threads, ThreadStep(t) PROVE Basic'
    BY <1>2, QuietSteps, QuietBasic, ExitBasic, CreateBasic, RegisterBasic, SetKeyBasic,
       SetDtorBasic, DeleteSetBasic, EndBasic DEF ThreadStep
  <1> QED
    BY <1>1, <1>2 DEF Next

-----------------------------------------------------------------------------
(* Destructors and the values they get.                                    *)

Clean == ~ recycled /\ ~ collided

\* No two keys share an index, and a value is that of the key with its index,
\* or of a key no more.
Owned ==
    /\ \A j, k \in Keys : key[j] = key[k] /\ key[j] # NULL => j = k
    /\ \A t \in Threads, x \in Indexes :
          tls[t][x] # NULL => key[tls[t][x][2]] = x \/ x \notin Allocated

\* The index in an entry of the table is k's or nobody's, and so are its values.
Holds(i, k) ==
    LET x == tbl[i].key
    IN x # NULL =>
          /\ key[k] = x \/ x \notin Allocated
          /\ \A t \in Threads : tls[t][x] # NULL => tls[t][x][2] = k

\* Threads that register have entries of their own, without a destructor yet;
\* every entry with a destructor has the index of the key it belongs to; and
\* the entry that a thread has found a value for keeps its destructor.
TableInv ==
    Clean =>
        /\ \A t, u \in Threads : Setting(t) /\ Setting(u) /\ slot[t] = slot[u] => t = u
        /\ \A t \in Threads : Setting(t) => tbl[slot[t]].dtor = NULL
        /\ \A t \in Threads : pc[t] = "set_dtor" => Holds(slot[t], Arg(t))
        /\ \A i \in 1 .. Slots : tbl[i].dtor # NULL => Holds(i, tbl[i].dtor)
        /\ \A t \in Threads : Looking(t) => tbl[slot[t]].dtor = seen[t][2]

LEMMA InitOwned == Init => Owned /\ TableInv /\ OwnDestructor
  BY DEF Init, Owned, TableInv, OwnDestructor, Setting, Looking, Empty

LEMMA AllocatedIs ==
  ASSUME Basic, NEW x, x # NULL
  PROVE  x \in Allocated <=> \E k \in Keys : key[k] = x
  BY DEF Allocated

\* A key that is created takes an index nobody has, where no value is left.
LEMMA AllocOwned ==
  ASSUME Basic, Owned, NEW k \in Keys, NEW x \in Indexes \union {NULL}, Alloc(k, x)
  PROVE  Owned'
  <1>1. \A j \in Keys : key'[j] = IF j = k THEN x ELSE key[j]
    BY DEF Alloc, Basic, LifeTyped
  <1>2. x # NULL => \A j \in Keys : key[j] # x
    BY DEF Alloc, Allocated
  <1>3. \A j, l \in Keys : key'[j] = key'[l] /\ key'[j] # NULL => j = l
    BY <1>1, <1>2 DEF Owned
  <1>4. ASSUME NEW t \in Threads, NEW y \in Indexes, tls'[t][y] # NULL
        PROVE  key'[tls'[t][y][2]] = y \/ y \notin Allocated'
    <2>1. y # x /\ tls'[t][y] = tls[t][y] /\ y # NULL
      BY <1>4, LifeAssumption DEF Alloc
    <2>2. tls[t][y][2] \in Keys
      BY <1>4, <2>1 DEF Basic, LifeTyped, Values
    <2>3. CASE key[tls[t][y][2]] = y
      BY <1>1, <2>1, <2>2, <2>3 DEF Owned, Allocated
    <2>4. CASE y \notin Allocated
      BY <1>1, <2>1, <2>4 DEF Allocated
    <2> QED
      BY <1>4, <2>1, <2>3, <2>4 DEF Owned
  <1> QED
    BY <1>3, <1>4 DEF Owned

LEMMA AllocHolds ==
  ASSUME Basic, Owned, NEW k \in Keys, NEW x \in Indexes \union {NULL}, Alloc(k, x),
         UNCHANGED tbl, ~ recycled', NEW i \in 1 .. Slots, NEW l \in Keys, Holds(i, l)
  PROVE  Holds(i, l)'
  <1> DEFINE y == tbl[i].key
  <1>1. \A j \in Keys : key'[j] = IF j = k THEN x ELSE key[j]
    BY DEF Alloc, Basic, LifeTyped
  <1>2. SUFFICES ASSUME y # NULL
                 PROVE  /\ key'[l] = y \/ y \notin Allocated'
                        /\ \A t \in Threads : tls'[t][y] # NULL => tls'[t][y][2] = l
    BY DEF Holds
  <1>3. y \in Indexes /\ y # x
    BY <1>2 DEF Alloc, Basic, LifeTyped
  <1>4. \A t \in Threads : tls'[t][y] = tls[t][y]
    BY <1>3 DEF Alloc
  <1>5. key'[l] = y \/ y \notin Allocated'
    <2>1. CASE key[l] = y
      BY <1>1, <1>2, <1>3, <2>1 DEF Owned, Allocated
    <2>2. CASE y \notin Allocated
      BY <1>1, <1>3, <2>2, <1>2 DEF Allocated
    <2> QED
      BY <1>2, <2>1, <2>2 DEF Holds
  <1> QED
    BY <1>2, <1>4, <1>5 DEF Holds

\* A key k is deleted.
Dropped(k) ==
    /\ key' = [key EXCEPT ![k] = NULL]
    /\ tls' = [u \in Threads |->
                  [x \in Indexes |-> IF x = key[k] THEN NULL ELSE tls[u][x]]]

LEMMA DropOwned ==
  ASSUME Basic, Owned, NEW k \in Keys, Dropped(k)
  PROVE  Owned'
  <1>1. \A j \in Keys : key'[j] = IF j = k THEN NULL ELSE key[j]
    BY DEF Dropped, Basic, LifeTyped
  <1>2. ASSUME NEW t \in Threads, NEW y \in Indexes, tls'[t][y] # NULL
        PROVE  key'[tls'[t][y][2]] = y \/ y \notin Allocated'
    <2>1. y # key[k] /\ tls'[t][y] = tls[t][y] /\ y # NULL
      BY <1>2, LifeAssumption DEF Dropped
    <2>2. tls[t][y][2] \in Keys
      BY <1>2, <2>1 DEF Basic, LifeTyped, Values
    <2> QED
      BY <1>1, <1>2, <2>1, <2>2 DEF Owned, Allocated
  <1> QED
    BY <1>1, <1>2 DEF Owned

LEMMA DropHolds ==
  ASSUME Basic, Owned, NEW k \in Keys, Dropped(k), UNCHANGED tbl,
         NEW i \in 1 .. Slots, NEW l \in Keys, Holds(i, l)
  PROVE  Holds(i, l)'
  <1> DEFINE y == tbl[i].key
  <1>1. \A j \in Keys : key'[j] = IF j = k THEN NULL ELSE key[j]
    BY DEF Dropped, Basic, LifeTyped
  <1>2. SUFFICES ASSUME y # NULL
                 PROVE  /\ key'[l] = y \/ y \notin Allocated'
                        /\ \A t \in Threads : tls'[t][y] # NULL => tls'[t][y][2] = l
    BY DEF Holds
  <1>3. y \in Indexes
    BY <1>2 DEF Basic, LifeTyped
  <1>4. \A t \in Threads : tls'[t][y] # NULL => tls'[t][y][2] = l
    BY <1>2, <1>3 DEF Dropped, Holds
  <1>5. key'[l] = y \/ y \notin Allocated'
    <2>1. CASE key[l] = y /\ l # k
      BY <1>1, <2>1
    <2>2. CASE key[l] = y /\ l = k
      BY <1>1, <1>2, <2>2 DEF Owned, Allocated
    <2>3. CASE y \notin Allocated
      BY <1>1, <1>2, <2>3 DEF Allocated
    <2> QED
      BY <1>2, <2>1, <2>2, <2>3 DEF Holds
  <1> QED
    BY <1>2, <1>4, <1>5

\* A thread gives key k a value, or the values of an ended thread go.
Stored(t, k) ==
    /\ UNCHANGED key
    /\ tls' = IF key[k] = NULL THEN tls ELSE [tls EXCEPT ![t][key[k]] = <<t, k>>]

Cleared == UNCHANGED key /\ \A t \in Threads, x \in Indexes : tls'[t][x] \in {NULL, tls[t][x]}

LEMMA StoreCases ==
  ASSUME Basic, NEW t \in Threads, NEW k \in Keys, Stored(t, k)
  PROVE  \A u \in Threads, x \in Indexes :
           tls'[u][x] = IF u = t /\ x = key[k] THEN <<t, k>> ELSE tls[u][x]
  <1>1. CASE key[k] = NULL
    BY <1>1, LifeAssumption DEF Stored
  <1>2. CASE key[k] # NULL
    BY <1>2 DEF Stored, Basic, LifeTyped
  <1> QED
    BY <1>1, <1>2

LEMMA StoreOwned ==
  ASSUME Basic, Owned, NEW t \in Threads, NEW k \in Keys, Stored(t, k)
  PROVE  Owned'
  <1>1. UNCHANGED <<key, Allocated>>
    BY DEF Stored, Allocated
  <1>2. \A u \in Threads, x \in Indexes :
          tls'[u][x] = IF u = t /\ x = key[k] THEN <<t, k>> ELSE tls[u][x]
    BY StoreCases
  <1>3. ASSUME NEW u \in Threads, NEW x \in Indexes, tls'[u][x] # NULL
        PROVE  key[tls'[u][x][2]] = x \/ x \notin Allocated
    <2>1. CASE u = t /\ x = key[k]
      <3>1. tls'[u][x] = <<t, k>>
        BY <1>2, <2>1
      <3> QED
        BY <2>1, <3>1
    <2>2. CASE ~ (u = t /\ x = key[k])
      <3>1. tls'[u][x] = tls[u][x]
        BY <1>2, <2>2
      <3> QED
        BY <1>3, <3>1 DEF Owned
    <2> QED
      BY <2>1, <2>2
  <1> QED
    BY <1>1, <1>3 DEF Owned

LEMMA StoreHolds ==
  ASSUME Basic, Owned, NEW t \in Threads, NEW k \in Keys, Stored(t, k), UNCHANGED tbl,
         NEW i \in 1 .. Slots, NEW l \in Keys, Holds(i, l)
  PROVE  Holds(i, l)'
  <1> DEFINE y == tbl[i].key
  <1>1. UNCHANGED <<key, Allocated>>
    BY DEF Stored, Allocated
  <1>2. SUFFICES ASSUME y # NULL, NEW u \in Threads, tls'[u][y] # NULL
                 PROVE  tls'[u][y][2] = l
    BY <1>1 DEF Holds
  <1>3. y \in Indexes
    BY <1>2 DEF Basic, LifeTyped
  <1>4. tls'[u][y] = IF u = t /\ y = key[k] THEN <<t, k>> ELSE tls[u][y]
    BY <1>3, StoreCases
  <1>5. CASE u = t /\ y = key[k]
    <2>1. key[l] = y
      BY <1>2, <1>5 DEF Holds, Allocated
    <2>2. k = l
      BY <1>2, <1>5, <2>1 DEF Owned
    <2> QED
      BY <1>5, <1>4, <2>2
  <1>6. CASE ~ (u = t /\ y = key[k])
    BY <1>2, <1>6, <1>4 DEF Holds
  <1> QED
    BY <1>5, <1>6

LEMMA ClearKeeps ==
  ASSUME Basic, Owned, Cleared
  PROVE  /\ Owned'
         /\ UNCHANGED tbl => \A i \in 1 .. Slots, l \in Keys : Holds(i, l) => Holds(i, l)'
  <1>1. UNCHANGED <<key, Allocated>>
    BY DEF Cleared, Allocated
  <1>2. Owned'
    BY <1>1 DEF Owned, Cleared
  <1>3. ASSUME UNCHANGED tbl, NEW i \in 1 .. Slots, NEW l \in Keys, Holds(i, l)
        PROVE  Holds(i, l)'
    <2>1. tbl[i].key # NULL => tbl[i].key \in Indexes
      BY DEF Basic, LifeTyped
    <2> QED
      BY <1>1, <1>3, <2>1 DEF Holds, Cleared
  <1> QED
    BY <1>2, <1>3

\* What keeps the table as it is, moves no thread inside a registration or a
\* look, and keeps who an entry belongs to, keeps the invariant.
LEMMA TableKept ==
  ASSUME Basic, Basic', TableInv, UNCHANGED tbl, Clean' => Clean,
         \A u \in Threads :
            Setting(u)' => /\ Setting(u)
                           /\ UNCHANGED <<pc[u], slot[u], todo[u]>>,
         \A u \in Threads : Looking(u)' => Looking(u) /\ UNCHANGED <<slot[u], seen[u]>>,
         Clean' => \A i \in 1 .. Slots, k \in Keys : Holds(i, k) => Holds(i, k)'
  PROVE  TableInv'
  <1> SUFFICES ASSUME Clean' PROVE TableInv'
    BY DEF TableInv
  <1>1. \A t, u \in Threads : Setting(t)' /\ Setting(u)' /\ slot'[t] = slot'[u] => t = u
    BY DEF TableInv
  <1>2. \A t \in Threads : Setting(t)' => tbl'[slot'[t]].dtor = NULL
    BY DEF TableInv
  <1>3. ASSUME NEW t \in Threads, pc'[t] = "set_dtor" PROVE Holds(slot[t], Arg(t))'
    <2>1. /\ Setting(t) /\ pc[t] = "set_dtor" /\ slot'[t] = slot[t] /\ Arg(t)' = Arg(t)
          /\ slot[t] \in 1 .. Slots /\ Arg(t) \in Keys
      BY <1>3, KeyCall DEF Setting, Registering, Basic, CallInv, Arg
    <2>2. Holds(slot[t], Arg(t))
      BY <2>1 DEF TableInv
    <2> QED
      BY <2>1, <2>2 DEF Holds
  <1>4. ASSUME NEW i \in 1 .. Slots, tbl'[i].dtor # NULL PROVE Holds(i, tbl[i].dtor)'
    <2>1. tbl[i].dtor \in Keys /\ Holds(i, tbl[i].dtor)
      BY <1>4 DEF Basic, LifeTyped, TableInv
    <2> QED
      BY <2>1 DEF Holds
  <1>5. \A t \in Threads : Looking(t)' => tbl'[slot'[t]].dtor = seen'[t][2]
    BY DEF TableInv
  <1> QED
    BY <1>1, <1>2, <1>3, <1>4, <1>5 DEF TableInv

Kept == Owned /\ TableInv /\ OwnDestructor

LEMMA SameHolds ==
  ASSUME UNCHANGED <<tbl, key, tls>>, NEW i, NEW k, Holds(i, k)
  PROVE  Holds(i, k)'
  BY DEF Holds, Allocated

LEMMA SameOwned ==
  ASSUME Owned, UNCHANGED <<key, tls>>
  PROVE  Owned'
  BY DEF Owned, Allocated

LEMMA QuietKept ==
  ASSUME Basic, Basic', Kept, Quiet
  PROVE  Kept'
  <1>1. Owned' /\ OwnDestructor'
    BY SameOwned DEF Kept, Quiet, tssVars, OwnDestructor
  <1>2. TableInv'
    <2>1. UNCHANGED tbl /\ (Clean' => Clean)
      BY DEF Quiet, tssVars, Clean
    <2>2. \A u \in Threads :
            Setting(u)' => Setting(u) /\ UNCHANGED <<pc[u], slot[u], todo[u]>>
      BY DEF Quiet, localVars, Setting, Registering
    <2>3. \A u \in Threads : Looking(u)' => Looking(u) /\ UNCHANGED <<slot[u], seen[u]>>
      BY DEF Quiet, localVars, Looking
    <2>4. \A i \in 1 .. Slots, k \in Keys : Holds(i, k) => Holds(i, k)'
      BY SameHolds DEF Quiet, tssVars
    <2> QED
      BY <2>1, <2>2, <2>3, <2>4, TableKept DEF Kept
  <1> QED
    BY <1>1, <1>2 DEF Kept

LEMMA ExitKept ==
  ASSUME Basic, Basic', Kept, NEW t \in Threads, ThrdExit(t) \/ Ended(t)
  PROVE  Kept'
  <1>1. UNCHANGED <<pc, tssVars>> /\ life'[t] # "running"
        /\ \A u \in Threads \ {t} : UNCHANGED <<life[u], slot[u], seen[u], todo[u]>>
    BY DEF ThrdExit, Ended, Staying, localVars, Basic, LifeTyped
  <1>2. pc[t] = "idle" /\ ~ Looking(t)'
    BY DEF ThrdExit, Ended, Calls, Basic, CallInv, LifeTyped, Looking
  <1>3. Owned' /\ OwnDestructor'
    BY <1>1, SameOwned DEF Kept, tssVars, OwnDestructor
  <1>4. TableInv'
    <2>1. UNCHANGED tbl /\ (Clean' => Clean)
      BY <1>1 DEF tssVars, Clean
    <2>2. \A u \in Threads :
            Setting(u)' => Setting(u) /\ UNCHANGED <<pc[u], slot[u], todo[u]>>
      BY <1>1, <1>2 DEF Setting
    <2>3. \A u \in Threads : Looking(u)' => Looking(u) /\ UNCHANGED <<slot[u], seen[u]>>
      BY <1>1, <1>2 DEF Looking
    <2>4. \A i \in 1 .. Slots, k \in Keys : Holds(i, k) => Holds(i, k)'
      BY <1>1, SameHolds DEF tssVars
    <2> QED
      BY <2>1, <2>2, <2>3, <2>4, TableKept DEF Kept
  <1> QED
    BY <1>3, <1>4 DEF Kept

\* Steps of a thread t that touch keys and values only.
LEMMA ValuesKept ==
  ASSUME Basic, Basic', Kept, NEW t \in Threads,
         UNCHANGED <<tbl, life, localVars, destroyed>>, Clean' => Clean,
         ~ Setting(t)', \A u \in Threads \ {t} : UNCHANGED <<pc[u], todo[u]>>,
         Owned',
         Clean' => \A i \in 1 .. Slots, k \in Keys : Holds(i, k) => Holds(i, k)'
  PROVE  Kept'
  <1>1. OwnDestructor'
    BY DEF Kept, OwnDestructor, Clean
  <1>2. \A u \in Threads :
          Setting(u)' => Setting(u) /\ UNCHANGED <<pc[u], slot[u], todo[u]>>
    BY DEF Setting, localVars
  <1>3. \A u \in Threads : Looking(u)' => Looking(u) /\ UNCHANGED <<slot[u], seen[u]>>
    BY DEF Looking, localVars
  <1>4. TableInv'
    BY <1>2, <1>3, TableKept DEF Kept
  <1> QED
    BY <1>1, <1>4 DEF Kept

LEMMA CreateKept ==
  ASSUME Basic, Basic', Kept, NEW t \in Threads, TssCreate(t)
  PROVE  Kept'
  <1>1. Arg(t) \in Keys
    BY KeyCall DEF TssCreate, Calls
  <1>2. PICK x \in Indexes \union {NULL} : Alloc(Arg(t), x)
    BY DEF TssCreate
  <1>3. UNCHANGED <<tbl, life, localVars, destroyed>> /\ (Clean' => Clean)
    BY <1>2 DEF TssCreate, threadVars, Clean, Alloc
  <1>4. ~ Setting(t)' /\ \A u \in Threads \ {t} : UNCHANGED <<pc[u], todo[u]>>
    BY DEF TssCreate, Goto, Return, Setting, Basic, LifeTyped
  <1>5. Owned'
    BY <1>1, <1>2, AllocOwned DEF Kept
  <1>6. Clean' => \A i \in 1 .. Slots, k \in Keys : Holds(i, k) => Holds(i, k)'
    BY <1>1, <1>2, <1>3, AllocHolds DEF Kept, Clean
  <1> QED
    BY <1>3, <1>4, <1>5, <1>6, ValuesKept

LEMMA DeleteKept ==
  ASSUME Basic, Basic', Kept, NEW t \in Threads, TssDelete(t)
  PROVE  Kept'
  <1>1. Arg(t) \in Keys
    BY KeyCall DEF TssDelete, Calls
  <1>2. Dropped(Arg(t))
    BY DEF TssDelete, Dropped
  <1>3. UNCHANGED <<tbl, life, localVars, destroyed>> /\ (Clean' => Clean)
    BY DEF TssDelete, threadVars, Clean
  <1>4. ~ Setting(t)' /\ \A u \in Threads \ {t} : UNCHANGED <<pc[u], todo[u]>>
    BY DEF TssDelete, Goto, Return, Setting, Basic, LifeTyped
  <1>5. Owned'
    BY <1>1, <1>2, DropOwned DEF Kept
  <1>6. \A i \in 1 .. Slots, k \in Keys : Holds(i, k) => Holds(i, k)'
    BY <1>1, <1>2, <1>3, DropHolds DEF Kept
  <1> QED
    BY <1>3, <1>4, <1>5, <1>6, ValuesKept

LEMMA SetKept ==
  ASSUME Basic, Basic', Kept, NEW t \in Threads, TssSet(t)
  PROVE  Kept'
  <1>1. Arg(t) \in Keys
    BY KeyCall DEF TssSet, Calls
  <1>2. Stored(t, Arg(t))
    BY DEF TssSet, Stored
  <1>3. UNCHANGED <<tbl, life, localVars, destroyed>> /\ (Clean' => Clean)
    BY DEF TssSet, threadVars, Clean
  <1>4. ~ Setting(t)' /\ \A u \in Threads \ {t} : UNCHANGED <<pc[u], todo[u]>>
    BY DEF TssSet, Goto, Return, Setting, Basic, LifeTyped
  <1>5. Owned'
    BY <1>1, <1>2, StoreOwned DEF Kept
  <1>6. \A i \in 1 .. Slots, k \in Keys : Holds(i, k) => Holds(i, k)'
    BY <1>1, <1>2, <1>3, StoreHolds DEF Kept
  <1> QED
    BY <1>3, <1>4, <1>5, <1>6, ValuesKept

\* No entry is free, and the key goes; or the thread takes a free entry, and if
\* another has it the registrations have collided.
LEMMA RegisterKept ==
  ASSUME Basic, Basic', Kept, NEW t \in Threads, Register(t)
  PROVE  Kept'
  <1>1. Arg(t) \in Keys
    BY KeyCall DEF Register, Basic, CallInv, Registering
  <1>2. UNCHANGED <<tbl, life, destroyed, recycled, seen>> /\ (Clean' => Clean)
    BY DEF Register, threadVars, Clean, Basic, LifeTyped
  <1>3. CASE Dropped(Arg(t)) /\ Return(t, "error") /\ UNCHANGED <<slot, collided>>
    <2>1. ~ Setting(t)' /\ \A u \in Threads \ {t} : UNCHANGED <<pc[u], todo[u]>>
      BY <1>3 DEF Goto, Return, Setting, Basic, LifeTyped
    <2>2. Owned'
      BY <1>1, <1>3, DropOwned DEF Kept
    <2>3. \A i \in 1 .. Slots, k \in Keys : Holds(i, k) => Holds(i, k)'
      BY <1>1, <1>2, <1>3, DropHolds DEF Kept
    <2>4. UNCHANGED localVars
      BY <1>2, <1>3 DEF localVars
    <2> QED
      BY <1>2, <2>1, <2>2, <2>3, <2>4, ValuesKept
  <1>4. ASSUME NEW i \in Unused, slot' = [slot EXCEPT ![t] = i],
               collided' = (collided \/ \E u \in Threads :
                                pc[u] \in {"set_key", "set_dtor"} /\ slot[u] = i),
               Goto(t, "set_key"), UNCHANGED <<todo, key, tls>>
        PROVE  Kept'
    <2>1. Owned' /\ OwnDestructor'
      BY <1>2, <1>4, SameOwned DEF Kept, OwnDestructor
    <2>2. SUFFICES ASSUME Clean' PROVE TableInv'
      BY <2>1 DEF Kept, TableInv
    <2>3. /\ Clean
          /\ \A u \in Threads : Setting(u) => slot[u] # i
          /\ i \in 1 .. Slots /\ tbl[i].dtor = NULL
      BY <1>2, <1>4, <2>2 DEF Clean, Setting, Unused
    <2>4. \A u \in Threads \ {t} :
            pc'[u] = pc[u] /\ slot'[u] = slot[u] /\ Setting(u)' = Setting(u)
      BY <1>4 DEF Goto, Setting, Basic, LifeTyped
    <2>5. pc'[t] = "set_key" /\ slot'[t] = i
      BY <1>4 DEF Goto, Basic, LifeTyped
    <2>6. \A u, v \in Threads : Setting(u)' /\ Setting(v)' /\ slot'[u] = slot'[v] => u = v
      BY <2>3, <2>4, <2>5 DEF Kept, TableInv
    <2>7. \A u \in Threads : Setting(u)' => tbl'[slot'[u]].dtor = NULL
      BY <1>2, <2>3, <2>4, <2>5 DEF Kept, TableInv
    <2>8. ASSUME NEW u \in Threads, pc'[u] = "set_dtor" PROVE Holds(slot[u], Arg(u))'
      <3>1. u # t /\ pc[u] = "set_dtor" /\ slot'[u] = slot[u] /\ Arg(u)' = Arg(u)
        BY <1>4, <2>4, <2>5, <2>8 DEF Arg
      <3>2. Holds(slot[u], Arg(u))
        BY <2>3, <3>1 DEF Kept, TableInv
      <3> QED
        BY <1>2, <1>4, <3>1, <3>2 DEF Holds, Allocated
    <2>9. \A j \in 1 .. Slots : tbl'[j].dtor # NULL => Holds(j, tbl[j].dtor)'
      BY <1>2, <1>4, <2>3 DEF Kept, TableInv, Holds, Allocated
    <2>10. ASSUME NEW u \in Threads, Looking(u)' PROVE tbl'[slot'[u]].dtor = seen'[u][2]
      <3>1. u # t /\ Looking(u)
        BY <1>2, <2>10 DEF Looking, Register, Basic, CallInv
      <3> QED
        BY <1>2, <2>3, <2>4, <3>1 DEF Kept, TableInv
    <2> QED
      BY <2>6, <2>7, <2>8, <2>9, <2>10 DEF TableInv
  <1> QED
    BY <1>3, <1>4 DEF Register, Dropped

\* The index is written next to no destructor.
LEMMA SetKeyKept ==
  ASSUME Basic, Basic', Kept, NEW t \in Threads, SetKey(t)
  PROVE  Kept'
  <1>1. Arg(t) \in Keys /\ slot[t] \in 1 .. Slots /\ Setting(t) /\ life[t] # "exiting"
    BY KeyCall DEF SetKey, Basic, CallInv, Registering, Setting
  <1>2. /\ UNCHANGED <<todo, slot, seen, life, key, tls, destroyed, collided, recycled>>
        /\ tbl' = [tbl EXCEPT ![slot[t]].key = key[Arg(t)]]
        /\ pc' = [pc EXCEPT ![t] = "set_dtor"] /\ Clean' = Clean
    BY DEF SetKey, Staying, Goto, localVars, threadVars, Clean
  <1>3. Owned' /\ OwnDestructor'
    BY <1>2, SameOwned DEF Kept, OwnDestructor
  <1>4. SUFFICES ASSUME Clean PROVE TableInv'
    BY <1>2, <1>3 DEF Kept, TableInv
  <1>5. \A u \in Threads :
          Setting(u)' = Setting(u) /\ (u # t => pc'[u] = pc[u])
    BY <1>1, <1>2 DEF Setting, Basic, LifeTyped
  <1>6. /\ \A j \in 1 .. Slots : tbl'[j].dtor = tbl[j].dtor
        /\ \A j \in 1 .. Slots : j # slot[t] => tbl'[j] = tbl[j]
        /\ tbl'[slot[t]].key = key[Arg(t)]
    BY <1>1, <1>2 DEF Basic, LifeTyped
  <1>7. \A j \in 1 .. Slots, k \in Keys :
          j # slot[t] /\ Holds(j, k) => Holds(j, k)'
    BY <1>2, <1>6 DEF Holds, Allocated
  <1>8. \A u, v \in Threads : Setting(u)' /\ Setting(v)' /\ slot'[u] = slot'[v] => u = v
    BY <1>2, <1>4, <1>5 DEF Kept, TableInv
  <1>9. \A u \in Threads : Setting(u)' => tbl'[slot'[u]].dtor = NULL
    BY <1>2, <1>4, <1>5, <1>6 DEF Kept, TableInv, Basic, CallInv
  <1>10. ASSUME NEW u \in Threads, pc'[u] = "set_dtor" PROVE Holds(slot[u], Arg(u))'
    <2>1. Arg(u)' = Arg(u) /\ slot'[u] = slot[u]
      BY <1>2 DEF Arg
    <2>2. CASE u = t
      <3>1. SUFFICES ASSUME key[Arg(t)] # NULL, NEW v \in Threads,
                            tls[v][key[Arg(t)]] # NULL
                     PROVE  tls[v][key[Arg(t)]][2] = Arg(t)
        BY <1>2, <1>6, <2>1, <2>2 DEF Holds
      <3>2. key[Arg(t)] \in Indexes /\ key[Arg(t)] \in Allocated
        BY <1>1, <3>1 DEF Basic, LifeTyped, Allocated
      <3>3. tls[v][key[Arg(t)]] \in Values
        BY <3>1, <3>2 DEF Basic, LifeTyped
      <3>4. key[tls[v][key[Arg(t)]][2]] = key[Arg(t)] /\ tls[v][key[Arg(t)]][2] \in Keys
        BY <3>1, <3>2, <3>3 DEF Kept, Owned, Values
      <3> QED
        BY <1>1, <3>1, <3>4 DEF Kept, Owned
    <2>3. CASE u # t
      <3>1. pc[u] = "set_dtor" /\ Setting(u) /\ slot[u] # slot[t]
        BY <1>1, <1>4, <1>5, <1>10, <2>3 DEF Setting, Kept, TableInv
      <3>2. slot[u] \in 1 .. Slots /\ Arg(u) \in Keys /\ Holds(slot[u], Arg(u))
        BY <1>4, <3>1, KeyCall DEF Basic, CallInv, Registering, Setting, Kept, TableInv
      <3> QED
        BY <1>7, <2>1, <3>1, <3>2 DEF Holds
    <2> QED
      BY <2>2, <2>3
  <1>11. ASSUME NEW j \in 1 .. Slots, tbl'[j].dtor # NULL PROVE Holds(j, tbl[j].dtor)'
    <2>1. j # slot[t] /\ tbl[j].dtor \in Keys /\ Holds(j, tbl[j].dtor)
      BY <1>1, <1>4, <1>6, <1>11 DEF Kept, TableInv, Basic, LifeTyped
    <2> QED
      BY <1>6, <1>7, <2>1 DEF Holds
  <1>12. \A u \in Threads : Looking(u)' => tbl'[slot'[u]].dtor = seen'[u][2]
    BY <1>2, <1>4, <1>6 DEF Looking, Kept, TableInv, Basic, CallInv
  <1> QED
    BY <1>8, <1>9, <1>10, <1>11, <1>12 DEF TableInv

\* The destructor is written next to its key's index.
LEMMA SetDtorKept ==
  ASSUME Basic, Basic', Kept, NEW t \in Threads, SetDtor(t)
  PROVE  Kept'
  <1>1. Arg(t) \in Keys /\ slot[t] \in 1 .. Slots /\ Setting(t)
    BY KeyCall DEF SetDtor, Basic, CallInv, Registering, Setting
  <1>2. /\ UNCHANGED <<slot, seen, life, key, tls, destroyed, collided, recycled>>
        /\ tbl' = [tbl EXCEPT ![slot[t]].dtor = Arg(t)]
        /\ ~ Setting(t)' /\ Clean' = Clean
        /\ \A u \in Threads \ {t} : UNCHANGED <<pc[u], todo[u]>>
    BY DEF SetDtor, Return, Goto, localVars, threadVars, Clean, Setting, Basic, LifeTyped
  <1>3. Owned' /\ OwnDestructor'
    BY <1>2, SameOwned DEF Kept, OwnDestructor
  <1>4. SUFFICES ASSUME Clean PROVE TableInv'
    BY <1>2, <1>3 DEF Kept, TableInv
  <1>5. \A u \in Threads : Setting(u)' => Setting(u) /\ u # t
    BY <1>2 DEF Setting
  <1>6. /\ \A j \in 1 .. Slots : tbl'[j].key = tbl[j].key
        /\ \A j \in 1 .. Slots : j # slot[t] => tbl'[j] = tbl[j]
        /\ tbl'[slot[t]].dtor = Arg(t)
    BY <1>1, <1>2 DEF Basic, LifeTyped
  <1>7. \A j \in 1 .. Slots, k \in Keys : Holds(j, k) => Holds(j, k)'
    BY <1>2, <1>6 DEF Holds, Allocated
  <1>8. \A u, v \in Threads : Setting(u)' /\ Setting(v)' /\ slot'[u] = slot'[v] => u = v
    BY <1>2, <1>4, <1>5 DEF Kept, TableInv
  <1>9. ASSUME NEW u \in Threads, Setting(u)' PROVE tbl'[slot'[u]].dtor = NULL
    <2>1. slot[u] # slot[t] /\ tbl[slot[u]].dtor = NULL /\ slot[u] \in 1 .. Slots
      BY <1>1, <1>4, <1>5, <1>9 DEF Kept, TableInv, Basic, CallInv
    <2> QED
      BY <1>2, <1>6, <2>1
  <1>10. ASSUME NEW u \in Threads, pc'[u] = "set_dtor" PROVE Holds(slot[u], Arg(u))'
    <2>1. /\ u # t /\ Arg(u)' = Arg(u) /\ slot'[u] = slot[u]
          /\ pc[u] = "set_dtor" /\ Setting(u)
      BY <1>2, <1>5, <1>10 DEF Arg, Setting
    <2>2. slot[u] \in 1 .. Slots /\ Arg(u) \in Keys /\ Holds(slot[u], Arg(u))
      BY <1>4, <2>1, KeyCall DEF Basic, CallInv, Registering, Setting, Kept, TableInv
    <2> QED
      BY <1>7, <2>1, <2>2 DEF Holds
  <1>11. ASSUME NEW j \in 1 .. Slots, tbl'[j].dtor # NULL PROVE Holds(j, tbl[j].dtor)'
    <2>1. tbl'[j].dtor \in Keys /\ Holds(j, tbl'[j].dtor)
      <3>1. CASE j = slot[t]
        BY <1>1, <1>4, <1>6, <3>1 DEF SetDtor, Kept, TableInv
      <3>2. CASE j # slot[t]
        BY <1>4, <1>6, <1>11, <3>2 DEF Kept, TableInv, Basic, LifeTyped
      <3> QED
        BY <3>1, <3>2
    <2> QED
      BY <1>2, <1>6, <2>1 DEF Holds, Allocated
  <1>12. ASSUME NEW u \in Threads, Looking(u)' PROVE tbl'[slot'[u]].dtor = seen'[u][2]
    <2>1. Looking(u) /\ slot[u] \in 1 .. Slots /\ seen[u] \in Values
      BY <1>2, <1>12 DEF Looking, Basic, CallInv, LifeTyped
    <2>2. tbl[slot[u]].dtor = seen[u][2] /\ seen[u][2] # NULL
      BY <1>4, <2>1, LifeAssumption DEF Kept, TableInv, Values
    <2>3. slot[u] # slot[t]
      BY <1>1, <1>4, <2>2 DEF Kept, TableInv
    <2> QED
      BY <1>2, <1>6, <2>1, <2>2, <2>3
  <1> QED
    BY <1>8, <1>9, <1>10, <1>11, <1>12 DEF TableInv

\* A thread that ends finds a value at its entry, and calls the destructor.
LEMMA InvokeKept ==
  ASSUME Basic, Basic', Kept, NEW t \in Threads, InvokeCheck(t) \/ InvokeCall(t)
  PROVE  Kept'
  <1>1. /\ UNCHANGED <<pc, todo, life, tbl, key, tls, collided, recycled>>
        /\ \A u \in Threads \ {t} : slot'[u] = slot[u] /\ seen'[u] = seen[u]
        /\ ~ Setting(t) /\ Clean' = Clean /\ slot[t] \in 1 .. Slots
    BY LifeAssumption DEF InvokeCheck, InvokeCall, LastSlot, Staying, threadVars, tssVars, Clean, Setting,
           Looking, Basic, LifeTyped, CallInv
  <1>2. Owned'
    BY <1>1, SameOwned DEF Kept
  <1>3. Clean /\ Looking(t)' => tbl[slot'[t]].dtor = seen'[t][2]
    <2>1. CASE InvokeCheck(t)
      <3>1. SUFFICES ASSUME Clean, Found(t) # NULL, seen'[t] = Found(t), slot' = slot
                     PROVE  tbl[slot[t]].dtor = Found(t)[2]
        BY <2>1 DEF InvokeCheck, Found, Looking, Basic, LifeTyped
      <3>2. /\ tbl[slot[t]].dtor # NULL /\ tbl[slot[t]].key # NULL
            /\ Found(t) = tls[t][tbl[slot[t]].key]
        BY <3>1 DEF Found
      <3>3. Holds(slot[t], tbl[slot[t]].dtor)
        BY <1>1, <3>1, <3>2 DEF Kept, TableInv
      <3> QED
        BY <3>1, <3>2, <3>3 DEF Holds
    <2>2. CASE InvokeCall(t)
      BY <2>2 DEF InvokeCall, Looking, Basic, LifeTyped
    <2> QED
      BY <2>1, <2>2
  <1>4. OwnDestructor'
    <2>1. CASE InvokeCheck(t)
      BY <2>1 DEF InvokeCheck, tssVars, Kept, OwnDestructor
    <2>2. CASE InvokeCall(t)
      <3>1. Clean => tbl[slot[t]].dtor = seen[t][2]
        BY <2>2 DEF InvokeCall, Looking, Kept, TableInv
      <3> QED
        BY <1>1, <2>2, <3>1 DEF InvokeCall, DtorAt, Kept, OwnDestructor, Clean
    <2> QED
      BY <2>1, <2>2
  <1>5. SUFFICES ASSUME Clean PROVE TableInv'
    BY <1>1, <1>2, <1>4 DEF Kept, TableInv
  <1>6. \A u \in Threads : Setting(u)' = Setting(u) /\ Arg(u)' = Arg(u)
    BY <1>1 DEF Setting, Arg
  <1>7. \A i, k : Holds(i, k)' = Holds(i, k)
    BY <1>1 DEF Holds, Allocated
  <1>8. \A u \in Threads : Setting(u)' => slot'[u] = slot[u]
    BY <1>1, <1>6
  <1>9. \A u \in Threads : Looking(u)' => tbl'[slot'[u]].dtor = seen'[u][2]
    BY <1>1, <1>3, <1>5 DEF Looking, Kept, TableInv
  <1>10. \A u \in Threads : pc'[u] = "set_dtor" => Holds(slot[u], Arg(u))'
    BY <1>1, <1>5, <1>6, <1>8 DEF Setting, Kept, TableInv, Holds, Allocated
  <1>11. /\ \A u, v \in Threads : Setting(u)' /\ Setting(v)' /\ slot'[u] = slot'[v] => u = v
         /\ \A u \in Threads : Setting(u)' => tbl'[slot'[u]].dtor = NULL
         /\ \A i \in 1 .. Slots : tbl'[i].dtor # NULL => Holds(i, tbl[i].dtor)'
    BY <1>1, <1>5, <1>6, <1>7, <1>8 DEF Kept, TableInv, Holds, Allocated
  <1> QED
    BY <1>9, <1>10, <1>11 DEF TableInv

\* POSIX calls the destructor of each key with that key's value.
LEMMA PosixKept ==
  ASSUME Basic, Basic', Kept, NEW t \in Threads, PosixEnded(t)
  PROVE  Kept'
  <1>1. /\ UNCHANGED <<pc, todo, slot, seen, tbl, key, collided, recycled>>
        /\ Clean' = Clean /\ life' = [life EXCEPT ![t] = "ended"]
    BY DEF PosixEnded, Staying, localVars, Clean
  <1>2. Cleared
    BY DEF PosixEnded, Cleared, Basic, LifeTyped
  <1>3. OwnDestructor'
    <2>1. ASSUME NEW k \in Keys, key[k] # NULL, tls[t][key[k]] # NULL
          PROVE  tls[t][key[k]][2] = k
      <3>1. key[k] \in Indexes /\ key[k] \in Allocated
        BY <2>1 DEF Basic, LifeTyped, Allocated
      <3>2. tls[t][key[k]][2] \in Keys
        BY <2>1, <3>1 DEF Basic, LifeTyped, Values
      <3> QED
        BY <2>1, <3>1, <3>2 DEF Kept, Owned
    <2> QED
      BY <1>1, <2>1 DEF PosixEnded, Kept, OwnDestructor
  <1>4. TableInv'
    <2>1. \A u \in Threads :
            Setting(u)' => Setting(u) /\ UNCHANGED <<pc[u], slot[u], todo[u]>>
      BY <1>1 DEF Setting
    <2>2. \A u \in Threads : Looking(u)' => Looking(u) /\ UNCHANGED <<slot[u], seen[u]>>
      BY <1>1 DEF Looking, Basic, LifeTyped
    <2>3. \A i \in 1 .. Slots, k \in Keys : Holds(i, k) => Holds(i, k)'
      BY <1>1, <1>2, ClearKeeps DEF Kept
    <2> QED
      BY <1>1, <2>1, <2>2, <2>3, TableKept DEF Kept
  <1> QED
    BY <1>2, <1>3, <1>4, ClearKeeps DEF Kept

LEMMA StepKept ==
  ASSUME Basic, Basic', Kept, [Next]_vars
  PROVE  Kept'
  <1>1. CASE UNCHANGED vars
    <2>1. Owned' /\ OwnDestructor'
      BY <1>1, SameOwned DEF vars, tssVars, Kept, OwnDestructor
    <2>2. TableInv'
      BY <1>1, TableKept, SameHolds
         DEF vars, localVars, threadVars, tssVars, Kept, Clean, Setting, Looking
    <2> QED
      BY <2>1, <2>2 DEF Kept
  <1>2. ASSUME NEW t \in Threads, ThreadStep(t) PROVE Kept'
    BY <1>2, QuietSteps, QuietKept, ExitKept, CreateKept, RegisterKept, SetKeyKept, SetDtorKept,
       DeleteKept, SetKept, InvokeKept, PosixKept DEF ThreadStep
  <1> QED
    BY <1>1, <1>2 DEF Next

\* On both platforms, a value goes to the destructor of the key it was set for,
\* unless an index in the table has been handed out again or two registrations
\* have taken one entry.
THEOREM DestructorsMatch == Spec => []OwnDestructor
  <1>1. Init => Basic /\ Kept
    BY InitBasic, InitOwned DEF Kept
  <1>2. Basic /\ Kept /\ [Next]_vars => (Basic /\ Kept)'
    BY StepBasic, StepKept
  <1>3. Kept => OwnDestructor
    BY DEF Kept
  <1> QED
    BY <1>1, <1>2, <1>3, PTL DEF Spec

-----------------------------------------------------------------------------
(* Every value of an ended thread has been destroyed.                      *)

\* A program gives a key values only after its tss_create has returned.
UsedAfterCreation ==
    \A t, u \in Threads : Calls(t, "tss_set") /\ Registering(u) => Arg(t) # Arg(u)

Value(t, k) == IF key[k] = NULL THEN NULL ELSE tls[t][key[k]]
Entry(i, k) == tbl[i].key = key[k] /\ tbl[i].dtor = k

\* The thread has yet to write its key's index, or has written it.
Entering(t) ==
    \/ pc[t] \in {"register", "set_key"}
    \/ pc[t] = "set_dtor" /\ tbl[slot[t]].key = key[Arg(t)]

\* Threads that register have entries of their own, without a destructor yet.
OwnSlots ==
    /\ \A t, u \in Threads : Setting(t) /\ Setting(u) /\ slot[t] = slot[u] => t = u
    /\ \A t \in Threads : Setting(t) => tbl[slot[t]].dtor = NULL

\* A key with a destructor is in the table, or a thread is entering it.
Entered(k) ==
    \/ \E i \in 1 .. Slots : Entry(i, k)
    \/ \E t \in Threads : Entering(t) /\ Arg(t) = k

EachEntered == \A k \in Keys \ Plain : key[k] # NULL => Entered(k)

\* No thread has a value yet for a key that is being entered.
NoValueYet ==
    \A t, u \in Threads : Registering(t) => Value(u, Arg(t)) = NULL

\* An ending thread has destroyed its value, or its walk has yet to come to
\* the key's entry, or has just found that value there.
Due(t, k) ==
    \/ <<k, Value(t, k)>> \in destroyed
    \/ /\ life[t] = "exiting"
       /\ \E i \in slot[t] .. Slots :
             Entry(i, k) /\ (i = slot[t] /\ seen[t] # NULL => seen[t] = Value(t, k))

EachDue ==
    \A t \in Threads, k \in Keys \ Plain :
        life[t] \in {"exiting", "ended"} /\ Value(t, k) # NULL => Due(t, k)

WalkInv ==
    platform = "msvc" /\ ~ collided => OwnSlots /\ EachEntered /\ NoValueYet /\ EachDue

\* POSIX leaves no value of a key with a destructor.
PosixInv ==
    platform = "posix" =>
        \A t \in Threads, k \in Keys \ Plain : life[t] = "ended" => Value(t, k) = NULL

LEMMA InitWalk == Init => WalkInv /\ PosixInv
  BY DEF Init, WalkInv, PosixInv, OwnSlots, EachEntered, NoValueYet, EachDue, Setting,
         Registering, Value

LEMMA PlatformStays ==
  ASSUME NEW t \in Threads, ThreadStep(t)
  PROVE  UNCHANGED platform
  BY DEF ThreadStep, ThrdCreate, BeginThread, ThrdRoutine, ThrdExit, ThrdDetach, ThrdJoin,
         CallOnce, OnceDone, Spin, TssCreate, Register, SetKey, SetDtor, TssDelete, TssSet,
         InvokeCheck, InvokeCall, Ended, PosixEnded, Staying

\* What a step does to keys and values.
LEMMA StorageForms ==
  ASSUME Basic, NEW t \in Threads, ThreadStep(t)
  PROVE  \/ Cleared
         \/ \E k \in Keys, x \in Indexes \union {NULL} : Alloc(k, x)
         \/ \E k \in Keys : Dropped(k)
         \/ TssSet(t)
  <1>1. ASSUME UNCHANGED <<key, tls>> PROVE Cleared
    BY <1>1 DEF Cleared
  <1>2. CASE TssCreate(t)
    BY <1>2, KeyCall DEF TssCreate, Calls
  <1>3. CASE Register(t)
    <2>1. Arg(t) \in Keys
      BY <1>3, KeyCall DEF Register, Basic, CallInv, Registering
    <2> QED
      BY <1>1, <1>3, <2>1 DEF Register, Dropped
  <1>4. CASE TssDelete(t)
    BY <1>4, KeyCall DEF TssDelete, Calls, Dropped
  <1>5. CASE PosixEnded(t)
    BY <1>5 DEF PosixEnded, Cleared, Basic, LifeTyped
  <1>6. CASE \/ ThrdCreate(t) \/ BeginThread(t) \/ ThrdRoutine(t) \/ ThrdDetach(t)
             \/ ThrdJoin(t) \/ CallOnce(t) \/ OnceDone(t) \/ Spin(t)
    BY <1>1, <1>6, QuietSteps DEF Quiet, tssVars
  <1>7. CASE ThrdExit(t) \/ SetKey(t) \/ SetDtor(t) \/ InvokeCheck(t) \/ InvokeCall(t) \/ Ended(t)
    BY <1>1, <1>7 DEF ThrdExit, SetKey, SetDtor, InvokeCheck, InvokeCall, Ended, tssVars
  <1> QED
    BY <1>2, <1>3, <1>4, <1>5, <1>6, <1>7 DEF ThreadStep

\* Only a thread that runs gets new values.
LEMMA ValuesGo ==
  ASSUME Basic, NEW t \in Threads, ThreadStep(t),
         NEW u \in Threads, NEW k \in Keys, ~ (TssSet(t) /\ u = t), Value(u, k)' # NULL
  PROVE  Value(u, k)' = Value(u, k) /\ key'[k] = key[k]
  <1>1. key'[k] # NULL /\ tls'[u][key'[k]] # NULL
    BY DEF Value
  <1>2. CASE Cleared
    BY <1>1, <1>2 DEF Cleared, Value, Basic, LifeTyped
  <1>3. ASSUME NEW l \in Keys, NEW x \in Indexes \union {NULL}, Alloc(l, x)
        PROVE  Value(u, k)' = Value(u, k) /\ key'[k] = key[k]
    <2>1. key'[k] = IF k = l THEN x ELSE key[k]
      BY <1>3 DEF Alloc, Basic, LifeTyped
    <2>2. key'[k] \in Indexes
      BY <1>1, <1>3, <2>1 DEF Basic, LifeTyped
    <2>3. key'[k] # x /\ tls'[u][key'[k]] = tls[u][key'[k]]
      BY <1>1, <1>3, <2>2 DEF Alloc
    <2> QED
      BY <1>1, <2>1, <2>3 DEF Value
  <1>4. ASSUME NEW l \in Keys, Dropped(l)
        PROVE  Value(u, k)' = Value(u, k) /\ key'[k] = key[k]
    <2>1. key'[k] = key[k] /\ key[k] \in Indexes
      BY <1>1, <1>4 DEF Dropped, Basic, LifeTyped
    <2> QED
      BY <1>1, <1>4, <2>1 DEF Dropped, Value
  <1>5. CASE TssSet(t) /\ u # t
    <2>1. UNCHANGED key /\ tls'[u] = tls[u]
      BY <1>5 DEF TssSet, Basic, LifeTyped
    <2> QED
      BY <2>1 DEF Value
  <1> QED
    BY <1>2, <1>3, <1>4, <1>5, StorageForms

\* What a thread that ends leaves on POSIX.
LEMMA StepPosix ==
  ASSUME Basic, PosixInv, NEW t \in Threads, ThreadStep(t)
  PROVE  PosixInv'
  <1> SUFFICES ASSUME platform = "posix", NEW u \in Threads, NEW k \in Keys \ Plain,
                      life'[u] = "ended", Value(u, k)' # NULL
               PROVE  FALSE
    BY PlatformStays DEF PosixInv
  <1>1. CASE life[u] = "ended"
    <2>1. ~ (TssSet(t) /\ u = t)
      BY <1>1 DEF TssSet, Calls
    <2> QED
      BY <1>1, <2>1, ValuesGo DEF PosixInv
  <1>2. CASE life[u] # "ended"
    <2>1. PosixEnded(t) /\ u = t
      <3>1. ~ Ended(t)
        BY DEF Ended
      <3>2. CASE UNCHANGED life
        BY <1>2, <3>2
      <3>3. CASE \/ ThrdCreate(t) \/ BeginThread(t) \/ ThrdRoutine(t) \/ ThrdDetach(t)
                 \/ ThrdJoin(t) \/ CallOnce(t) \/ OnceDone(t) \/ Spin(t)
        BY <1>2, <3>3, QuietSteps DEF Quiet
      <3>4. CASE ThrdExit(t)
        BY <1>2, <3>4 DEF ThrdExit, Basic, LifeTyped
      <3>5. CASE PosixEnded(t)
        BY <1>2, <3>5 DEF PosixEnded, Basic, LifeTyped
      <3>6. CASE \/ TssCreate(t) \/ Register(t) \/ SetKey(t) \/ SetDtor(t) \/ TssDelete(t)
                 \/ TssSet(t) \/ InvokeCheck(t) \/ InvokeCall(t)
        BY <3>2, <3>6 DEF TssCreate, Register, SetKey, SetDtor, TssDelete, TssSet,
                          InvokeCheck, InvokeCall, threadVars
      <3> QED
        BY <3>1, <3>3, <3>4, <3>5, <3>6 DEF ThreadStep
    <2>2. UNCHANGED key /\ tls'[t] = [x \in Indexes |->
             IF \E l \in {j \in Keys \ Plain : key[j] # NULL /\ tls[t][key[j]] # NULL} : key[l] = x
             THEN NULL ELSE tls[t][x]]
      BY <2>1 DEF PosixEnded, Basic, LifeTyped
    <2>3. key[k] \in Indexes /\ tls'[t][key[k]] # NULL
      BY <2>1, <2>2 DEF Value, Basic, LifeTyped
    <2> QED
      BY <2>2, <2>3, LifeAssumption
  <1> QED
    BY <1>1, <1>2

-----------------------------------------------------------------------------
(* The walk through the table (impl_tss_dtor_invoke).                      *)

Undisturbed == \A i \in 1 .. Slots : tbl[i].dtor # NULL => tbl'[i] = tbl[i]

\* A key stays in the table, or stays being entered.
LEMMA EnteredStays ==
  ASSUME NEW k \in Keys \ Plain, Entered(k), Undisturbed, key'[k] = key[k],
         \A t \in Threads : Entering(t) /\ Arg(t) = k => Entered(k)'
  PROVE  Entered(k)'
  <1>1. ASSUME NEW i \in 1 .. Slots, Entry(i, k)
        PROVE  Entry(i, k)'
    BY <1>1, LifeAssumption DEF Entry, Undisturbed
  <1> QED
    BY <1>1 DEF Entered

\* What an ending thread owes stays owed while its walk stays.
LEMMA DueStays ==
  ASSUME EachDue, Undisturbed, destroyed \subseteq destroyed',
         NEW t \in Threads, NEW k \in Keys \ Plain,
         life'[t] \in {"exiting", "ended"}, life'[t] = life[t],
         life[t] = "exiting" => slot'[t] = slot[t] /\ seen'[t] = seen[t],
         slot[t] \in 1 .. Slots + 1,
         Value(t, k)' # NULL, Value(t, k)' = Value(t, k), key'[k] = key[k]
  PROVE  Due(t, k)'
  <1>1. Due(t, k)
    BY DEF EachDue
  <1>2. ASSUME NEW i \in slot[t] .. Slots, Entry(i, k) PROVE Entry(i, k)'
    <2>1. i \in 1 .. Slots
      BY LifeAssumption
    <2> QED
      BY <1>2, <2>1, LifeAssumption DEF Entry, Undisturbed
  <1> QED
    BY <1>1, <1>2 DEF Due

LEMMA StepDue ==
  ASSUME Basic, EachDue, Undisturbed, destroyed \subseteq destroyed',
         NEW t \in Threads, ThreadStep(t),
         \A u \in Threads : life'[u] \in {"exiting", "ended"} =>
            /\ life'[u] = life[u]
            /\ life[u] = "exiting" => slot'[u] = slot[u] /\ seen'[u] = seen[u]
  PROVE  EachDue'
  <1> SUFFICES ASSUME NEW u \in Threads, NEW k \in Keys \ Plain,
                      life'[u] \in {"exiting", "ended"}, Value(u, k)' # NULL
               PROVE  Due(u, k)'
    BY DEF EachDue
  <1>1. ~ (TssSet(t) /\ u = t)
    BY DEF TssSet, Calls
  <1>2. Value(u, k)' = Value(u, k) /\ key'[k] = key[k]
    BY <1>1, ValuesGo
  <1>3. slot[u] \in 1 .. Slots + 1
    BY DEF Basic, LifeTyped
  <1> QED
    BY <1>2, <1>3, DueStays

\* Steps that no thread that registers takes part in.
LEMMA SameWalk ==
  ASSUME OwnSlots, EachEntered, NoValueYet, UNCHANGED <<tbl, key, tls>>,
         \A u \in Threads : Registering(u) \/ Registering(u)' =>
            pc'[u] = pc[u] /\ Arg(u)' = Arg(u) /\ slot'[u] = slot[u]
  PROVE  OwnSlots' /\ EachEntered' /\ NoValueYet'
  <1>1. OwnSlots'
    BY DEF OwnSlots, Registering, Setting
  <1>2. ASSUME NEW k \in Keys \ Plain, key'[k] # NULL PROVE Entered(k)'
    <2>1. ASSUME NEW u \in Threads, Entering(u), Arg(u) = k PROVE Entering(u)' /\ Arg(u)' = k
      BY <2>1 DEF Entering, Registering, Setting
    <2> QED
      BY <1>2, <2>1 DEF EachEntered, Entered, Entry
  <1>3. ASSUME NEW u \in Threads, NEW v \in Threads, Registering(u)'
        PROVE  Value(v, Arg(u))' = NULL
    <2>1. Arg(u)' = Arg(u) /\ Registering(u)
      BY <1>3 DEF Registering, Setting
    <2> QED
      BY <2>1 DEF NoValueYet, Value
  <1> QED
    BY <1>1, <1>2, <1>3 DEF EachEntered, NoValueYet

\* The state while the walks are good.
Walking == OwnSlots /\ EachEntered /\ NoValueYet /\ EachDue

LEMMA QuietWalk ==
  ASSUME Basic, Walking, Quiet,
         NEW t \in Threads, ThreadStep(t)
  PROVE  Walking'
  <1>1. UNCHANGED <<tbl, key, tls, slot, seen, destroyed>>
    BY DEF Quiet, localVars, tssVars
  <1>2. \A u \in Threads : Registering(u) \/ Registering(u)' =>
            pc'[u] = pc[u] /\ Arg(u)' = Arg(u) /\ slot'[u] = slot[u]
    BY <1>1 DEF Quiet, Registering, Setting, Arg
  <1>3. OwnSlots' /\ EachEntered' /\ NoValueYet'
    BY <1>1, <1>2, SameWalk DEF Walking
  <1>4. EachDue'
    BY <1>1, StepDue DEF Walking, Quiet, Undisturbed
  <1> QED
    BY <1>3, <1>4 DEF Walking

\* A thread that ends finds all its keys in the table.
LEMMA ExitWalk ==
  ASSUME Basic, Walking, NEW t \in Threads, ThrdExit(t)
  PROVE  Walking'
  <1>1. /\ UNCHANGED <<pc, tbl, key, tls, destroyed>>
        /\ life' = [life EXCEPT ![t] = "exiting"]
        /\ todo' = [todo EXCEPT ![t] = <<>>]
        /\ slot' = [slot EXCEPT ![t] = 1]
        /\ seen' = [seen EXCEPT ![t] = NULL]
        /\ pc[t] = "idle"
    BY DEF ThrdExit, tssVars
  <1>2. \A u \in Threads : Registering(u) \/ Registering(u)' => u # t
    BY <1>1 DEF Registering, Setting
  <1>3. OwnSlots' /\ EachEntered' /\ NoValueYet'
    BY <1>1, <1>2, SameWalk DEF Walking, Arg
  <1>4. ASSUME NEW u \in Threads, NEW k \in Keys \ Plain,
               life'[u] \in {"exiting", "ended"}, Value(u, k)' # NULL
        PROVE  Due(u, k)'
    <2>1. Value(u, k)' = Value(u, k) /\ key'[k] = key[k] /\ key[k] # NULL
      BY <1>1, <1>4 DEF Value
    <2>2. CASE u = t
      <3>1. ~ \E v \in Threads : Entering(v) /\ Arg(v) = k
        BY <1>4, <2>1 DEF Walking, NoValueYet, Entering, Registering, Setting
      <3>2. PICK i \in 1 .. Slots : Entry(i, k)
        BY <2>1, <3>1 DEF Walking, EachEntered, Entered
      <3>3. life'[t] = "exiting" /\ slot'[t] = 1 /\ seen'[t] = NULL
        BY <1>1 DEF Basic, LifeTyped
      <3>4. Entry(i, k)'
        BY <1>1, <3>2 DEF Entry
      <3> QED
        BY <2>2, <3>3, <3>4 DEF Due
    <2>3. CASE u # t
      <3>1. life'[u] = life[u] /\ slot'[u] = slot[u] /\ seen'[u] = seen[u]
        BY <1>1, <2>3 DEF Basic, LifeTyped
      <3>2. Undisturbed /\ slot[u] \in 1 .. Slots + 1 /\ EachDue /\ destroyed \subseteq destroyed'
        BY <1>1 DEF Undisturbed, Basic, LifeTyped, Walking
      <3> QED
        BY <1>4, <2>1, <3>1, <3>2, DueStays
    <2> QED
      BY <2>2, <2>3
  <1>5. EachDue'
    BY <1>4 DEF EachDue
  <1> QED
    BY <1>3, <1>5 DEF Walking

\* At each entry the thread takes the value or has none, and then goes on.
LEMMA InvokeWalk ==
  ASSUME Basic, Walking, NEW t \in Threads, InvokeCheck(t) \/ InvokeCall(t) \/ Ended(t)
  PROVE  Walking'
  <1>1. /\ UNCHANGED <<pc, todo, tbl, key, tls>> /\ destroyed \subseteq destroyed'
        /\ life[t] = "exiting" /\ pc[t] = "idle"
        /\ \A u \in Threads \ {t} : UNCHANGED <<slot[u], seen[u], life[u]>>
    BY DEF InvokeCheck, InvokeCall, Ended, Staying, threadVars, tssVars, localVars, Basic,
           LifeTyped, CallInv
  <1>2. \A u \in Threads : Registering(u) \/ Registering(u)' =>
            pc'[u] = pc[u] /\ Arg(u)' = Arg(u) /\ slot'[u] = slot[u]
    BY <1>1 DEF Registering, Setting, Arg
  <1>3. OwnSlots' /\ EachEntered' /\ NoValueYet'
    BY <1>1, <1>2, SameWalk DEF Walking
  <1>4. ASSUME NEW k \in Keys \ Plain, Value(t, k)' # NULL PROVE Due(t, k)'
    <2>1. Value(t, k)' = Value(t, k) /\ key'[k] = key[k] /\ key[k] # NULL /\ k # NULL
      BY <1>1, <1>4, LifeAssumption DEF Value
    <2>2. Due(t, k)
      BY <1>1, <1>4, <2>1 DEF Walking, EachDue
    <2>3. slot[t] \in 1 .. Slots + 1 /\ Slots \in Nat
      BY LifeAssumption DEF Basic, LifeTyped
    <2>4. CASE <<k, Value(t, k)>> \in destroyed
      BY <1>1, <2>1, <2>4 DEF Due
    <2>5. ASSUME NEW i \in slot[t] .. Slots, Entry(i, k),
                 i = slot[t] /\ seen[t] # NULL => seen[t] = Value(t, k)
          PROVE  Due(t, k)'
      <3>1. Entry(i, k)'
        BY <1>1, <2>1, <2>5 DEF Entry
      <3>2. CASE InvokeCheck(t)
        <4>1. /\ IF Found(t) = NULL THEN slot'[t] = slot[t] + 1 /\ seen'[t] = NULL
                 ELSE seen'[t] = Found(t) /\ slot'[t] = slot[t]
              /\ life'[t] = "exiting"
          BY <1>1, <3>2 DEF InvokeCheck, Found, threadVars, Basic, LifeTyped
        <4>2. i = slot[t] => Found(t) = Value(t, k)
          BY <2>1, <2>5 DEF Found, Entry, Value
        <4>3. i \in slot'[t] .. Slots
          BY <1>4, <2>1, <2>3, <4>1, <4>2
        <4>4. i = slot'[t] /\ seen'[t] # NULL => seen'[t] = Value(t, k)'
          BY <2>1, <4>1, <4>2
        <4> QED
          BY <3>1, <4>1, <4>3, <4>4 DEF Due
      <3>3. CASE InvokeCall(t)
        <4>1. /\ slot'[t] = slot[t] + 1 /\ seen'[t] = NULL /\ life'[t] = "exiting"
              /\ seen[t] # NULL /\ <<tbl[slot[t]].dtor, seen[t]>> \in destroyed'
          BY <1>1, <3>3 DEF InvokeCall, DtorAt, threadVars, Basic, LifeTyped
        <4>2. CASE i = slot[t]
          BY <2>1, <2>5, <4>1, <4>2 DEF Entry, Due
        <4>3. CASE i # slot[t]
          <5>1. i \in slot'[t] .. Slots
            BY <2>3, <4>1, <4>3
          <5> QED
            BY <3>1, <4>1, <5>1 DEF Due
        <4> QED
          BY <4>2, <4>3
      <3>4. CASE Ended(t)
        BY <2>3, <3>4 DEF Ended, LastSlot
      <3> QED
        BY <3>2, <3>3, <3>4
    <2> QED
      BY <2>2, <2>4, <2>5 DEF Due
  <1>5. ASSUME NEW u \in Threads, u # t, NEW k \in Keys \ Plain,
               life'[u] \in {"exiting", "ended"}, Value(u, k)' # NULL
        PROVE  Due(u, k)'
    <2>1. Value(u, k)' = Value(u, k) /\ key'[k] = key[k]
      BY <1>1 DEF Value
    <2>2. Undisturbed /\ slot[u] \in 1 .. Slots + 1 /\ EachDue
      BY <1>1 DEF Undisturbed, Basic, LifeTyped, Walking
    <2> QED
      BY <1>1, <1>5, <2>1, <2>2, DueStays
  <1>6. EachDue'
    BY <1>4, <1>5 DEF EachDue
  <1> QED
    BY <1>3, <1>6 DEF Walking

\* Steps of thread t that change keys and values, and leave the table alone.
LEMMA KeysWalk ==
  ASSUME Basic, Walking, NEW t \in Threads, ThreadStep(t), NEW k \in Keys,
         UNCHANGED <<tbl, slot, seen, life, destroyed>>,
         ~ Setting(t)', pc[t] # "set_key", pc[t] # "set_dtor",
         \A u \in Threads \ {t} : UNCHANGED <<pc[u], todo[u]>>,
         \A l \in Keys : l # k => key'[l] = key[l],
         k \notin Plain /\ key'[k] # NULL =>
            key'[k] = key[k] \/ (Entering(t)' /\ Arg(t)' = k),
         Entering(t) => Arg(t) = k /\ key'[k] = NULL,
         \A u, v \in Threads : Registering(u)' => Value(v, Arg(u))' = NULL
  PROVE  Walking'
  <1>1. OwnSlots'
    BY DEF Walking, OwnSlots, Setting
  <1>2. ASSUME NEW l \in Keys \ Plain, key'[l] # NULL PROVE Entered(l)'
    <2>1. CASE Entering(t)' /\ Arg(t)' = l
      BY <2>1 DEF Entered
    <2>2. CASE key'[l] = key[l]
      <3>1. Entered(l) /\ Undisturbed
        BY <1>2, <2>2 DEF Walking, EachEntered, Undisturbed
      <3>2. ASSUME NEW u \in Threads, Entering(u), Arg(u) = l PROVE Entered(l)'
        <4>1. u # t
          BY <1>2, <3>2
        <4>2. Entering(u)' /\ Arg(u)' = l
          BY <2>2, <3>2, <4>1 DEF Entering, Arg
        <4> QED
          BY <4>2 DEF Entered
      <3> QED
        BY <2>2, <3>1, <3>2, EnteredStays
    <2> QED
      BY <1>2, <2>1, <2>2
  <1>3. EachDue'
    BY StepDue DEF Walking, Undisturbed
  <1> QED
    BY <1>1, <1>2, <1>3 DEF Walking, EachEntered, NoValueYet

\* A thread that registers a key elsewhere leaves the key's values as they are.
LEMMA StillNoValue ==
  ASSUME Basic, Walking, NEW t \in Threads, ThreadStep(t), ~ TssSet(t),
         NEW u \in Threads, Registering(u), Arg(u) \in Keys, Arg(u)' = Arg(u),
         NEW v \in Threads
  PROVE  Value(v, Arg(u))' = NULL
  <1>1. PICK k \in Keys : k = Arg(u)
    OBVIOUS
  <1>2. Value(v, k) = NULL
    BY <1>1 DEF Walking, NoValueYet
  <1>3. Value(v, k)' = NULL
    BY <1>2, ValuesGo
  <1> QED
    BY <1>1, <1>3 DEF Value

LEMMA CreateWalk ==
  ASSUME Basic, Walking, platform = "msvc", NEW t \in Threads, TssCreate(t)
  PROVE  Walking'
  <1>1. ThreadStep(t)
    BY DEF ThreadStep
  <1>2. PICK k \in Keys : k = Arg(t)
    BY KeyCall DEF TssCreate, Calls
  <1>3. PICK x \in Indexes \union {NULL} : Alloc(k, x)
    BY <1>2 DEF TssCreate
  <1>4. /\ UNCHANGED <<tbl, slot, seen, life, destroyed>> /\ pc[t] = "idle"
        /\ \A l \in Keys : key'[l] = IF l = k THEN x ELSE key[l]
    BY <1>3 DEF TssCreate, Calls, localVars, threadVars, Alloc, Basic, LifeTyped
  <1>5. \A u \in Threads \ {t} : UNCHANGED <<pc[u], todo[u]>>
    BY DEF TssCreate, Goto, Return, Basic, LifeTyped
  <1>6. \/ k \in Plain /\ pc'[t] = "idle"
        \/ k \notin Plain /\ pc'[t] = "register" /\ Arg(t)' = k
    BY <1>2 DEF TssCreate, Goto, Return, Basic, LifeTyped, Arg
  <1>7. ~ Setting(t)' /\ ~ Entering(t)
    BY <1>4, <1>6 DEF Setting, Entering
  <1>8. ASSUME NEW u \in Threads, NEW v \in Threads, Registering(u)'
        PROVE  Value(v, Arg(u))' = NULL
    <2>1. CASE u = t
      <3>1. Arg(t)' = k
        BY <1>6, <1>8, <2>1 DEF Registering, Setting
      <3>2. Value(v, k)' = NULL
        BY <1>3, <1>4, LifeAssumption DEF Alloc, Value
      <3> QED
        BY <2>1, <3>1, <3>2 DEF Value
    <2>2. CASE u # t
      <3>1. Registering(u) /\ Arg(u)' = Arg(u)
        BY <1>5, <1>8, <2>2 DEF Registering, Setting, Arg
      <3>2. Arg(u) \in Keys
        BY <3>1, KeyCall DEF Basic, CallInv, Registering, Setting
      <3>3. ~ TssSet(t)
        BY DEF TssCreate, TssSet, Calls
      <3> QED
        BY <1>1, <3>1, <3>2, <3>3, StillNoValue
    <2> QED
      BY <2>1, <2>2
  <1>9. k \notin Plain => Entering(t)' /\ Arg(t)' = k
    BY <1>6 DEF Entering
  <1> QED
    BY <1>1, <1>4, <1>5, <1>7, <1>8, <1>9, KeysWalk

\* The key goes: it is deleted, or found no entry.
LEMMA DropWalk ==
  ASSUME Basic, Walking, NEW t \in Threads, ThreadStep(t), NEW k \in Keys,
         Dropped(k), UNCHANGED <<tbl, slot, seen, life, destroyed>>,
         pc[t] = "idle" \/ (pc[t] = "register" /\ Arg(t) = k), pc'[t] = "idle",
         \A u \in Threads \ {t} : UNCHANGED <<pc[u], todo[u]>>
  PROVE  Walking'
  <1>1. \A l \in Keys : key'[l] = IF l = k THEN NULL ELSE key[l]
    BY DEF Dropped, Basic, LifeTyped
  <1>2. ASSUME NEW u \in Threads, NEW v \in Threads, Registering(u)'
        PROVE  Value(v, Arg(u))' = NULL
    <2>1. Registering(u) /\ Arg(u)' = Arg(u)
      BY <1>2 DEF Registering, Setting, Arg
    <2>2. Arg(u) \in Keys
      BY <2>1, KeyCall DEF Basic, CallInv, Registering, Setting
    <2>3. PICK l \in Keys : l = Arg(u)
      BY <2>2
    <2>4. Value(v, l) = NULL
      BY <2>1, <2>3 DEF Walking, NoValueYet
    <2>5. Value(v, l)' = NULL
      BY <1>1, <2>4, LifeAssumption DEF Value, Dropped, Basic, LifeTyped
    <2> QED
      BY <2>1, <2>3, <2>5 DEF Value
  <1>3. ~ Setting(t)' /\ pc[t] # "set_key" /\ pc[t] # "set_dtor"
    BY DEF Setting
  <1>4. Entering(t) => Arg(t) = k /\ key'[k] = NULL
    BY <1>1 DEF Entering
  <1> QED
    BY <1>1, <1>2, <1>3, <1>4, KeysWalk

LEMMA DeleteWalk ==
  ASSUME Basic, Walking, NEW t \in Threads, TssDelete(t)
  PROVE  Walking'
  <1>1. ThreadStep(t)
    BY DEF ThreadStep
  <1>2. Arg(t) \in Keys
    BY KeyCall DEF TssDelete, Calls
  <1>3. UNCHANGED <<tbl, slot, seen, life, destroyed>> /\ Dropped(Arg(t)) /\ pc[t] = "idle"
    BY DEF TssDelete, Calls, Dropped, localVars, threadVars
  <1>4. pc'[t] = "idle" /\ \A u \in Threads \ {t} : UNCHANGED <<pc[u], todo[u]>>
    BY DEF TssDelete, Goto, Return, Basic, LifeTyped
  <1> QED
    BY <1>1, <1>2, <1>3, <1>4, DropWalk

\* A value is set for a key whose tss_create has returned.
LEMMA SetWalk ==
  ASSUME Basic, Kept, Walking, UsedAfterCreation, NEW t \in Threads, TssSet(t)
  PROVE  Walking'
  <1>1. ThreadStep(t)
    BY DEF ThreadStep
  <1>2. PICK k \in Keys : k = Arg(t)
    BY KeyCall DEF TssSet, Calls
  <1>3. UNCHANGED <<tbl, key, slot, seen, life, destroyed>> /\ Stored(t, k) /\ pc[t] = "idle"
    BY <1>2 DEF TssSet, Calls, Stored, localVars, threadVars
  <1>4. pc'[t] = "idle" /\ \A u \in Threads \ {t} : UNCHANGED <<pc[u], todo[u]>>
    BY DEF TssSet, Goto, Return, Basic, LifeTyped
  <1>5. ASSUME NEW u \in Threads, NEW v \in Threads, Registering(u)'
        PROVE  Value(v, Arg(u))' = NULL
    <2>1. Registering(u) /\ Arg(u)' = Arg(u)
      BY <1>4, <1>5 DEF Registering, Setting, Arg
    <2>2. Arg(u) \in Keys
      BY <2>1, KeyCall DEF Basic, CallInv, Registering, Setting
    <2>3. PICK l \in Keys : l = Arg(u)
      BY <2>2
    <2>4. l # k
      BY <1>2, <2>1, <2>3 DEF UsedAfterCreation, TssSet
    <2>5. Value(v, l) = NULL
      BY <2>1, <2>3 DEF Walking, NoValueYet
    <2>6. CASE key[l] = NULL
      BY <1>3, <2>1, <2>3, <2>6 DEF Value
    <2>7. CASE key[l] # NULL
      <3>1. key[l] \in Indexes /\ key[l] # key[k]
        BY <2>4, <2>7 DEF Kept, Owned, Basic, LifeTyped
      <3>2. \A w \in Threads, x \in Indexes :
              tls'[w][x] = IF w = t /\ x = key[k] THEN <<t, k>> ELSE tls[w][x]
        BY <1>3, StoreCases
      <3>3. tls'[v][key[l]] = tls[v][key[l]]
        BY <3>1, <3>2
      <3> QED
        BY <1>3, <2>1, <2>3, <2>5, <3>3 DEF Value
    <2> QED
      BY <2>6, <2>7
  <1>6. ~ Setting(t)' /\ ~ Entering(t)
    BY <1>3, <1>4 DEF Setting, Entering
  <1> QED
    BY <1>1, <1>3, <1>4, <1>5, <1>6, KeysWalk

\* No entry is free, and the key goes; or the thread takes a free entry that no
\* other has.
LEMMA RegisterWalk ==
  ASSUME Basic, Walking, ~ collided', NEW t \in Threads, Register(t)
  PROVE  Walking'
  <1>1. ThreadStep(t)
    BY DEF ThreadStep
  <1>2. Arg(t) \in Keys
    BY KeyCall DEF Register, Basic, CallInv, Registering
  <1>3. UNCHANGED <<tbl, seen, life, destroyed>> /\ pc[t] = "register" /\ life[t] # "exiting"
    BY DEF Register, threadVars, Basic, CallInv
  <1>4. \A u \in Threads \ {t} : UNCHANGED <<pc[u], todo[u]>>
    BY DEF Register, Goto, Return, Basic, LifeTyped
  <1>5. CASE Dropped(Arg(t)) /\ Return(t, "error") /\ UNCHANGED slot
    <2>1. pc'[t] = "idle"
      BY <1>5 DEF Return, Goto, Basic, LifeTyped
    <2> QED
      BY <1>1, <1>2, <1>3, <1>4, <1>5, <2>1, DropWalk
  <1>6. ASSUME NEW i \in Unused, slot' = [slot EXCEPT ![t] = i],
               collided' = (collided \/ \E u \in Threads :
                                pc[u] \in {"set_key", "set_dtor"} /\ slot[u] = i),
               Goto(t, "set_key"), UNCHANGED <<todo, key, tls>>
        PROVE  Walking'
    <2>1. \A u \in Threads : Setting(u) => slot[u] # i
      BY <1>6 DEF Setting
    <2>2. tbl[i].dtor = NULL
      BY DEF Unused
    <2>3. pc'[t] = "set_key" /\ slot'[t] = i
      BY <1>6 DEF Goto, Basic, LifeTyped
    <2>4. \A u \in Threads \ {t} : pc'[u] = pc[u] /\ slot'[u] = slot[u]
      BY <1>4, <1>6 DEF Basic, LifeTyped
    <2>5. OwnSlots'
      BY <1>3, <2>1, <2>2, <2>3, <2>4 DEF Walking, OwnSlots, Setting
    <2>6. \A u \in Threads : Registering(u)' = Registering(u) /\ Arg(u)' = Arg(u)
      BY <1>3, <1>6, <2>3, <2>4 DEF Registering, Setting, Arg
    <2>7. NoValueYet'
      <3>1. ASSUME NEW u \in Threads, NEW v \in Threads, Registering(u)'
            PROVE  Value(v, Arg(u))' = NULL
        BY <1>6, <2>6, <3>1 DEF Walking, NoValueYet, Value
      <3> QED
        BY <3>1 DEF NoValueYet
    <2>8. ASSUME NEW k \in Keys \ Plain, key'[k] # NULL PROVE Entered(k)'
      <3>1. Entered(k) /\ Undisturbed /\ key'[k] = key[k]
        BY <1>3, <1>6, <2>8 DEF Walking, EachEntered, Undisturbed
      <3>2. ASSUME NEW u \in Threads, Entering(u), Arg(u) = k PROVE Entered(k)'
        <4>1. Entering(u)' /\ Arg(u)' = k
          BY <1>3, <1>6, <2>3, <2>4, <2>6, <3>2 DEF Entering
        <4> QED
          BY <4>1 DEF Entered
      <3> QED
        BY <3>1, <3>2, EnteredStays
    <2>9. \A u \in Threads : life'[u] \in {"exiting", "ended"} =>
            /\ life'[u] = life[u]
            /\ life[u] = "exiting" => slot'[u] = slot[u] /\ seen'[u] = seen[u]
      BY <1>3, <2>4
    <2>10. EachDue'
      BY <1>1, <1>3, <2>9, StepDue DEF Walking, Undisturbed
    <2> QED
      BY <2>5, <2>7, <2>8, <2>10 DEF Walking, EachEntered
  <1> QED
    BY <1>5, <1>6 DEF Register, Dropped

\* The thread writes its entry, which is nobody else's: first the index.
LEMMA SetKeyWalk ==
  ASSUME Basic, Walking, NEW t \in Threads, SetKey(t)
  PROVE  Walking'
  <1>1. ThreadStep(t) /\ Setting(t) /\ slot[t] \in 1 .. Slots
    BY DEF ThreadStep, SetKey, Setting, Basic, CallInv
  <1>2. /\ UNCHANGED <<todo, slot, seen, life, key, tls, destroyed>>
        /\ tbl' = [tbl EXCEPT ![slot[t]].key = key[Arg(t)]]
        /\ pc' = [pc EXCEPT ![t] = "set_dtor"]
    BY DEF SetKey, Staying, Goto, localVars, threadVars
  <1>3. /\ \A j \in 1 .. Slots : tbl'[j].dtor = tbl[j].dtor
        /\ \A j \in 1 .. Slots : j # slot[t] => tbl'[j] = tbl[j]
        /\ tbl'[slot[t]].key = key[Arg(t)]
    BY <1>1, <1>2 DEF Basic, LifeTyped
  <1>4. /\ pc'[t] = "set_dtor"
        /\ \A u \in Threads \ {t} : pc'[u] = pc[u]
        /\ \A u \in Threads : Arg(u)' = Arg(u) /\ Setting(u)' = Setting(u)
                              /\ Registering(u)' = Registering(u)
    BY <1>1, <1>2 DEF Setting, Registering, Arg, Basic, LifeTyped
  <1>5. OwnSlots'
    <2>1. \A u \in Threads : Setting(u) => slot[u] \in 1 .. Slots
      BY DEF Basic, CallInv
    <2> QED
      BY <1>2, <1>3, <1>4, <2>1 DEF Walking, OwnSlots
  <1>6. NoValueYet'
    <2>1. ASSUME NEW u \in Threads, NEW v \in Threads, Registering(u)'
          PROVE  Value(v, Arg(u))' = NULL
      BY <1>2, <1>4, <2>1 DEF Walking, NoValueYet, Value
    <2> QED
      BY <2>1 DEF NoValueYet
  <1>7. Undisturbed
    BY <1>1, <1>3 DEF Undisturbed, Walking, OwnSlots
  <1>8. ASSUME NEW k \in Keys \ Plain, key'[k] # NULL PROVE Entered(k)'
    <2>1. Entered(k) /\ key'[k] = key[k]
      BY <1>2, <1>8 DEF Walking, EachEntered
    <2>2. ASSUME NEW u \in Threads, Entering(u), Arg(u) = k PROVE Entering(u)' /\ Arg(u)' = k
      <3>1. CASE u = t
        BY <1>2, <1>3, <1>4, <2>2, <3>1 DEF Entering
      <3>2. CASE u # t /\ pc[u] = "set_dtor"
        <4>1. slot[u] \in 1 .. Slots /\ slot[u] # slot[t]
          BY <1>1, <3>2 DEF Basic, CallInv, Setting, Walking, OwnSlots
        <4> QED
          BY <1>2, <1>3, <1>4, <2>2, <3>2, <4>1 DEF Entering
      <3>3. CASE u # t /\ pc[u] # "set_dtor"
        BY <1>4, <2>2, <3>3 DEF Entering
      <3> QED
        BY <3>1, <3>2, <3>3
    <2>3. \A u \in Threads : Entering(u) /\ Arg(u) = k => Entered(k)'
      BY <2>2 DEF Entered
    <2> QED
      BY <1>7, <2>1, <2>3, EnteredStays
  <1>9. EachDue'
    BY <1>1, <1>2, <1>7, StepDue DEF Walking
  <1> QED
    BY <1>5, <1>6, <1>8, <1>9 DEF Walking, EachEntered

\* Then the destructor.
LEMMA SetDtorWalk ==
  ASSUME Basic, Walking, NEW t \in Threads, SetDtor(t)
  PROVE  Walking'
  <1>1. ThreadStep(t) /\ Setting(t) /\ slot[t] \in 1 .. Slots /\ pc[t] = "set_dtor"
    BY DEF ThreadStep, SetDtor, Setting, Basic, CallInv
  <1>2. /\ UNCHANGED <<slot, seen, life, key, tls, destroyed>>
        /\ tbl' = [tbl EXCEPT ![slot[t]].dtor = Arg(t)]
        /\ pc'[t] = "idle" /\ \A u \in Threads \ {t} : UNCHANGED <<pc[u], todo[u]>>
    BY DEF SetDtor, Return, Goto, localVars, threadVars, Basic, LifeTyped
  <1>3. /\ \A j \in 1 .. Slots : tbl'[j].key = tbl[j].key
        /\ \A j \in 1 .. Slots : j # slot[t] => tbl'[j] = tbl[j]
        /\ tbl'[slot[t]].dtor = Arg(t)
    BY <1>1, <1>2 DEF Basic, LifeTyped
  <1>4. \A u \in Threads : Registering(u)' =>
          /\ u # t /\ Registering(u) /\ Arg(u)' = Arg(u)
          /\ Setting(u)' = Setting(u)
    BY <1>2 DEF Setting, Registering, Arg
  <1>5. \A u \in Threads : Setting(u)' =>
          u # t /\ Setting(u) /\ slot[u] \in 1 .. Slots /\ slot[u] # slot[t]
    BY <1>1, <1>4 DEF Basic, CallInv, Registering, Walking, OwnSlots
  <1>6. OwnSlots'
    BY <1>2, <1>3, <1>5 DEF Walking, OwnSlots
  <1>7. NoValueYet'
    <2>1. ASSUME NEW u \in Threads, NEW v \in Threads, Registering(u)'
          PROVE  Value(v, Arg(u))' = NULL
      BY <1>2, <1>4, <2>1 DEF Walking, NoValueYet, Value
    <2> QED
      BY <2>1 DEF NoValueYet
  <1>8. Undisturbed
    BY <1>1, <1>3 DEF Undisturbed, Walking, OwnSlots
  <1>9. ASSUME NEW k \in Keys \ Plain, key'[k] # NULL PROVE Entered(k)'
    <2>1. Entered(k) /\ key'[k] = key[k]
      BY <1>2, <1>9 DEF Walking, EachEntered
    <2>2. ASSUME NEW u \in Threads, Entering(u), Arg(u) = k PROVE Entered(k)'
      <3>1. CASE u = t
        <4>1. tbl'[slot[t]].key = key'[k] /\ tbl'[slot[t]].dtor = k
          BY <1>1, <1>2, <1>3, <2>2, <3>1 DEF Entering
        <4> QED
          BY <1>1, <4>1 DEF Entered, Entry
      <3>2. CASE u # t
        <4>1. slot[u] \in 1 .. Slots \/ pc[u] # "set_dtor"
          BY DEF Basic, CallInv, Setting
        <4>2. Entering(u)' /\ Arg(u)' = k
          BY <1>2, <1>3, <2>2, <3>2, <4>1 DEF Entering, Arg
        <4> QED
          BY <4>2 DEF Entered
      <3> QED
        BY <3>1, <3>2
    <2> QED
      BY <1>8, <2>1, <2>2, EnteredStays
  <1>10. EachDue'
    BY <1>1, <1>2, <1>8, StepDue DEF Walking
  <1> QED
    BY <1>6, <1>7, <1>9, <1>10 DEF Walking, EachEntered

LEMMA StepWalk ==
  ASSUME Basic, Kept, WalkInv, PosixInv, UsedAfterCreation, [Next]_vars
  PROVE  WalkInv' /\ PosixInv'
  <1>1. CASE UNCHANGED vars
    BY <1>1 DEF vars, localVars, threadVars, tssVars, WalkInv, PosixInv, OwnSlots, EachEntered,
                NoValueYet, EachDue, Entered, Entry, Entering, Due, Value, Setting, Registering,
                Arg
  <1>2. ASSUME NEW t \in Threads, ThreadStep(t) PROVE WalkInv' /\ PosixInv'
    <2>1. PosixInv'
      BY <1>2, StepPosix
    <2>2. SUFFICES ASSUME platform = "msvc", ~ collided' PROVE Walking'
      BY <1>2, <2>1, PlatformStays DEF WalkInv, Walking
    <2>3. ~ collided
      BY <1>2, <2>2
         DEF ThreadStep, ThrdCreate, BeginThread, ThrdRoutine, ThrdExit, ThrdDetach, ThrdJoin,
             CallOnce, OnceDone, Spin, TssCreate, Register, SetKey, SetDtor, TssDelete, TssSet,
             InvokeCheck, InvokeCall, Ended, PosixEnded, tssVars
    <2>4. Walking
      BY <2>2, <2>3 DEF WalkInv, Walking
    <2>5. ~ PosixEnded(t)
      BY <2>2 DEF PosixEnded
    <2> QED
      BY <1>2, <2>2, <2>4, <2>5, QuietSteps, QuietWalk, ExitWalk, InvokeWalk, CreateWalk,
         RegisterWalk, SetKeyWalk, SetDtorWalk, DeleteWalk, SetWalk DEF ThreadStep
  <1> QED
    BY <1>1, <1>2 DEF Next

\* On both platforms, a thread that has ended has destroyed every value it left
\* whose key has a destructor, unless two registrations have taken one entry: in a
\* program that gives a key no value before its tss_create has returned.
THEOREM ValuesAreDestroyed == Spec /\ []UsedAfterCreation => []ValuesDestroyed
  <1>1. Init => Basic /\ Kept /\ WalkInv /\ PosixInv
    BY InitBasic, InitOwned, InitWalk DEF Kept
  <1>2. /\ Basic /\ Kept /\ WalkInv /\ PosixInv
        /\ [Next]_vars /\ UsedAfterCreation
        => (Basic /\ Kept /\ WalkInv /\ PosixInv)'
    BY StepBasic, StepKept, StepWalk
  <1>3. Basic /\ WalkInv /\ PosixInv /\ platform \in {"msvc", "posix"} => ValuesDestroyed
    BY DEF WalkInv, PosixInv, EachDue, Due, Value, ValuesDestroyed
  <1>4. Init => platform \in {"msvc", "posix"}
    BY LifeAssumption DEF Init
  <1>5. platform \in {"msvc", "posix"} /\ [Next]_vars => (platform \in {"msvc", "posix"})'
    BY PlatformStays DEF Next, vars
  <1> QED
    BY <1>1, <1>2, <1>3, <1>4, <1>5, PTL DEF Spec
=============================================================================
