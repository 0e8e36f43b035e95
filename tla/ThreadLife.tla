----------------------------- MODULE ThreadLife -----------------------------
(***************************************************************************)
(* Threads, one-time initialisation and thread-specific storage of the     *)
(* C11 thread emulation (include/internal/c11threads): threads_msvc.h,     *)
(* with its table of destructors that no lock protects, and                *)
(* threads_posix.h.                                                        *)
(*                                                                         *)
(* A thread runs a script of legal calls <<operation, argument>>: the      *)
(* argument of a thread call is a thread, that of a storage call one of    *)
(* the program's key variables, which stands for its destructor too.       *)
(***************************************************************************)
EXTENDS Integers, Sequences, FiniteSets

CONSTANTS
    Threads,
    Main,           \* the thread that the others come from
    Keys,           \* key variables of the program, each created at most once
    Plain,          \* those created without a destructor
    Indexes,        \* what TlsAlloc hands out
    Slots,          \* EMULATED_THREADS_TSS_DTOR_SLOTNUM
    LifeScripts,    \* the scripts to run
    Platforms,      \* which of "msvc" and "posix"
    NULL

ASSUME LifeAssumption ==
    /\ Main \in Threads /\ Plain \subseteq Keys
    /\ NULL \notin Threads \union Keys \union Indexes
    /\ Slots \in Nat /\ Platforms \subseteq {"msvc", "posix"}

ThreadCalls  == {"create", "detach", "join", "once", "exit"} \X Threads
StorageCalls == {"tss_create", "tss_delete", "tss_set"} \X Keys

ASSUME ScriptsAssumption ==
    LifeScripts \subseteq [Threads -> Seq(ThreadCalls \union StorageCalls)]

VARIABLES
    platform,
    todo, pc, ret,  \* as in CondVar
    slot,           \* the entry each thread registers or looks at
    seen,           \* the value whose destructor each thread is about to call
    life,           \* what has become of each thread
    handle,         \* of each thread: "none", "open" or "closed"
    pack,           \* the heap block with a new thread's function and argument
    status,         \* of the once_flag
    runs,           \* how often its function has been entered
    tbl,            \* impl_tss_dtor_tbl
    key,            \* the index in each key variable
    tls,            \* each thread's values by index
    destroyed,      \* the destructor calls made: <<destructor, value>>
    collided,       \* history: two registrations have taken one entry
    recycled        \* history: TlsAlloc has returned an index that tbl holds

threadVars == <<life, handle, pack>>
onceVars   == <<status, runs>>
tssVars    == <<tbl, key, tls, destroyed, collided, recycled>>
localVars  == <<slot, seen>>
vars == <<platform, todo, pc, ret, localVars, threadVars, onceVars, tssVars>>

Empty == [key |-> NULL, dtor |-> NULL]

Init ==
    /\ platform \in Platforms
    /\ todo \in LifeScripts
    /\ pc = [t \in Threads |-> "idle"]
    /\ ret = [t \in Threads |-> "none"]
    /\ slot = [t \in Threads |-> 1]
    /\ seen = [t \in Threads |-> NULL]
    /\ life = [t \in Threads |-> IF t = Main THEN "running" ELSE "unborn"]
    /\ handle = [t \in Threads |-> "none"]
    /\ pack = [t \in Threads |-> "none"]
    /\ status = 0 /\ runs = 0
    /\ tbl = [i \in 1 .. Slots |-> Empty]
    /\ key = [k \in Keys |-> NULL]
    /\ tls = [t \in Threads |-> [x \in Indexes |-> NULL]]
    /\ destroyed = {} /\ collided = FALSE /\ recycled = FALSE

Calls(t, op) ==
    /\ life[t] = "running" /\ pc[t] = "idle"
    /\ todo[t] # <<>> /\ Head(todo[t])[1] = op

Arg(t) == Head(todo[t])[2]

Goto(t, place) == pc' = [pc EXCEPT ![t] = place]

Return(t, result) ==
    /\ Goto(t, "idle")
    /\ todo' = [todo EXCEPT ![t] = Tail(@)]
    /\ ret' = [ret EXCEPT ![t] = result]

Staying == UNCHANGED <<platform, todo, ret>>

-----------------------------------------------------------------------------
(* Threads. *)

ThrdCreate(t) ==
    LET u == Arg(t)
    IN /\ Calls(t, "create")
       /\ \/ /\ pack' = [pack EXCEPT ![u] = "allocated"]
             /\ Goto(t, "begin")
             /\ UNCHANGED <<todo, ret>>
          \/ /\ Return(t, "nomem")
             /\ UNCHANGED pack
       /\ UNCHANGED <<platform, localVars, life, handle, onceVars, tssVars>>

\* The system may refuse to start a thread; only POSIX frees the block then.
BeginThread(t) ==
    LET u == Arg(t)
    IN /\ pc[t] = "begin"
       /\ \/ /\ life' = [life EXCEPT ![u] = "starting"]
             /\ handle' = [handle EXCEPT ![u] = "open"]
             /\ Return(t, "success")
             /\ UNCHANGED pack
          \/ /\ platform = "msvc"
             /\ \E result \in {"nomem", "error"} : Return(t, result)
             /\ UNCHANGED threadVars
          \/ /\ platform = "posix"
             /\ pack' = [pack EXCEPT ![u] = "freed"]
             /\ Return(t, "error")
             /\ UNCHANGED <<life, handle>>
       /\ UNCHANGED <<platform, localVars, onceVars, tssVars>>

ThrdRoutine(u) ==
    /\ life[u] = "starting"
    /\ pack' = [pack EXCEPT ![u] = "freed"]
    /\ life' = [life EXCEPT ![u] = "running"]
    /\ Staying /\ UNCHANGED <<pc, localVars, handle, onceVars, tssVars>>

\* The function returns, or it calls thrd_exit; the program's main only exits.
ThrdExit(t) ==
    /\ life[t] = "running" /\ pc[t] = "idle"
    /\ \/ t # Main /\ todo[t] = <<>>
       \/ Calls(t, "exit")
    /\ life' = [life EXCEPT ![t] = "exiting"]
    /\ todo' = [todo EXCEPT ![t] = <<>>]
    /\ slot' = [slot EXCEPT ![t] = 1]
    /\ seen' = [seen EXCEPT ![t] = NULL]
    /\ UNCHANGED <<platform, pc, ret, handle, pack, onceVars, tssVars>>

ThrdDetach(t) ==
    /\ Calls(t, "detach")
    /\ handle' = [handle EXCEPT ![Arg(t)] = IF @ = "open" THEN "closed" ELSE @]
    /\ Return(t, "success")
    /\ UNCHANGED <<platform, localVars, life, pack, onceVars, tssVars>>

\* A program joins the threads that it has created.
ThrdJoin(t) ==
    LET u == Arg(t)
    IN /\ Calls(t, "join")
       /\ handle[u] = "open" => life[u] = "ended"
       /\ handle' = [handle EXCEPT ![u] = IF @ = "open" THEN "closed" ELSE @]
       /\ Return(t, IF handle[u] = "open" THEN "success" ELSE "none")
       /\ UNCHANGED <<platform, localVars, life, pack, onceVars, tssVars>>

-----------------------------------------------------------------------------
(* call_once. *)

CallOnce(t) ==
    /\ Calls(t, "once")
    /\ \/ /\ status = 0
          /\ status' = 1 /\ runs' = runs + 1
          /\ Goto(t, "func")
       \/ /\ status # 0
          /\ Goto(t, "spin")
          /\ UNCHANGED onceVars
    /\ Staying /\ UNCHANGED <<localVars, threadVars, tssVars>>

Finished      == 2

OnceDone(t) ==
    /\ pc[t] = "func"
    /\ status' = Finished
    /\ Return(t, "success")
    /\ UNCHANGED <<platform, localVars, threadVars, runs, tssVars>>

Waited_Never == TRUE
Waited       == status # 1

Spin(t) ==
    /\ pc[t] = "spin" /\ Waited
    /\ Return(t, "success")
    /\ UNCHANGED <<platform, localVars, threadVars, onceVars, tssVars>>

-----------------------------------------------------------------------------
(* Thread-specific storage. *)

Allocated == {key[k] : k \in Keys} \ {NULL}
Unused    == {i \in 1 .. Slots : tbl[i].dtor = NULL}

\* An index, or none.  The value at a new index is NULL in every thread.
Alloc(k, x) ==
    /\ x \in Indexes \ Allocated \/ (x = NULL /\ Indexes \subseteq Allocated)
    /\ key' = [key EXCEPT ![k] = x]
    /\ tls' = [t \in Threads |-> [y \in Indexes |-> IF y = x THEN NULL ELSE tls[t][y]]]
    /\ recycled' = (recycled \/ \E i \in 1 .. Slots : x # NULL /\ tbl[i].key = x)

TssCreate(t) ==
    LET k == Arg(t)
    IN /\ Calls(t, "tss_create")
       /\ \E x \in Indexes \union {NULL} :
             /\ Alloc(k, x)
             /\ IF platform = "msvc" /\ k \notin Plain
                THEN Goto(t, "register") /\ UNCHANGED <<todo, ret>>
                ELSE Return(t, IF x = NULL THEN "error" ELSE "success")
       /\ UNCHANGED <<platform, localVars, threadVars, onceVars, tbl, destroyed, collided>>

\* impl_tss_dtor_register: the first entry without a destructor, if any.  A key
\* that could not be allocated takes an entry all the same.
Register(t) ==
    /\ pc[t] = "register"
    /\ \/ /\ Unused = {}
          /\ key' = [key EXCEPT ![Arg(t)] = NULL]
          /\ tls' = [u \in Threads |->
                        [x \in Indexes |-> IF x = key[Arg(t)] THEN NULL ELSE tls[u][x]]]
          /\ Return(t, "error")
          /\ UNCHANGED <<slot, collided>>
       \/ /\ \E i \in Unused :
                /\ \A j \in Unused : i <= j
                /\ slot' = [slot EXCEPT ![t] = i]
                /\ collided' = (collided \/ \E u \in Threads :
                                  pc[u] \in {"set_key", "set_dtor"} /\ slot[u] = i)
          /\ Goto(t, "set_key")
          /\ UNCHANGED <<todo, ret, key, tls>>
    /\ UNCHANGED <<platform, seen, threadVars, onceVars, tbl, destroyed, recycled>>

SetKey(t) ==
    /\ pc[t] = "set_key"
    /\ tbl' = [tbl EXCEPT ![slot[t]].key = key[Arg(t)]]
    /\ Goto(t, "set_dtor")
    /\ Staying
    /\ UNCHANGED <<localVars, threadVars, onceVars, key, tls, destroyed, collided, recycled>>

SetDtor(t) ==
    /\ pc[t] = "set_dtor"
    /\ tbl' = [tbl EXCEPT ![slot[t]].dtor = Arg(t)]
    /\ Return(t, IF key[Arg(t)] = NULL THEN "error" ELSE "success")
    /\ UNCHANGED <<platform, localVars, threadVars, onceVars, key, tls, destroyed,
                   collided, recycled>>

\* The table keeps the destructor of a deleted key.
TssDelete(t) ==
    LET k == Arg(t)
    IN /\ Calls(t, "tss_delete")
       /\ key' = [key EXCEPT ![k] = NULL]
       /\ tls' = [u \in Threads |->
                     [x \in Indexes |-> IF x = key[k] THEN NULL ELSE tls[u][x]]]
       /\ Return(t, "success")
       /\ UNCHANGED <<platform, localVars, threadVars, onceVars, tbl, destroyed,
                      collided, recycled>>

\* Every value is new: the thread and the key it is for.
TssSet(t) ==
    LET k == Arg(t)
    IN /\ Calls(t, "tss_set")
       /\ tls' = IF key[k] = NULL THEN tls ELSE [tls EXCEPT ![t][key[k]] = <<t, k>>]
       /\ Return(t, IF key[k] = NULL THEN "error" ELSE "success")
       /\ UNCHANGED <<platform, localVars, threadVars, onceVars, tbl, key, destroyed,
                      collided, recycled>>

\* impl_tss_dtor_invoke: an entry with a destructor whose key has a value, which
\* stays; the destructor is read again for the call.
LastSlot_Short == Slots - 1
LastSlot       == Slots

DtorAt_First(i) == tbl[1].dtor
DtorAt(i)       == tbl[i].dtor

InvokeCheck(t) ==
    LET e   == tbl[slot[t]]
        val == IF e.dtor = NULL \/ e.key = NULL THEN NULL ELSE tls[t][e.key]
    IN /\ life[t] = "exiting" /\ platform = "msvc" /\ seen[t] = NULL
       /\ slot[t] <= LastSlot
       /\ IF val = NULL
          THEN slot' = [slot EXCEPT ![t] = @ + 1] /\ UNCHANGED seen
          ELSE seen' = [seen EXCEPT ![t] = val] /\ UNCHANGED slot
       /\ Staying /\ UNCHANGED <<pc, threadVars, onceVars, tssVars>>

InvokeCall(t) ==
    /\ life[t] = "exiting" /\ platform = "msvc" /\ seen[t] # NULL
    /\ destroyed' = destroyed \union {<<DtorAt(slot[t]), seen[t]>>}
    /\ slot' = [slot EXCEPT ![t] = @ + 1]
    /\ seen' = [seen EXCEPT ![t] = NULL]
    /\ Staying
    /\ UNCHANGED <<pc, threadVars, onceVars, tbl, key, tls, collided, recycled>>

Ended(t) ==
    /\ life[t] = "exiting" /\ platform = "msvc" /\ slot[t] > LastSlot
    /\ life' = [life EXCEPT ![t] = "ended"]
    /\ Staying /\ UNCHANGED <<pc, localVars, handle, pack, onceVars, tssVars>>

\* pthread_key_create's destructors, as POSIX calls them.
PosixEnded(t) ==
    LET owned == {k \in Keys \ Plain : key[k] # NULL /\ tls[t][key[k]] # NULL}
    IN /\ life[t] = "exiting" /\ platform = "posix"
       /\ destroyed' = destroyed \union {<<k, tls[t][key[k]]>> : k \in owned}
       /\ tls' = [tls EXCEPT ![t] =
                     [x \in Indexes |-> IF \E k \in owned : key[k] = x THEN NULL ELSE @[x]]]
       /\ life' = [life EXCEPT ![t] = "ended"]
       /\ Staying
       /\ UNCHANGED <<pc, localVars, handle, pack, onceVars, tbl, key, collided, recycled>>

-----------------------------------------------------------------------------
ThreadStep(t) ==
    \/ ThrdCreate(t) \/ BeginThread(t) \/ ThrdRoutine(t) \/ ThrdExit(t)
    \/ ThrdDetach(t) \/ ThrdJoin(t)
    \/ CallOnce(t)   \/ OnceDone(t)    \/ Spin(t)
    \/ TssCreate(t)  \/ Register(t)    \/ SetKey(t)      \/ SetDtor(t)
    \/ TssDelete(t)  \/ TssSet(t)
    \/ InvokeCheck(t) \/ InvokeCall(t) \/ Ended(t)       \/ PosixEnded(t)

Next == \E t \in Threads : ThreadStep(t)

\* Every thread that can go on does.
Spec == Init /\ [][Next]_vars /\ \A t \in Threads : WF_vars(ThreadStep(t))

-----------------------------------------------------------------------------
(***************************************************************************)
(* call_once runs its function once, and whoever returns from it finds the *)
(* function finished (threads_msvc.h, call_once).                          *)
(***************************************************************************)
InitialisedOnce ==
    [][\A t \in Threads :
          OnceDone(t) \/ Spin(t) => runs' = 1 /\ status' = 2]_vars

(***************************************************************************)
(* A value goes to the destructor of the key it was set for, unless the    *)
(* index of a deleted key has been given to another, whose values the old  *)
(* destructor gets too, or two registrations have collided                 *)
(* (tss_delete, impl_tss_dtor_register).                                   *)
(***************************************************************************)
OwnDestructor ==
    \A call \in destroyed : recycled \/ collided \/ call[1] = call[2][2]

(***************************************************************************)
(* A thread that has ended has destroyed every value it left whose key has *)
(* a destructor, unless two registrations have collided                    *)
(* (impl_tss_dtor_invoke).                                                 *)
(***************************************************************************)
ValuesDestroyed ==
    \A t \in Threads, k \in Keys \ Plain :
        life[t] = "ended" /\ key[k] # NULL /\ tls[t][key[k]] # NULL =>
            collided \/ <<k, tls[t][key[k]]>> \in destroyed

=============================================================================
