------------------------------ MODULE CondVar -------------------------------
(***************************************************************************)
(* Mutexes and condition variables of the C11 thread emulation             *)
(* (include/internal/c11threads): the counters and semaphores of           *)
(* threads_msvc.h where Windows has no condition variables, and the calls  *)
(* of threads_posix.h.                                                     *)
(*                                                                         *)
(* Each thread runs a script of legal calls.  Critical sections and        *)
(* semaphores are Windows's, mutexes and condition variables POSIX's.      *)
(***************************************************************************)
EXTENDS Integers, Sequences, FiniteSets

CONSTANTS
    Threads,
    CondScripts,    \* the scripts to run: a set of functions from thread to calls
    Platforms,      \* which of "msvc" and "posix"
    GoneLimit,      \* INT_MAX / 2 in the code
    MaxClock,       \* bound on time()
    NULL

ASSUME CondAssumption ==
    /\ NULL \notin Threads /\ IsFiniteSet(Threads)
    /\ Platforms \subseteq {"msvc", "posix"}
    /\ GoneLimit \in Nat \ {0} /\ MaxClock \in Nat

VARIABLES
    platform,
    todo,           \* the calls each thread still has to make
    pc,             \* where in its call each thread is
    local,          \* the locals of that call
    ret,            \* what each thread's last call returned
    mtx,            \* the mutex: its owner and how often it has locked it
    cond,           \* blocked, gone, to_unblock
    sem_queue,      \* the count of one semaphore
    sem_gate,       \* and of the other, which never exceeds 1
    monitor,        \* who is in the critical section of the condition variable
    sleepers,       \* who is blocked in pthread_cond_wait
    clock,
    called,         \* history: the waits that a signal or broadcast has followed
    calledAll,      \* history: and those that a broadcast has
    raced           \* history: a wait has timed out between a signal and its
                    \* token, with other threads blocked

history == <<called, calledAll, raced>>
condVars == <<mtx, cond, sem_queue, sem_gate, monitor, sleepers, clock, history>>
vars == <<platform, todo, pc, local, ret, condVars>>

NoLocals == [timed |-> FALSE, timeout |-> FALSE, nsignal |-> 0, ngone |-> 0, expire |-> 0]

Free == [owner |-> NULL, count |-> 0]

Init ==
    /\ platform \in Platforms
    /\ todo \in CondScripts
    /\ pc = [t \in Threads |-> "idle"]
    /\ local = [t \in Threads |-> NoLocals]
    /\ ret = [t \in Threads |-> "none"]
    /\ mtx = Free
    /\ cond = [blocked |-> 0, gone |-> 0, to_unblock |-> 0]
    /\ sem_queue = 0 /\ sem_gate = 1
    /\ monitor = NULL
    /\ sleepers = {}
    /\ clock = 0
    /\ called = {} /\ calledAll = {} /\ raced = FALSE

\* t is between calls and its script goes on with op.
Calls(t, op) == pc[t] = "idle" /\ todo[t] # <<>> /\ Head(todo[t]) = op

Goto(t, place) == pc' = [pc EXCEPT ![t] = place]

Return(t, result) ==
    /\ Goto(t, "idle")
    /\ todo' = [todo EXCEPT ![t] = Tail(@)]
    /\ local' = [local EXCEPT ![t] = NoLocals]
    /\ ret' = [ret EXCEPT ![t] = result]

Staying == UNCHANGED <<platform, todo, ret>>

\* Those who wait: they have been counted and have not stopped waiting.
Waiting == {t \in Threads : pc[t] \in {"leave", "queue"}} \union sleepers

Forget(t) ==
    /\ called' = called \ {t} /\ calledAll' = calledAll \ {t}
    /\ UNCHANGED raced

Call(op) ==
    /\ called' = called \union Waiting
    /\ calledAll' = calledAll \union IF op = "broadcast" THEN Waiting ELSE {}
    /\ UNCHANGED raced

-----------------------------------------------------------------------------
(***************************************************************************)
(* Mutexes.  A critical section may be entered again by its owner; the     *)
(* mutex of mtx_init(mtx_plain) may not on POSIX.                          *)
(***************************************************************************)
Lockable(t) == mtx.owner = NULL \/ (platform = "msvc" /\ mtx.owner = t)
Locked(t)   == [owner |-> t, count |-> mtx.count + 1]
Unlocked    == IF mtx.count = 1 THEN Free ELSE [mtx EXCEPT !.count = @ - 1]

MtxLock(t) ==
    /\ Calls(t, "lock") /\ Lockable(t)
    /\ mtx' = Locked(t)
    /\ Return(t, "success")
    /\ UNCHANGED <<platform, cond, sem_queue, sem_gate, monitor, sleepers, clock, history>>

MtxTryLock(t) ==
    /\ Calls(t, "trylock")
    /\ mtx' = IF Lockable(t) THEN Locked(t) ELSE mtx
    /\ Return(t, IF Lockable(t) THEN "success" ELSE "busy")
    /\ UNCHANGED <<platform, cond, sem_queue, sem_gate, monitor, sleepers, clock, history>>

\* A thread whose trylock has failed has nothing to unlock.
MtxUnlock(t) ==
    /\ Calls(t, "unlock")
    /\ mtx' = IF mtx.owner = t THEN Unlocked ELSE mtx
    /\ Return(t, "success")
    /\ UNCHANGED <<platform, cond, sem_queue, sem_gate, monitor, sleepers, clock, history>>

\* Attempts until the seconds, 0 here, have passed.
TimedLock(t) ==
    /\ Calls(t, "timedlock")
    /\ local' = [local EXCEPT ![t].expire = clock]
    /\ Goto(t, "attempt")
    /\ Staying /\ UNCHANGED condVars

Attempt(t) ==
    /\ pc[t] = "attempt"
    /\ \/ /\ Lockable(t)
          /\ mtx' = Locked(t)
          /\ Return(t, "success")
       \/ /\ ~Lockable(t) /\ local[t].expire < clock
          /\ Return(t, "busy")
          /\ UNCHANGED mtx
    /\ UNCHANGED <<platform, cond, sem_queue, sem_gate, monitor, sleepers, clock, history>>

Tick ==
    /\ clock < MaxClock
    /\ \E t \in Threads : pc[t] = "attempt"
    /\ clock' = clock + 1
    /\ Staying
    /\ UNCHANGED <<pc, local, mtx, cond, sem_queue, sem_gate, monitor, sleepers, history>>

-----------------------------------------------------------------------------
(***************************************************************************)
(* impl_cond_do_wait.  The gate is held for the increment of blocked only. *)
(***************************************************************************)
GateOpen_Always == TRUE
GateOpen        == sem_gate = 1

EnterWait(t) ==
    /\ platform = "msvc"
    /\ Calls(t, "wait") \/ Calls(t, "timedwait")
    /\ GateOpen
    /\ cond' = [cond EXCEPT !.blocked = @ + 1]
    /\ local' = [local EXCEPT ![t].timed = Head(todo[t]) = "timedwait"]
    /\ Forget(t)
    /\ Goto(t, "leave")
    /\ Staying
    /\ UNCHANGED <<mtx, sem_queue, sem_gate, monitor, sleepers, clock>>

LeaveMutex(t) ==
    /\ pc[t] = "leave"
    /\ mtx' = Unlocked
    /\ Goto(t, "queue")
    /\ Staying
    /\ UNCHANGED <<local, cond, sem_queue, sem_gate, monitor, sleepers, clock, history>>

Dequeue(t) ==
    /\ pc[t] = "queue"
    /\ \/ /\ sem_queue > 0
          /\ sem_queue' = sem_queue - 1
          /\ UNCHANGED local
       \/ /\ local[t].timed
          /\ local' = [local EXCEPT ![t].timeout = TRUE]
          /\ UNCHANGED sem_queue
    /\ Goto(t, "monitor")
    /\ Staying
    /\ UNCHANGED <<mtx, cond, sem_gate, monitor, sleepers, clock, history>>

Left_Forgets(c, timeout) ==
    [c EXCEPT !.blocked = IF timeout /\ @ # 0 THEN @ - 1 ELSE @, !.to_unblock = @ - 1]

\* What a thread that stops waiting does to the counters while threads are
\* being unblocked.
Left(c, timeout) ==
    LET d == IF ~timeout THEN c
             ELSE IF c.blocked # 0 THEN [c EXCEPT !.blocked = @ - 1]
             ELSE [c EXCEPT !.gone = @ + 1]
    IN [d EXCEPT !.to_unblock = @ - 1]

LastOut(c)       == c.to_unblock = 0

\* The last one to be unblocked lets new waiters in, at once if there are
\* others, or after it has taken what those who timed out have left.
Unblock(t) ==
    LET c == Left(cond, local[t].timeout)
        last == LastOut(c)
    IN /\ pc[t] = "monitor" /\ monitor = NULL
       /\ cond.to_unblock # 0
       /\ \/ /\ last /\ c.blocked # 0
             /\ cond' = c
             /\ sem_gate' = 1
             /\ Goto(t, "relock")
             /\ UNCHANGED local
          \/ /\ last /\ c.blocked = 0
             /\ cond' = [c EXCEPT !.gone = 0]
             /\ local' = [local EXCEPT ![t].ngone = c.gone]
             /\ Goto(t, "drain")
             /\ UNCHANGED sem_gate
          \/ /\ ~last
             /\ cond' = c
             /\ Goto(t, "relock")
             /\ UNCHANGED <<local, sem_gate>>
       /\ raced' = (raced \/ (local[t].timeout /\ cond.blocked # 0))
       /\ Staying
       /\ UNCHANGED <<mtx, sem_queue, monitor, sleepers, clock, called, calledAll>>

\* A thread that stops waiting when nobody is being unblocked.
Gone(t) ==
    LET gone == cond.gone + 1
    IN /\ pc[t] = "monitor" /\ monitor = NULL
       /\ cond.to_unblock = 0
       /\ \/ /\ gone # GoneLimit
             /\ cond' = [cond EXCEPT !.gone = gone]
             /\ Goto(t, "relock")
             /\ UNCHANGED monitor
          \/ /\ gone = GoneLimit
             /\ cond' = [cond EXCEPT !.gone = gone]
             /\ monitor' = t
             /\ Goto(t, "fold")
       /\ Staying
       /\ UNCHANGED <<local, mtx, sem_queue, sem_gate, sleepers, clock, history>>

\* Those who timed out are no longer blocked.
Folded(c)       == [c EXCEPT !.blocked = @ - c.gone, !.gone = 0]

Fold(t) ==
    /\ pc[t] = "fold" /\ sem_gate = 1
    /\ cond' = Folded(cond)
    /\ monitor' = NULL
    /\ Goto(t, "relock")
    /\ Staying
    /\ UNCHANGED <<local, mtx, sem_queue, sem_gate, sleepers, clock, history>>

Drain(t) ==
    /\ pc[t] = "drain"
    /\ \/ /\ local[t].ngone > 0 /\ sem_queue > 0
          /\ sem_queue' = sem_queue - 1
          /\ local' = [local EXCEPT ![t].ngone = @ - 1]
          /\ UNCHANGED <<pc, sem_gate>>
       \/ /\ local[t].ngone = 0
          /\ sem_gate' = 1
          /\ Goto(t, "relock")
          /\ UNCHANGED <<local, sem_queue>>
    /\ Staying
    /\ UNCHANGED <<mtx, cond, monitor, sleepers, clock, history>>

Relock(t) ==
    /\ pc[t] = "relock" /\ Lockable(t)
    /\ mtx' = Locked(t)
    /\ Return(t, IF local[t].timeout THEN "busy" ELSE "success")
    /\ UNCHANGED <<platform, cond, sem_queue, sem_gate, monitor, sleepers, clock, history>>

-----------------------------------------------------------------------------
(***************************************************************************)
(* impl_cond_do_signal.                                                    *)
(***************************************************************************)
Signals(t) == Calls(t, "signal") \/ Calls(t, "broadcast")

\* As many of the blocked as are to be unblocked from now on.
Released_One(c, all) == 1
Released(c, all)     == IF all THEN c.blocked ELSE 1

SignalMore(t) ==
    LET n == Released(cond, Head(todo[t]) = "broadcast")
    IN /\ platform = "msvc" /\ Signals(t) /\ monitor = NULL
       /\ cond.to_unblock # 0
       /\ \/ /\ cond.blocked = 0
             /\ Return(t, "success")
             /\ UNCHANGED cond
          \/ /\ cond.blocked # 0
             /\ cond' = [cond EXCEPT !.to_unblock = @ + n, !.blocked = @ - n]
             /\ local' = [local EXCEPT ![t].nsignal = n]
             /\ Goto(t, "post")
             /\ UNCHANGED <<todo, ret>>
       /\ Call(Head(todo[t]))
       /\ UNCHANGED <<platform, mtx, sem_queue, sem_gate, monitor, sleepers, clock>>

SignalFirst(t) ==
    /\ platform = "msvc" /\ Signals(t) /\ monitor = NULL
    /\ cond.to_unblock = 0
    /\ \/ /\ cond.blocked > cond.gone
          /\ monitor' = t
          /\ Goto(t, "gate")
          /\ UNCHANGED <<todo, local, ret, history>>
       \/ /\ cond.blocked <= cond.gone
          /\ Return(t, "success")
          /\ Call(Head(todo[t]))
          /\ UNCHANGED monitor
    /\ UNCHANGED <<platform, mtx, cond, sem_queue, sem_gate, sleepers, clock>>

CloseGate(t) ==
    LET c == Folded(cond)
        n == Released(c, Head(todo[t]) = "broadcast")
    IN /\ pc[t] = "gate" /\ sem_gate = 1
       /\ sem_gate' = 0
       /\ cond' = [c EXCEPT !.to_unblock = n, !.blocked = @ - n]
       /\ local' = [local EXCEPT ![t].nsignal = n]
       /\ monitor' = NULL
       /\ Call(Head(todo[t]))
       /\ Goto(t, "post")
       /\ Staying
       /\ UNCHANGED <<mtx, sem_queue, sleepers, clock>>

Post(t) ==
    /\ pc[t] = "post"
    /\ sem_queue' = sem_queue + (IF local[t].nsignal > 0 THEN local[t].nsignal ELSE 0)
    /\ Return(t, "success")
    /\ UNCHANGED <<platform, mtx, cond, sem_gate, monitor, sleepers, clock, history>>

-----------------------------------------------------------------------------
(***************************************************************************)
(* POSIX.  cnd_timedwait passes a time that it has not initialised: the    *)
(* wait may fail or time out at once, and it may never time out.           *)
(***************************************************************************)
PosixWait(t) ==
    /\ platform = "posix"
    /\ Calls(t, "wait") \/ Calls(t, "timedwait")
    /\ mtx' = Unlocked
    /\ sleepers' = sleepers \union {t}
    /\ Forget(t)
    /\ Goto(t, "sleep")
    /\ Staying
    /\ UNCHANGED <<local, cond, sem_queue, sem_gate, monitor, clock>>

PosixTimedWait(t) ==
    /\ platform = "posix" /\ Calls(t, "timedwait")
    /\ Return(t, "error")
    /\ UNCHANGED <<platform, condVars>>

PosixTimeout(t) ==
    /\ t \in sleepers /\ Head(todo[t]) = "timedwait"
    /\ sleepers' = sleepers \ {t}
    /\ local' = [local EXCEPT ![t].timeout = TRUE]
    /\ Goto(t, "relock")
    /\ Staying
    /\ UNCHANGED <<mtx, cond, sem_queue, sem_gate, monitor, clock, history>>

\* pthread_cond_wait may return although nobody has called, and cnd_wait does not
\* look why it has.
PosixWake(t) ==
    /\ t \in sleepers
    /\ sleepers' = sleepers \ {t}
    /\ Goto(t, "relock")
    /\ Staying
    /\ UNCHANGED <<local, mtx, cond, sem_queue, sem_gate, monitor, clock, history>>

\* A signal wakes at least one of those who sleep.
PosixSignal(t) ==
    /\ platform = "posix" /\ Signals(t)
    /\ \E woken \in SUBSET sleepers :
          /\ IF Head(todo[t]) = "broadcast" THEN woken = sleepers
             ELSE sleepers # {} => woken # {}
          /\ sleepers' = sleepers \ woken
          /\ pc' = [u \in Threads |-> IF u \in woken THEN "relock" ELSE pc[u]]
    /\ Call(Head(todo[t]))
    /\ todo' = [todo EXCEPT ![t] = Tail(@)]
    /\ ret' = [ret EXCEPT ![t] = "success"]
    /\ UNCHANGED <<platform, local, mtx, cond, sem_queue, sem_gate, monitor, clock>>

-----------------------------------------------------------------------------
MutexStep(t) == MtxLock(t) \/ MtxTryLock(t) \/ MtxUnlock(t) \/ TimedLock(t) \/ Attempt(t)
WaitStep(t) ==
    \/ EnterWait(t) \/ LeaveMutex(t) \/ Dequeue(t) \/ Unblock(t) \/ Gone(t)
    \/ Fold(t)      \/ Drain(t)      \/ Relock(t)
    \/ PosixWait(t) \/ PosixTimedWait(t)
SignalStep(t) ==
    \/ SignalMore(t) \/ SignalFirst(t) \/ CloseGate(t) \/ Post(t) \/ PosixSignal(t)

ThreadStep(t) == MutexStep(t) \/ WaitStep(t) \/ SignalStep(t)

\* What may happen to a thread that sleeps, and need not.
SleepEnds(t) == PosixTimeout(t) \/ PosixWake(t)

Next == Tick \/ \E t \in Threads : ThreadStep(t) \/ SleepEnds(t)

Spec == Init /\ [][Next]_vars

\* Windows and POSIX let every thread that can go on go on, and time passes.  A
\* timed wait ends on Windows, where its time is a number of milliseconds; on
\* POSIX the time it is given is not initialised, and a wait that nobody calls
\* may last.
FairSpec ==
    /\ Spec
    /\ WF_vars(Tick)
    /\ \A t \in Threads : WF_vars(ThreadStep(t))

-----------------------------------------------------------------------------
At(place) == {t \in Threads : pc[t] = place}

(***************************************************************************)
(* The tokens of a batch: those in the queue, those of the signals that    *)
(* have left the monitor and not posted yet, and those taken by threads    *)
(* that have not been counted.  While nobody has timed out, they are as    *)
(* many as threads are to be unblocked; then sem_queue is empty between    *)
(* batches and no later wait finds an old token (impl_cond_do_wait).       *)
(***************************************************************************)
\* n[t] tokens for each t in S.
Tokens(S, n) == UNION {{t} \X (1 .. n[t]) : t \in S}

Unposted == Cardinality(Tokens(At("post"), [t \in Threads |-> local[t].nsignal]))
Taken    == {t \in At("monitor") : ~local[t].timeout}
Draining == Cardinality(Tokens(At("drain"), [t \in Threads |-> local[t].ngone]))

TokensMatch ==
    ~raced =>
        sem_queue + Unposted + Cardinality(Taken)
            = cond.to_unblock + Draining + (IF cond.to_unblock > 0 THEN cond.gone ELSE 0)

(***************************************************************************)
(* A wait on the emulated condition variable succeeds only after a signal  *)
(* or a broadcast during it (impl_cond_do_wait), unless a wait has timed   *)
(* out while a signal was on its way: its token goes to whoever waits      *)
(* first.  On POSIX a wait may succeed for no reason.                      *)
(***************************************************************************)
NoSpuriousWakeup ==
    [][\A t \in Threads :
          platform = "msvc" /\ Relock(t) /\ ret'[t] = "success"
              => raced \/ t \in called]_vars

(***************************************************************************)
(* A broadcast ends every wait that it finds (impl_cond_do_signal), unless *)
(* a wait has timed out while a signal was on its way.                     *)
(***************************************************************************)
BroadcastWakes ==
    \A t \in Threads : t \in calledAll \intersect Waiting ~> raced \/ t \notin Waiting
=============================================================================
