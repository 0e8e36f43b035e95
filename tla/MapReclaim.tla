----------------------------- MODULE MapReclaim -----------------------------
(***************************************************************************)
(* When the memory of a migrated table is given back: the epochs of        *)
(* include/generic/map.h and the freeing thread of src/internal/map.c.tmp. *)
(*                                                                         *)
(* Each thread that uses the map has an entry in a list, with a time whose *)
(* top bit says that the thread is inside an operation (pinned).  The      *)
(* freeing thread notes the time of every entry and waits, for each one    *)
(* that was pinned, until it has changed.  The entries are thread-local:   *)
(* that of a thread that has ended is still in the list, and its memory is *)
(* gone.                                                                   *)
(*                                                                         *)
(* Inside an operation a thread follows pointers to tables as MapChain     *)
(* allows.  The queue of retired tables is FreeList's; here the freeing    *)
(* thread takes any of them.                                               *)
(***************************************************************************)
EXTENDS MapChain, Sequences, SequencesExt

CONSTANTS
    MaxTime,        \* bound on the calls of each thread
    Hitting,        \* bound: the threads whose gets may find their key
    Ending,         \* bound: the threads that may end
    Late,           \* bound: the threads whose stores may be seen late
    MaxDelayed      \* bound on the release stores that wait in a store buffer

TimeType == [pinned : BOOLEAN, n : Nat]
Time     == [pinned : BOOLEAN, n : 0..MaxTime]
Reset    == [pinned |-> FALSE, n |-> 0]

ASSUME ReclaimAssumption ==
    /\ MaxTime \in Nat /\ MaxDelayed \in Nat
    /\ Hitting \union Ending \union Late \subseteq Threads
    /\ NULL \notin TimeType

VARIABLES
    pc,            \* per client thread
    ebr_count,     \* map_ebr_count
    id,            \* map_ebr.id of each thread
    ebr_list,      \* map_ebr_list, newest entry first
    time,          \* map_ebr.time of each thread, as other threads see it
    buffer,        \* stores to it that only its thread sees yet
    free_pc,       \* the freeing thread
    table,         \* the table it is about to free
    state_count,   \* its copy of map_ebr_count
    states,        \* states[th]: the time noted for th's entry, or NULL
    todo,          \* entries that its walk of the list has not reached
    freed,         \* tables unmapped
    early          \* history: threads that have come by a table while others did
                   \* not see them pinned

ebr    == <<ebr_count, id, ebr_list>>
freer  == <<free_pc, table, state_count, states, todo, freed>>
client == <<chain, pc, ebr, time, buffer, early>>
vars   == <<client, freer>>

Places == {"out", "insert", "pin", "in", "dead"}

ReclaimInit ==
    /\ Init
    /\ pc = [th \in Threads |-> "out"]
    /\ ebr_count = 0
    /\ id = [th \in Threads |-> 0]
    /\ ebr_list = <<>>
    /\ time = [th \in Threads |-> Reset]
    /\ buffer = [th \in Threads |-> <<>>]
    /\ free_pc = "pop" /\ table = NULL /\ state_count = 0
    /\ states = [th \in Threads |-> NULL]
    /\ todo = <<>>
    /\ freed = {}
    /\ early = {}

-----------------------------------------------------------------------------
(***************************************************************************)
(* Client threads.                                                         *)
(***************************************************************************)
\* What th itself reads: its latest store.
Own(th) == IF buffer[th] = <<>> THEN time[th] ELSE Last(buffer[th])

\* An atomic_store with memory_order_release; other threads may see it late.
Store(th, t) ==
    \/ /\ buffer[th] = <<>>
       /\ time' = [time EXCEPT ![th] = t]
       /\ UNCHANGED buffer
    \/ /\ th \in Late /\ Len(buffer[th]) < MaxDelayed
       /\ buffer' = [buffer EXCEPT ![th] = Append(@, t)]
       /\ UNCHANGED time

Drain(th) ==
    /\ buffer[th] # <<>>
    /\ time' = [time EXCEPT ![th] = Head(buffer[th])]
    /\ buffer' = [buffer EXCEPT ![th] = Tail(@)]
    /\ UNCHANGED <<chain, pc, ebr, early, freer>>

\* t + MAP_PINNED_BIT: the bit is added, so it flips.
Flip(t) == [t EXCEPT !.pinned = ~@]
Tick_Not(t) == Flip(t)
Tick(t)     == [Flip(t) EXCEPT !.n = @ + 1]

Registered(th) == th \in Range(ebr_list)

\* map_ebr_count++
NextCount      == ebr_count + 1

\* ebr_try_init: take an id, then insert the entry at the head of the list.
Call(th) ==
    /\ pc[th] = "out" /\ Own(th).n < MaxTime
    /\ \/ /\ Registered(th)
          /\ pc' = [pc EXCEPT ![th] = "pin"]
          /\ UNCHANGED <<id, ebr_count>>
       \/ /\ ~Registered(th)
          /\ id' = [id EXCEPT ![th] = ebr_count]
          /\ ebr_count' = NextCount
          /\ pc' = [pc EXCEPT ![th] = "insert"]
    /\ UNCHANGED <<chain, ebr_list, time, buffer, early, freer>>

Insert(th) ==
    /\ pc[th] = "insert"
    /\ ebr_list' = <<th>> \o ebr_list
    /\ pc' = [pc EXCEPT ![th] = "pin"]
    /\ UNCHANGED <<chain, id, ebr_count, time, buffer, early, freer>>

EnterPinned(th) ==
    /\ pc[th] = "pin"
    /\ Store(th, Flip(Own(th)))
    /\ pc' = [pc EXCEPT ![th] = "in"]
    /\ UNCHANGED <<chain, ebr, early, freer>>

Visible(th) == buffer[th] = <<>> /\ time[th].pinned

\* The operation itself.  A compare-and-swap, and the sequentially consistent
\* store of the detach, wait for the thread's earlier stores.
Operate(th) ==
    /\ pc[th] = "in"
    /\ \/ Follow(th)
       \/ buffer[th] = <<>> /\ (Grow(th) \/ Detach(th))
    /\ early' = IF held'[th] = {} THEN early \ {th}
                ELSE IF Visible(th) THEN early
                ELSE early \union {th}
    /\ UNCHANGED <<pc, ebr, time, buffer, freer>>

ExitPinned(th) ==
    /\ pc[th] = "in"
    /\ Store(th, Tick(Own(th)))
    /\ held' = [held EXCEPT ![th] = {}]
    /\ early' = early \ {th}
    /\ pc' = [pc EXCEPT ![th] = "out"]
    /\ UNCHANGED <<latest, prev, retired, ebr, freer>>

\* A get that finds the key returns from inside its loop.
GetHit(th) ==
    /\ th \in Hitting
    /\ pc[th] = "in" /\ held[th] # {}
    /\ held' = [held EXCEPT ![th] = {}]
    /\ early' = early \ {th}
    /\ pc' = [pc EXCEPT ![th] = "out"]
    /\ UNCHANGED <<latest, prev, retired, ebr, time, buffer, freer>>

\* The thread ends, and the memory of its entry with it.  The entry stays in the
\* list.
ThreadExit(th) ==
    /\ th \in Ending
    /\ pc[th] = "out" /\ buffer[th] = <<>>
    /\ pc' = [pc EXCEPT ![th] = "dead"]
    /\ UNCHANGED <<chain, ebr, time, buffer, early, freer>>

-----------------------------------------------------------------------------
(***************************************************************************)
(* The freeing thread, map_thread_fn.                                      *)
(***************************************************************************)
Pop ==
    /\ free_pc = "pop"
    /\ \E t \in retired \ freed : table' = t
    /\ free_pc' = "count"
    /\ UNCHANGED <<client, state_count, states, todo, freed>>

ReadCount ==
    /\ free_pc = "count"
    /\ state_count' = ebr_count
    /\ states' = [th \in Threads |-> NULL]
    /\ free_pc' = "snapshot"
    /\ UNCHANGED <<client, table, todo, freed>>

\* Each walk of the list starts with a load of its head.
LoadList ==
    /\ free_pc \in {"snapshot", "wait"}
    /\ todo' = ebr_list
    /\ free_pc' = IF free_pc = "snapshot" THEN "note" ELSE "spin"
    /\ \/ /\ free_pc = "snapshot"
          /\ UNCHANGED states
       \/ /\ free_pc = "wait"     \* states[] is not initialised
          /\ \E noise \in [Threads -> Time] :
                states' = [th \in Threads |-> IF states[th] = NULL THEN noise[th]
                                                                  ELSE states[th]]
    /\ UNCHANGED <<client, table, state_count, freed>>

\* The entry that a walk has come to is no more.
HeadGone == todo # <<>> /\ pc[Head(todo)] = "dead"

\* The entries that the two walks look at.
Counts_Less(th) == id[th] + 1 < state_count
Counts(th)      == id[th] < state_count

NoteEntry ==
    LET th == Head(todo) IN
    /\ free_pc = "note" /\ todo # <<>> /\ ~HeadGone
    /\ states' = IF Counts(th) THEN [states EXCEPT ![th] = time[th]] ELSE states
    /\ todo' = Tail(todo)
    /\ UNCHANGED <<client, free_pc, table, state_count, freed>>

\* Whether the freeing thread goes on from an entry.
Moved(th) == states[th].pinned => states[th] # time[th]

SpinEntry ==
    LET th == Head(todo) IN
    /\ free_pc = "spin" /\ todo # <<>> /\ ~HeadGone
    /\ Counts(th) => Moved(th)
    /\ todo' = Tail(todo)
    /\ UNCHANGED <<client, free_pc, table, state_count, states, freed>>

\* Each walk reads the entry of a thread that has ended.  What the freeing thread
\* does from there is undefined; all that is said of it is that it may unmap any
\* table.
ReadGone ==
    /\ free_pc \in {"note", "spin"} /\ HeadGone
    /\ free_pc' = "astray"
    /\ UNCHANGED <<client, table, state_count, states, todo, freed>>

Astray ==
    /\ free_pc = "astray"
    /\ \E any \in SUBSET Tables : freed' = freed \union any
    /\ UNCHANGED <<client, free_pc, table, state_count, states, todo>>

EndWalk ==
    /\ todo = <<>>
    /\ \/ free_pc = "note" /\ free_pc' = "wait"
       \/ free_pc = "spin" /\ free_pc' = "free"
    /\ UNCHANGED <<client, table, state_count, states, todo, freed>>

Free ==
    /\ free_pc = "free"
    /\ freed' = freed \union {table}
    /\ table' = NULL
    /\ free_pc' = "pop"
    /\ states' = [th \in Threads |-> NULL]
    /\ UNCHANGED <<client, state_count, todo>>

-----------------------------------------------------------------------------
ClientStep(th) ==
    \/ Drain(th)   \/ Call(th)       \/ Insert(th) \/ EnterPinned(th)
    \/ Operate(th) \/ ExitPinned(th) \/ GetHit(th) \/ ThreadExit(th)

FreerStep ==
    \/ Pop       \/ ReadCount \/ LoadList
    \/ NoteEntry \/ SpinEntry \/ EndWalk \/ Free
    \/ ReadGone  \/ Astray

ReclaimNext == FreerStep \/ \E th \in Threads : ClientStep(th)

ReclaimSpec == ReclaimInit /\ [][ReclaimNext]_vars

\* Every thread that is in a call goes on, and so does the freeing thread;
\* clients need not call again.
Fairness ==
    /\ WF_vars(FreerStep)
    /\ \A th \in Threads : /\ WF_vars(Drain(th)) /\ WF_vars(Insert(th))
                           /\ WF_vars(EnterPinned(th)) /\ WF_vars(ExitPinned(th))

FairReclaimSpec == ReclaimSpec /\ Fairness

-----------------------------------------------------------------------------
\* Types; and every thread inside an operation has an entry in the list, with
\* an id below map_ebr_count.
ReclaimTypeOK ==
    /\ latest \in Tables /\ prev \in [Tables -> Tables \union {NULL}]
    /\ retired \subseteq Tables /\ held \in [Threads -> SUBSET Tables]
    /\ pc \in [Threads -> Places]
    /\ ebr_count \in Nat /\ id \in [Threads -> Nat] /\ ebr_list \in Seq(Threads)
    /\ time \in [Threads -> TimeType] /\ buffer \in [Threads -> Seq(TimeType)]
    /\ free_pc \in {"pop", "count", "snapshot", "note", "wait", "spin", "free", "astray"}
    /\ table \in (IF free_pc = "pop" THEN {NULL} ELSE Tables) /\ state_count \in Nat
    /\ states \in [Threads -> TimeType \union {NULL}] /\ todo \in Seq(Threads)
    /\ freed \subseteq Tables /\ early \subseteq Threads
    /\ \A th \in Threads : /\ pc[th] = "insert" \/ Registered(th) => id[th] < ebr_count
                           /\ pc[th] \in {"pin", "in"} => Registered(th)

\* A thread that was seen pinned when it came by its tables has no pointer to
\* one that was unmapped, whatever the other threads do, unless the freeing
\* thread has read the entry of a thread that has ended (map_thread_fn).
NoUseAfterFree ==
    free_pc # "astray" => \A th \in Threads \ early : held[th] \intersect freed = {}

\* Nothing that a new call can load leads to a table that is to be freed:
\* "they'd need to reload from map_t.latest" (map_thread_fn).
RetiredUnreachable ==
    /\ latest \notin retired
    /\ \A t \in Tables : prev[t] \notin retired

\* "if we started unlocked then we weren't holding pointers in the first
\* place" (map_thread_fn): an entry noted as unpinned belongs to a thread that
\* does not have the table which is about to be freed, or to one that was not
\* seen pinned when it came by its tables.
UnpinnedHoldsNothing ==
    \A th \in Threads \ early :
        /\ free_pc \in {"wait", "spin", "free"}
        /\ th \in Range(ebr_list) /\ states[th] # NULL /\ ~states[th].pinned
        => table \notin held[th]

\* Pinned outside of an operation, or the reverse: what a get that returned
\* from inside its loop leaves behind.
Strayed(th) == Own(th).pinned # (pc[th] = "in")

\* "once the other threads either advance or aren't in the hashset functions
\* we know we can free" (map_thread_fn): every retired table is freed, unless
\* a thread strays, or one has ended and the freeing thread reads its entry.
EveryTableFreed ==
    \A t \in Tables :
        t \in retired ~>
            t \in freed \/ free_pc = "astray" \/ \E th \in Threads : Strayed(th)

\* "no more refs, we can immediately free" (map_thread_fn): when a table is
\* unmapped no thread at all has a pointer to it.  The code does not keep it,
\* since a pin may be seen late.
NoMoreRefs == free_pc = "free" => \A th \in Threads : table \notin held[th]

\* "add to ebr list, we never free this" (ebr_try_init): the entries that the
\* freeing thread reads are there.  The code does not keep it, since an entry is
\* thread-local and a thread may end.
EntriesLast == free_pc # "astray"
=============================================================================
