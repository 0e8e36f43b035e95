------------------------------ MODULE FreeList ------------------------------
(***************************************************************************)
(* The hand-over of retired tables: client threads that detached a table   *)
(* (the end of move_items) append it to a lock-free list, count it and     *)
(* wake the freeing thread (map_thread_fn of src/internal/map.c.tmp).      *)
(* Nodes are never freed by the code, so none is ever reused.              *)
(*                                                                         *)
(* How the freeing thread waits until nobody uses a table is modelled in   *)
(* MapReclaim.                                                             *)
(***************************************************************************)
EXTENDS Integers, Sequences

CONSTANTS
    Threads,   \* client threads
    Nodes,     \* bound: as many nodes as tables are ever detached
    Dummy,     \* MAP_DUMMY
    NULL,
    Asserted   \* is the result of the wait asserted: TRUE on Linux, FALSE on
               \* Windows, where nobody looks at it

ASSUME ListAssumption ==
    /\ Dummy \notin Nodes /\ NULL \notin Nodes \union {Dummy}
    /\ Asserted \in SUBSET BOOLEAN \ {{}}

AllNodes == Nodes \union {Dummy}

VARIABLES
    next,              \* node->next
    map_free_head, map_free_tail,
    map_free_count, map_free_done,
    map_free_thread_init,
    pc,                \* per client thread
    new_node, p, old_p,
    worker,            \* where the freeing thread is
    old,               \* its local: the count it read
    taken,             \* the nodes it has taken off the list, in order
    linked             \* history: the nodes in the order of their links

list   == <<next, map_free_head, map_free_tail>>
counts == <<map_free_count, map_free_done>>
locals == <<new_node, p, old_p>>
vars   == <<list, counts, map_free_thread_init, pc, locals, worker, old, taken, linked>>

Init ==
    /\ next = [n \in AllNodes |-> NULL]
    /\ map_free_head = Dummy /\ map_free_tail = Dummy
    /\ map_free_count = 0 /\ map_free_done = 0
    /\ map_free_thread_init = FALSE
    /\ pc = [th \in Threads |-> "client"]
    /\ new_node = [th \in Threads |-> NULL]
    /\ p = [th \in Threads |-> NULL] /\ old_p = [th \in Threads |-> NULL]
    /\ worker = "none" /\ old = 0
    /\ taken = <<>> /\ linked = <<>>

Goto(th, label) == pc' = [pc EXCEPT ![th] = label]
Aborted         == worker = "assert"

-----------------------------------------------------------------------------
(***************************************************************************)
(* A client thread that detached a table.                                  *)
(***************************************************************************)
\* The first one starts the freeing thread.
TestAndSet(th) ==
    /\ ~Aborted /\ pc[th] = "client"
    /\ map_free_thread_init' = TRUE
    /\ Goto(th, IF map_free_thread_init THEN "alloc" ELSE "create")
    /\ UNCHANGED <<list, counts, locals, worker, old, taken, linked>>

Create(th) ==
    /\ ~Aborted /\ pc[th] = "create"
    /\ worker' = "check"
    /\ Goto(th, "alloc")
    /\ UNCHANGED <<list, counts, map_free_thread_init, locals, old, taken, linked>>

\* A node that was never used; which one makes no difference.
Unused == {n \in Nodes : /\ \A t \in Threads : new_node[t] # n
                         /\ \A m \in AllNodes : next[m] # n}
Alloc(th) ==
    /\ ~Aborted /\ pc[th] = "alloc"
    /\ Unused # {}
    /\ new_node' = [new_node EXCEPT ![th] = CHOOSE n \in Unused : TRUE]
    /\ Goto(th, "tail")
    /\ UNCHANGED <<list, counts, map_free_thread_init, p, old_p, worker, old, taken, linked>>

LoadTail(th) ==
    /\ ~Aborted /\ pc[th] = "tail"
    /\ p' = [p EXCEPT ![th] = map_free_tail]
    /\ old_p' = [old_p EXCEPT ![th] = map_free_tail]
    /\ Goto(th, "walk")
    /\ UNCHANGED <<list, counts, map_free_thread_init, new_node, worker, old, taken, linked>>

\* while (p->next != NULL) p = p->next
HasNext(n)         == next[n] # NULL
Walk(th) ==
    /\ ~Aborted /\ pc[th] = "walk"
    /\ \/ /\ HasNext(p[th])
          /\ p' = [p EXCEPT ![th] = next[p[th]]]
          /\ UNCHANGED pc
       \/ /\ ~HasNext(p[th])
          /\ Goto(th, "link")
          /\ UNCHANGED p
    /\ UNCHANGED <<list, counts, map_free_thread_init, new_node, old_p, worker, old, taken, linked>>

\* The CAS of p->next from NULL; when it fails the walk goes on.
Linkable_NoCas(n) == TRUE
Linkable(n)       == next[n] = NULL
Link(th) ==
    /\ ~Aborted /\ pc[th] = "link"
    /\ \/ /\ Linkable(p[th])
          /\ next' = [next EXCEPT ![p[th]] = new_node[th]]
          /\ linked' = Append(linked, new_node[th])
          /\ Goto(th, "swing")
       \/ /\ ~Linkable(p[th])
          /\ Goto(th, "walk")
          /\ UNCHANGED <<next, linked>>
    /\ UNCHANGED <<map_free_head, map_free_tail, counts, map_free_thread_init, locals,
                   worker, old, taken>>

\* The CAS of map_free_tail from old_p, whether it succeeds or not.
Swing(th) ==
    /\ ~Aborted /\ pc[th] = "swing"
    /\ map_free_tail' = IF map_free_tail = old_p[th] THEN new_node[th] ELSE map_free_tail
    /\ Goto(th, "count")
    /\ UNCHANGED <<next, map_free_head, counts, map_free_thread_init, locals, worker, old,
                   taken, linked>>

Count(th) ==
    /\ ~Aborted /\ pc[th] = "count"
    /\ map_free_count' = map_free_count + 1
    /\ Goto(th, "wake")
    /\ UNCHANGED <<list, map_free_done, map_free_thread_init, locals, worker, old, taken, linked>>

\* FUTEX_WAKE; the client goes on to its next operation.
Wake(th) ==
    /\ ~Aborted /\ pc[th] = "wake"
    /\ worker' = IF worker = "asleep" THEN "check" ELSE worker
    /\ Goto(th, "client")
    /\ new_node' = [new_node EXCEPT ![th] = NULL]
    /\ p' = [p EXCEPT ![th] = NULL]
    /\ old_p' = [old_p EXCEPT ![th] = NULL]
    /\ UNCHANGED <<list, counts, map_free_thread_init, old, taken, linked>>

-----------------------------------------------------------------------------
(***************************************************************************)
(* The freeing thread.                                                     *)
(***************************************************************************)
Check ==
    /\ worker = "check"
    /\ old' = map_free_count
    /\ worker' = IF map_free_count = map_free_done THEN "wait" ELSE "pop"
    /\ UNCHANGED <<list, counts, map_free_thread_init, pc, locals, taken, linked>>

\* WaitOnAddress, FUTEX_WAIT: sleep if the count is still what was read.  If it
\* is not, the one returns, the other fails (EAGAIN), which is asserted not to
\* happen.
Unchanged_Assumed == TRUE
Unchanged         == map_free_count = old
Wait ==
    /\ worker = "wait"
    /\ \/ Unchanged /\ worker' = "asleep"
       \/ ~Unchanged /\ \E asserted \in Asserted :
              worker' = IF asserted THEN "assert" ELSE "check"
    /\ UNCHANGED <<list, counts, map_free_thread_init, pc, locals, old, taken, linked>>

\* The wait may end although nobody called wake.
Spurious ==
    /\ worker = "asleep"
    /\ worker' = "check"
    /\ UNCHANGED <<list, counts, map_free_thread_init, pc, locals, old, taken, linked>>

\* There is one freeing thread, so its CAS of map_free_head succeeds.
Pop ==
    LET n == next[map_free_head] IN
    /\ worker = "pop"
    /\ map_free_head' = IF n = NULL THEN map_free_head ELSE n
    /\ taken' = IF n = NULL THEN taken ELSE Append(taken, n)
    /\ worker' = IF n = NULL THEN "check" ELSE "done"
    /\ UNCHANGED <<next, map_free_tail, counts, map_free_thread_init, pc, locals, old, linked>>

\* The table has been freed.
NextDone      == map_free_done + 1
Done ==
    /\ worker = "done"
    /\ map_free_done' = NextDone
    /\ worker' = "check"
    /\ UNCHANGED <<list, map_free_count, map_free_thread_init, pc, locals, old, taken, linked>>

-----------------------------------------------------------------------------
Client(th) ==
    \/ TestAndSet(th) \/ Create(th) \/ Alloc(th) \/ LoadTail(th) \/ Walk(th)
    \/ Link(th)       \/ Swing(th)  \/ Count(th) \/ Wake(th)

Freer == Check \/ Wait \/ Pop \/ Done

Next == Freer \/ Spurious \/ \E th \in Threads : Client(th)

Spec == Init /\ [][Next]_vars

\* The scheduler runs every thread that can run.  A client that is not
\* handing over a table need not detach another one, and nothing but Wake
\* has to wake the freeing thread.
FairSpec ==
    /\ Spec
    /\ WF_vars(Freer)
    /\ \A th \in Threads : WF_vars(Client(th) /\ pc[th] # "client")

-----------------------------------------------------------------------------
(***************************************************************************)
(* "assert(futex_rc >= 0)" (map_thread_fn): the wait of Linux does not     *)
(* fail.  The code does not keep it: the count may change before the wait. *)
(***************************************************************************)
WaitSucceeds == ~Aborted

\* The nodes that are linked and not taken.
Waiting == [i \in 1 .. Len(linked) - Len(taken) |-> linked[Len(taken) + i]]

Queue == INSTANCE FreeQueue WITH queue <- Waiting

\* However the appends of several threads and the takes interleave, and
\* however far map_free_tail lags behind, no table is lost, taken twice or
\* taken out of order.
ImplementsFreeQueue == Queue!Spec

\* "signal futex" (move_items): a table that was handed over is taken, even
\* if its wake-up comes between the freeing thread's check and its wait; where
\* the wait's result is asserted, it is that or the end of the program.
EveryTableTaken ==
    \A n \in Nodes :
        (\E m \in AllNodes : next[m] = n) ~>
            Aborted \/ \E i \in DOMAIN taken : taken[i] = n
=============================================================================
