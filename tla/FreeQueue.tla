------------------------------ MODULE FreeQueue -----------------------------
(***************************************************************************)
(* What the list of retired tables promises: each one is taken by the      *)
(* freeing thread once, in the order in which they were handed over.       *)
(***************************************************************************)
EXTENDS Sequences

CONSTANT Nodes

VARIABLES
    queue,   \* nodes waiting, first come first
    taken    \* nodes the freeing thread has taken, in order

Init == queue = <<>> /\ taken = <<>>

Enqueue(n) ==
    /\ \A i \in DOMAIN queue : queue[i] # n
    /\ \A i \in DOMAIN taken : taken[i] # n
    /\ queue' = Append(queue, n)
    /\ UNCHANGED taken

Dequeue ==
    /\ queue # <<>>
    /\ taken' = Append(taken, Head(queue))
    /\ queue' = Tail(queue)

Next == Dequeue \/ \E n \in Nodes : Enqueue(n)

Spec == Init /\ [][Next]_<<queue, taken>>
=============================================================================
