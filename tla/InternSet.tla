------------------------------ MODULE InternSet ------------------------------
(***************************************************************************)
(* What the hash map gives to a program that interns with put: a set of    *)
(* keys that only grows, in which a key is present by the time the call    *)
(* that interns it returns, and a pointer to that key, of those that       *)
(* callers have, for every such call.  Callers that intern one key need    *)
(* not get the same pointer.                                               *)
(***************************************************************************)
CONSTANTS
    Threads, Keys, NULL,
    Values,     \* pointers
    Denotes     \* Denotes[v]: the key that v points to, or NULL

VARIABLES
    interned,   \* the keys that are present
    interning,  \* per thread: the key of its unfinished call, or NULL
    answer      \* per thread: the pointer its call is about to return, or NULL

Init ==
    /\ interned = {}
    /\ interning = [th \in Threads |-> NULL]
    /\ answer = [th \in Threads |-> NULL]

Begin(th, k) ==
    /\ interning[th] = NULL
    /\ interning' = [interning EXCEPT ![th] = k]
    /\ UNCHANGED <<interned, answer>>

\* The key becomes visible, once, while somebody is interning it.
Add(k) ==
    /\ \E th \in Threads : interning[th] = k
    /\ interned' = interned \union {k}
    /\ UNCHANGED <<interning, answer>>

\* A call settles on a pointer to its key, which is present from then on.
Answer(th, v) ==
    /\ interning[th] # NULL /\ answer[th] = NULL
    /\ Denotes[v] = interning[th]
    /\ interned' = interned \union {interning[th]}
    /\ answer' = [answer EXCEPT ![th] = v]
    /\ UNCHANGED interning

Finish(th) ==
    /\ answer[th] # NULL
    /\ interning' = [interning EXCEPT ![th] = NULL]
    /\ answer' = [answer EXCEPT ![th] = NULL]
    /\ UNCHANGED interned

Next ==
    \/ \E th \in Threads, k \in Keys : Begin(th, k)
    \/ \E k \in Keys : Add(k)
    \/ \E th \in Threads, v \in Values : Answer(th, v)
    \/ \E th \in Threads : Finish(th)

Spec == Init /\ [][Next]_<<interned, interning, answer>>
=============================================================================
