------------------------------ MODULE MapChain ------------------------------
(***************************************************************************)
(* The chain of tables of the hash map, and which of them a thread may     *)
(* still follow a pointer to: what include/generic/map.h looks like to the *)
(* code that frees tables.  MapTable implements it.                        *)
(*                                                                         *)
(* A thread comes by a table in three ways only: it loads hm->latest, it   *)
(* loads the prev of a table it has, or it makes a new one.                *)
(***************************************************************************)
EXTENDS Integers

CONSTANTS Threads, MaxTables, NULL

Tables == 1..MaxTables

ASSUME ChainAssumption == MaxTables \in Nat \ {0} /\ NULL \notin Tables

VARIABLES
    latest,    \* hm->latest
    prev,      \* prev[t]: table->prev
    retired,   \* tables handed to the freeing thread
    held       \* held[th]: tables that th has pointers to

chain == <<latest, prev, retired, held>>

Init ==
    /\ latest = 1
    /\ prev = [t \in Tables |-> NULL]
    /\ retired = {}
    /\ held = [th \in Threads |-> {}]

\* Locals change: what is kept, and at most one table that is reached.
Keep_Stale(th) ==
    \E kept \in SUBSET held[th], t \in 1..latest :
        held' = [held EXCEPT ![th] = kept \union {t}]
Keep(th) ==
    \E kept \in SUBSET held[th] :
        \/ held' = [held EXCEPT ![th] = kept]
        \/ held' = [held EXCEPT ![th] = kept \union {latest}]
        \/ \E t \in held[th] : /\ prev[t] # NULL
                               /\ held' = [held EXCEPT ![th] = kept \union {prev[t]}]
Follow(th) == Keep(th) /\ UNCHANGED <<latest, prev, retired>>

\* Install a table that is twice as large; the full one becomes its prev.
Grow(th) ==
    /\ latest \in held[th]
    /\ latest < MaxTables
    /\ latest' = latest + 1
    /\ prev' = [prev EXCEPT ![latest + 1] = latest]
    /\ \E kept \in SUBSET held[th] :
           held' = [held EXCEPT ![th] = kept \union {latest + 1}]
    /\ UNCHANGED retired

\* All of the older table was moved: unlink it and hand it over, once.
Unlinked_Not(t) == prev
Unlinked(t)     == [prev EXCEPT ![t] = NULL]
Detach(th) ==
    \E t \in held[th] :
        /\ prev[t] \in held[th] \ retired
        /\ prev' = Unlinked(t)
        /\ retired' = retired \union {prev[t]}
        /\ held' = [held EXCEPT ![th] = @ \ {prev[t]}]
        /\ UNCHANGED latest

Next == \E th \in Threads : Follow(th) \/ Grow(th) \/ Detach(th)

Spec == Init /\ [][Next]_chain
=============================================================================
