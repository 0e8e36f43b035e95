------------------------------ MODULE MapIntern ------------------------------
(***************************************************************************)
(* The map used to intern, put(k, p) with pointers p to k, and get,        *)
(* implements InternSet.                                                   *)
(***************************************************************************)
EXTENDS MapHeld

\* hm->latest and the tables its chain of prev pointers leads to.
Reachable == {t \in Tables : t <= latest /\ \A u \in (t + 1)..latest : prev[u] = u - 1}

\* A key is visible when a reachable table holds it with a value, frozen or not.
Visible ==
    {k \in Keys : \E t \in Reachable : \E s \in Slots(t) :
                      key[t][s] = k /\ val[t][s].v # NULL}

Interning == [th \in Threads |-> IF pc[th] # "idle" /\ call[th].op = "put"
                                 THEN call[th].key ELSE NULL]

\* The pointer that a finished put is about to hand to its client.
Answer == [th \in Threads |-> IF pc[th] = "exit" /\ call[th].op = "put" /\ ~ret[th].prime
                              THEN ret[th].v ELSE NULL]

Interns ==
    INSTANCE InternSet WITH interned <- Visible, interning <- Interning, answer <- Answer

\* The map, through any interleaving with a migration, never lets an interned
\* key disappear, never returns from put before the key is visible, and then
\* returns a pointer to that key, not to another one and no frozen word.
ImplementsInternSet == Interns!Spec

\* Two calls of put that intern the same key, and are about to return, return
\* the same pointer.  The code does not keep it: put overwrites what it finds.
OnePointer ==
    \A a, b \in Threads :
        /\ pc[a] = "exit" /\ call[a].op = "put"
        /\ pc[b] = "exit" /\ call[b].op = "put"
        /\ call[a].key = call[b].key
        => ret[a] = ret[b]
=============================================================================
