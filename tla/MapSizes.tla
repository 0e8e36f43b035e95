----------------------------- MODULE MapSizes -------------------------------
(***************************************************************************)
(* Table sizes, hash values and workloads for TLC's instances of the map.  *)
(***************************************************************************)
EXTENDS MapTable, TLC

CONSTANTS t1, t2, k1, k2, k3, v1, v2, v3, v4

\* Small capacities; the code's are 253, 509, 1021, ...  Home slots make keys
\* collide and probes wrap around.
OneResize == <<2, 6>>
ShortChunk == <<3, 6>>
TinyCaps  == <<2, 2, 6>>
SmallHome ==
    [k \in Keys |-> [t \in Tables |->
        CASE k = k1 -> Cap[t] - 1
          [] k = k2 -> Cap[t] - 1
          [] OTHER  -> 0]]

\* What the values point to: a key's own pointers when the map interns, two of
\* them for k1; in MixedCalls values have nothing to do with keys.
OwnPointers ==
    [v \in Values |-> CASE v \in {v1, v2} -> k1 [] v = v3 -> k2 [] v = v4 -> k3]
Unrelated == [v \in Values |-> NULL]

SpreadHome ==
    [k \in Keys |-> [t \in Tables |->
        (CASE k = k1 -> 0 [] k = k2 -> 1 [] OTHER -> 2) % Cap[t]]]

Put(k, v)  == [op |-> "put", key |-> k, val |-> v]
Remove(k)  == [op |-> "remove", key |-> k, val |-> TOMBSTONE]
Get(k)     == [op |-> "get", key |-> k, val |-> NULL]
Barrier(k) == [op |-> "resize_barrier", key |-> k, val |-> NULL]

\* Each value interned under the key it denotes.
Intern == {Put(Denotes[v], v) : v \in Values}

\* Interning, beside a reader and a thread that waits for migrations.
InternCalls == [th \in Threads |->
    Intern \union IF th = t1 THEN {Get(k1)} ELSE {Barrier(k1)}]

\* Two clients that intern different keys, enough for a second resize to
\* start while the first migration is unfinished.
NestedCalls == [th \in Threads |-> IF th = t1 THEN {Put(k1, v1)}
                                             ELSE {Put(k2, v3), Put(k3, v4)}]

\* Writers of both kinds; readers are in InternCalls.
MixedCalls == [th \in Threads |->
    {Put(k, v1) : k \in Keys} \union {Remove(k1)}]

ThreadSymmetry == Permutations(Threads)
=============================================================================
