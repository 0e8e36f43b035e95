------------------------------ MODULE LuaTable ------------------------------
(***************************************************************************)
(* The tables of minilua, which runs the preprocessor of the assembler: an  *)
(* array part, and a hash part in which a key whose place is taken by a key  *)
(* that belongs elsewhere drives it out (Brent's variation), moved about by  *)
(* rehash; traversal by next while fields are assigned to and the collector  *)
(* marks the keys of empty fields dead; the border that # finds.             *)
(***************************************************************************)
EXTENDS Integers, Sequences, FiniteSets, FiniteSetsExt

CONSTANTS
    Keys,           \* <<"int", n>>, <<"str", s>>, <<"bool", b>>, <<"obj", o>>
    Hash(_),        \* of a string or an object
    IntMax,         \* bound: INT_MAX, of a narrower int
    ArraySizes, HashSizes    \* what OP_NEWTABLE and OP_SETLIST may ask for

Nil == <<"nil">>
ASSUME KeysAssumption == Nil \notin Keys /\ \A k \in Keys : k[1] \in {"int", "str", "bool", "obj"}

VARIABLES t,                \* the table: array, node, lastfree, dummy
          at, seen, due     \* a traversal: the key it is at, the keys it gave, those it must give

vars == <<t, at, seen, due>>

Value(k)   == k        \* a value that shows whose it is
Dead(k)    == <<"dead", k>>
Empty      == [key |-> Nil, val |-> Nil, next |-> -1]
SizeNode(x) == Cardinality(DOMAIN x.node)
CeilLog2(n) == CHOOSE i \in 0 .. n : 2^i >= n /\ \A j \in 0 .. i - 1 : 2^j < n

\* The two words of the number n as a double, added.
HashNum(n) ==
    LET e == CHOOSE i \in 0 .. 20 : 2^i <= n /\ n < 2^(i + 1)
    IN (1023 + e) * 2^20 + (n - 2^e) * 2^(20 - e)

\* Where a key belongs: modulo the size, or modulo an odd number.
MainPosition(x, k) ==
    LET size == SizeNode(x)
        odd  == IF size <= 2 THEN 1 ELSE size - 1
    IN CASE k[1] = "int"  -> IF k[2] = 0 THEN 0 ELSE HashNum(k[2]) % odd
         [] k[1] = "str"  -> Hash(k) % size
         [] k[1] = "bool" -> (IF k[2] THEN 1 ELSE 0) % size
         [] k[1] = "obj"  -> Hash(k) % odd

\* The first node from i on that holds one of the keys, -1 if none.
RECURSIVE Find(_, _, _)
Find(x, i, ks) ==
    IF i = -1 THEN -1 ELSE IF x.node[i].key \in ks THEN i ELSE Find(x, x.node[i].next, ks)

InArray(x, k) == k[1] = "int" /\ k[2] \in 1 .. Len(x.array)

Get(x, k) ==
    IF InArray(x, k) THEN x.array[k[2]]
    ELSE LET i == Find(x, MainPosition(x, k), {k}) IN IF i = -1 THEN Nil ELSE x.node[i].val

-----------------------------------------------------------------------------
(* Sizes. *)

ArrayVector(x, size) ==
    [x EXCEPT !.array = [i \in 1 .. size |-> IF i <= Len(x.array) THEN x.array[i] ELSE Nil]]

\* A power of two of free nodes, or the one node that all empty tables share.
NodeVector(x, size) ==
    LET n == IF size = 0 THEN 1 ELSE 2^CeilLog2(size)
    IN [x EXCEPT !.node = [i \in 0 .. n - 1 |-> Empty], !.lastfree = IF size = 0 THEN 0 ELSE n, !.dummy = (size = 0)]

NewTable(narray, nhash) ==
    NodeVector(ArrayVector([array |-> <<>>, node |-> <<>>, lastfree |-> 0, dummy |-> TRUE], narray), nhash)

\* The keys that could be in the array part, and all keys in use.
IntKeys(x) == {k \in 1 .. Len(x.array) : x.array[k] # Nil}
              \cup {x.node[i].key[2] : i \in {j \in DOMAIN x.node : x.node[j].val # Nil /\ x.node[j].key[1] = "int"}}
InUse(x)   == Cardinality({k \in DOMAIN x.array : x.array[k] # Nil})
              + Cardinality({i \in DOMAIN x.node : x.node[i].val # Nil})

\* The largest power of two more than half of which would be used; the counts
\* are kept for the slices between powers of two.
ComputeSizes(ints) ==
    LET narray  == Cardinality(ints)
        nums(i) == Cardinality({k \in ints : k <= 2^i /\ (i > 0 => k > 2^(i - 1))})
        upto(i) == Cardinality({k \in ints : k <= 2^i})
        good    == {i \in 0 .. CeilLog2(IntMax) :
                        2^i \div 2 < narray /\ nums(i) > 0 /\ upto(i) > 2^i \div 2}
    IN IF good = {} THEN 0 ELSE 2^Max(good)

-----------------------------------------------------------------------------
(* Storing. *)

RECURSIVE Store(_, _, _), Place(_, _, _), StoreAll(_, _)

\* The keys of the old array beyond the new one, then the old nodes, the last first.
StoreAll(x, pairs) ==
    IF pairs = <<>> THEN x ELSE StoreAll(Store(x, pairs[1][1], pairs[1][2]), Tail(pairs))

Resize_KeepsTail(x, nasize, nhsize) ==
    LET nodes == {i \in DOMAIN x.node : x.node[i].val # Nil}
        last(j) == CHOOSE i \in nodes : Cardinality({m \in nodes : m > i}) = j - 1
        old   == [j \in 1 .. Cardinality(nodes) |-> <<x.node[last(j)].key, x.node[last(j)].val>>]
    IN StoreAll(NodeVector(ArrayVector(x, nasize), nhsize), old)

Resize(x, nasize, nhsize) ==
    LET beyond == SelectSeq([i \in DOMAIN x.array |-> <<<<"int", i>>, x.array[i]>>],
                            LAMBDA p : p[1][2] > nasize /\ p[2] # Nil)
        nodes == {i \in DOMAIN x.node : x.node[i].val # Nil}
        last(j) == CHOOSE i \in nodes : Cardinality({m \in nodes : m > i}) = j - 1
        old   == [j \in 1 .. Cardinality(nodes) |-> <<x.node[last(j)].key, x.node[last(j)].val>>]
    IN StoreAll(NodeVector(ArrayVector(x, nasize), nhsize), beyond \o old)

\* No node is free: the parts get the sizes their keys, and k, ask for.
Rehash(x, k) ==
    LET ints == IntKeys(x) \cup (IF k[1] = "int" /\ k[2] > 0 THEN {k[2]} ELSE {})
        size == ComputeSizes(ints)
        inarray == Cardinality({i \in ints : i <= size})
    IN Resize(x, size, InUse(x) + 1 - inarray)

FreeNodes(x) == {i \in 0 .. x.lastfree - 1 : x.node[i].key = Nil}

RECURSIVE Before(_, _, _)
Before(x, i, n) == IF x.node[i].next = n THEN i ELSE Before(x, x.node[i].next, n)

\* A new key goes to its place; a key that is there gives way to it if it
\* belongs elsewhere, else the new key goes to a free node next in the chain.
Place(x, k, v) ==
    LET mp    == MainPosition(x, k)
        there == x.node[mp]
        n     == Max(FreeNodes(x))
        other == MainPosition(x, there.key)
        prev  == Before(x, other, mp)
        y     == [x EXCEPT !.lastfree = n]
    IN IF there.val = Nil /\ ~x.dummy THEN [x EXCEPT !.node[mp].key = k, !.node[mp].val = v]
       ELSE IF FreeNodes(x) = {} THEN Store(Rehash(x, k), k, v)
       ELSE IF other # mp
       THEN [y EXCEPT !.node = [@ EXCEPT ![prev].next = n, ![n] = there,
                                         ![mp] = [key |-> k, val |-> v, next |-> -1]]]
       ELSE [y EXCEPT !.node = [@ EXCEPT ![n] = [key |-> k, val |-> v, next |-> there.next], ![mp].next = n]]

\* luaH_set, and the assignment to what it returns.
Store(x, k, v) ==
    LET i == Find(x, MainPosition(x, k), {k})
    IN IF InArray(x, k) THEN [x EXCEPT !.array[k[2]] = v]
       ELSE IF i # -1 THEN [x EXCEPT !.node[i].val = v]
       ELSE Place(x, k, v)

-----------------------------------------------------------------------------
(* Traversal and borders. *)

Start == <<"start">>
Ended == <<"ended">>
Invalid == <<"invalid">>

FindIndex_Live(x, k) ==
    IF k = Start THEN 0
    ELSE IF InArray(x, k) THEN k[2]
    ELSE LET i == Find(x, MainPosition(x, k), {k}) IN IF i = -1 THEN -1 ELSE Len(x.array) + i + 1

\* The place of a key in the order of traversal, -1 before the first. A key
\* that is dead is found by its address.
FindIndex(x, k) ==
    IF k = Start THEN 0
    ELSE IF InArray(x, k) THEN k[2]
    ELSE LET i == Find(x, MainPosition(x, k), IF k[1] \in {"str", "obj"} THEN {k, Dead(k)} ELSE {k})
         IN IF i = -1 THEN -1 ELSE Len(x.array) + i + 1

\* The key after a key.
NextKey(x, k) ==
    LET i      == FindIndex(x, k)
        size   == Len(x.array)
        filled == {j \in 1 .. size : x.array[j] # Nil}
                  \cup {size + 1 + j : j \in {n \in DOMAIN x.node : x.node[n].val # Nil}}
        later  == {j \in filled : j > i}
    IN IF i = -1 THEN Invalid
       ELSE IF later = {} THEN Ended
       ELSE IF Min(later) <= size THEN <<"int", Min(later)>> ELSE x.node[Min(later) - size - 1].key

Has(x, n) == n > 0 /\ Get(x, <<"int", n>>) # Nil

\* Between a number that is in use and one that is not.
RECURSIVE Halve(_, _, _)
Halve(x, i, j) ==
    IF j - i <= 1 THEN i
    ELSE LET m == (i + j) \div 2 IN IF Has(x, m) THEN Halve(x, m, j) ELSE Halve(x, i, m)

RECURSIVE Linear(_, _), Unbound(_, _, _)
Linear(x, i) == IF Has(x, i) THEN Linear(x, i + 1) ELSE i - 1

Unbound(x, i, j) ==
    IF ~Has(x, j) THEN Halve(x, i, j)
    ELSE IF 2 * j > IntMax - 2 THEN Linear(x, 1)
    ELSE Unbound(x, j, 2 * j)

GetN_Array(x) == Len(x.array)

GetN(x) ==
    LET j == Len(x.array)
    IN IF j > 0 /\ x.array[j] = Nil THEN Halve(x, 0, j)
       ELSE IF x.dummy THEN j
       ELSE Unbound(x, j, j + 1)

-----------------------------------------------------------------------------
(* What the interpreter does with a table. *)

Init ==
    /\ \E n \in ArraySizes, h \in HashSizes : t = NewTable(n, h)
    /\ at = Ended /\ seen = {} /\ due = {}

Present(x) == {k \in Keys : Get(x, k) # Nil}

\* t[k] = v. A field that is assigned to for the first time, or again after it
\* was made empty, ends the traversal: next promises nothing then.
Assign(k, v) ==
    /\ t' = Store(t, k, v)
    /\ t' # t
    /\ IF Get(t, k) = Nil THEN at' = Ended /\ seen' = {} /\ due' = {}
       ELSE due' = (IF v = Nil THEN due \ {k} ELSE due) /\ UNCHANGED <<at, seen>>

\* OP_SETLIST makes room for its items (luaH_resizearray).
ResizeArray(n) ==
    /\ n > Len(t.array)
    /\ t' = Resize(t, n, IF t.dummy THEN 0 ELSE SizeNode(t))
    /\ at' = Ended /\ seen' = {} /\ due' = {}

\* The collector goes through the table: keys of empty fields may be freed.
Collect ==
    /\ t' = [t EXCEPT !.node = [i \in DOMAIN @ |-> IF @[i].val = Nil /\ @[i].key[1] \in {"str", "obj"}
                                                   THEN [@[i] EXCEPT !.key = Dead(@)] ELSE @[i]]]
    /\ UNCHANGED <<at, seen, due>>

Traverse ==
    /\ at = Ended /\ Present(t) # {}
    /\ at' = Start /\ seen' = {} /\ due' = Present(t)
    /\ UNCHANGED t

Step ==
    /\ at \notin {Ended, Invalid}
    /\ at' = NextKey(t, at)
    /\ IF at' = Ended THEN seen' = {} /\ due' = {}
       ELSE seen' = seen \cup {at'} /\ UNCHANGED due
    /\ UNCHANGED t

Next ==
    \/ \E k \in Keys : \E v \in {Nil, Value(k)} : Assign(k, v)
    \/ \E n \in ArraySizes : ResizeArray(n)
    \/ Collect
    \/ Traverse
    \/ Step

Spec == Init /\ [][Next]_vars

-----------------------------------------------------------------------------
(* Properties. *)

\* Each key has the value it was given last, whatever was moved, resized or
\* marked dead (luaH_set, newkey, rehash, removeentry).
IsMap == INSTANCE LuaMap WITH Nil <- Nil, ValueOf <- Value, content <- [k \in Keys |-> Get(t, k)],
                              length <- GetN(t)
KeepsValues == IsMap!Spec

\* A traversal in which fields are only changed or made empty, while the
\* collector runs as it likes, gives no key twice and misses none that stays
\* (luaH_next, findindex).
EachOnce ==
    [][at # Ended /\ at' # at /\ t' = t =>
            /\ at' # Invalid
            /\ IF at' = Ended THEN due \subseteq seen ELSE at' \notin seen]_vars

=============================================================================
