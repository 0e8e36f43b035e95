------------------------------ MODULE MapTable ------------------------------
(***************************************************************************)
(* The non-blocking hash map of include/generic/map.h: an open-addressing  *)
(* table that several threads read and write with compare-and-swap, and    *)
(* that grows by migrating its slots, a chunk at a time, into a newer      *)
(* table.                                                                  *)
(*                                                                         *)
(* Every action is one atomic access to shared memory, in program order.   *)
(* A load followed by a CAS loop that re-reads the same word is a single   *)
(* action, taken when the CAS succeeds: the earlier load is not            *)
(* observable.  Tables are numbered in the order in which they become      *)
(* hm->latest, and are never reused here; their reclamation is modelled in *)
(* MapReclaim and FreeList.  A failed assert() ends the program.           *)
(*                                                                         *)
(* A definition named X_Bug, right before X, is X with a plausible mistake *)
(* in it; nothing uses it.  It shows that some property depends on X.      *)
(***************************************************************************)
EXTENDS Integers, FiniteSets, FiniteSetsExt

CONSTANTS
    Threads,      \* threads that call the map
    Keys,         \* keys, each standing for all pointers TYPE(cmp) finds equal
    Values,       \* values (pointers)
    Denotes,      \* Denotes[v]: the key that TYPE(cmp) finds v equal to, or NULL
    Calls,        \* Calls[th]: the calls thread th may make, [op, key, val]
    MaxTables,    \* bound on the number of tables ever created
    Cap,          \* Cap[t]: number of slots of the t-th table
    Home,         \* Home[k][t]: the slot hash2index gives key k in table t
    MoveAmount,   \* MAP_MOVE_AMOUNT
    NULL,
    TOMBSTONE     \* &MAP_TOMBSTONE

Tables   == 1..MaxTables
Slots(t) == 0..(Cap[t] - 1)
OpNames  == {"put", "remove", "get", "resize_barrier"}
Content  == Values \union {NULL, TOMBSTONE}

ASSUME SizeAssumption ==
    /\ MaxTables \in Nat \ {0}
    /\ MoveAmount \in Nat \ {0}
    /\ Cap \in [Tables -> Nat \ {0}]
    /\ Home \in [Keys -> [Tables -> Nat]]
    /\ \A k \in Keys, t \in Tables : Home[k][t] \in Slots(t)

ASSUME CallAssumption ==
    /\ NULL \notin Keys \union Values \union {TOMBSTONE} \union Tables
    /\ TOMBSTONE \notin Values
    /\ Denotes \in [Values -> Keys \union {NULL}]
    /\ Calls \in [Threads -> SUBSET [op : OpNames, key : Keys, val : Content]]
    /\ \A th \in Threads : \A c \in Calls[th] :
          /\ c.op = "put" => c.val \in Values
          /\ c.op = "remove" => c.val = TOMBSTONE

(***************************************************************************)
(* The word held by a slot's val: a pointer, and MAP_PRIME_BIT, which      *)
(* freezes the slot.                                                       *)
(***************************************************************************)
Word     == [v : Content, prime : BOOLEAN]
Plain(x) == [v |-> x, prime |-> FALSE]
Empty    == Plain(NULL)
Frozen_Loses(w) == [v |-> NULL, prime |-> TRUE]
Frozen(w) == IF w.prime THEN w
             ELSE [v |-> IF w.v = TOMBSTONE THEN NULL ELSE w.v, prime |-> TRUE]

VARIABLES
    latest,       \* hm->latest
    prev,         \* prev[t]: table->prev
    key, val,     \* key[t][s], val[t][s]: table->data[s]
    count, moved, move_done,
    retired,      \* tables handed to the freeing thread
    pc,           \* per thread: the next shared access
    call,         \* per thread: the call being served
    top,          \* locals latest, prev of put/remove/get/resize_barrier
    mv,           \* locals old, i, new, k of move_items
    pm,           \* frame of put_if_match
    scan,         \* frame of raw_lookup, and of the probe loop of get
    ret           \* the word a call returns

chain  == <<latest, prev, retired>>
slots  == <<key, val, count>>
chunks == <<moved, move_done>>
tables == <<chain, slots, chunks>>
vars   == <<tables, pc, call, top, mv, pm, scan, ret>>

Asserts == {"assert(key)", "assert(prev->prev == NULL)"}

\* Threads inside put_if_match, but for its calls of raw_lookup.
PutLabels == {"pm_top", "pm_latest", "pm_prev", "pm_val", "pm_key", "pm_count",
              "pm_barrier", "pm_adopt", "pm_write"}

Labels ==
    {"idle", "load_latest", "load_prev", "reload", "exit",
     "mv_claim", "mv_key", "mv_prime", "mv_done", "mv_detach",
     "rl_val", "rl_key", "get_val", "get_key"} \union PutLabels \union Asserts

NoCall  == [op |-> "resize_barrier", key |-> NULL, val |-> NULL]
NoTop   == [latest |-> 1, prev |-> NULL]
NoMove  == [old |-> 0, i |-> 0, new |-> 0, k |-> NULL]
NoFrame == [latest |-> 1, prev |-> NULL, key |-> NULL, val |-> NULL,
            i |-> 0, v |-> Empty, mover |-> FALSE]
NoScan  == [table |-> 1, key |-> NULL, i |-> 0, v |-> Empty]

Init ==
    /\ latest = 1
    /\ prev = [t \in Tables |-> NULL]
    /\ key = [t \in Tables |-> [s \in Slots(t) |-> NULL]]
    /\ val = [t \in Tables |-> [s \in Slots(t) |-> Empty]]
    /\ count = [t \in Tables |-> 0]
    /\ moved = [t \in Tables |-> 0]
    /\ move_done = [t \in Tables |-> 0]
    /\ retired = {}
    /\ pc = [th \in Threads |-> "idle"]
    /\ call = [th \in Threads |-> NoCall]
    /\ top = [th \in Threads |-> NoTop]
    /\ mv = [th \in Threads |-> NoMove]
    /\ pm = [th \in Threads |-> NoFrame]
    /\ scan = [th \in Threads |-> NoScan]
    /\ ret = [th \in Threads |-> Empty]

-----------------------------------------------------------------------------
Aborted         == \E th \in Threads : pc[th] \in Asserts
At(th, label)   == ~Aborted /\ pc[th] = label
Goto(th, label) == pc' = [pc EXCEPT ![th] = label]

\* i = (i == cap-1) ? 0 : i + 1
NextSlot_Late(t, i) == IF i = Cap[t] THEN 0 ELSE i + 1
NextSlot(t, i)      == IF i = Cap[t] - 1 THEN 0 ELSE i + 1

\* limit = cap * MAP_LOAD_FACTOR / 100
Limit(t) == (Cap[t] * 75) \div 100

\* A call returns word w; its frames die.
Return(th, w) ==
    /\ Goto(th, "exit")
    /\ ret' = [ret EXCEPT ![th] = w]
    /\ top' = [top EXCEPT ![th] = NoTop]
    /\ mv' = [mv EXCEPT ![th] = NoMove]
    /\ pm' = [pm EXCEPT ![th] = NoFrame]
    /\ scan' = [scan EXCEPT ![th] = NoScan]

\* Enter put_if_match(hm, l, p, k, v, &MAP_NO_MATCH_OLD).
CallPutIfMatch(th, l, p, k, v, fromMover) ==
    /\ Goto(th, "pm_top")
    /\ pm' = [pm EXCEPT ![th] = [latest |-> l, prev |-> p, key |-> k, val |-> v,
                                 i |-> 0, v |-> Empty, mover |-> fromMover]]

\* A probe of table t for key k, from the home slot of key h.
Probe(t, k, h) == [table |-> t, key |-> k, i |-> Home[h][t], v |-> Empty]

\* The part of each operation that follows its help with the migration.
Serve(th, l, p) ==
    \/ /\ call[th].op \in {"put", "remove"}
       /\ CallPutIfMatch(th, l, p, call[th].key, call[th].val, FALSE)
       /\ UNCHANGED scan
    \/ /\ call[th].op = "get"
       /\ Goto(th, "get_val")
       /\ scan' = [scan EXCEPT ![th] = Probe(l, call[th].key, call[th].key)]
       /\ UNCHANGED pm
    \/ /\ call[th].op = "resize_barrier"
       /\ Goto(th, "load_prev")
       /\ UNCHANGED <<pm, scan>>

-----------------------------------------------------------------------------
(***************************************************************************)
(* put, remove, get, resize_barrier: load latest, then latest->prev; if    *)
(* there is an older table, help to migrate it first.                      *)
(***************************************************************************)
Begin(th) ==
    /\ At(th, "idle")
    /\ \E c \in Calls[th] : call' = [call EXCEPT ![th] = c]
    /\ Goto(th, "load_latest")
    /\ UNCHANGED <<tables, top, mv, pm, scan, ret>>

LoadLatest(th) ==
    /\ At(th, "load_latest")
    /\ top' = [top EXCEPT ![th].latest = latest]
    /\ Goto(th, "load_prev")
    /\ UNCHANGED <<tables, call, mv, pm, scan, ret>>

LoadPrev(th) ==
    LET p == prev[top[th].latest] IN
    /\ At(th, "load_prev")
    /\ \/ /\ p # NULL
          /\ top' = [top EXCEPT ![th].prev = p]
          /\ Goto(th, "mv_claim")
          /\ UNCHANGED <<mv, pm, scan, ret>>
       \/ /\ p = NULL /\ call[th].op # "resize_barrier"
          /\ top' = [top EXCEPT ![th].prev = NULL]
          /\ Serve(th, top[th].latest, NULL)
          /\ UNCHANGED <<mv, ret>>
       \/ /\ p = NULL /\ call[th].op = "resize_barrier"
          /\ Return(th, Empty)
    /\ UNCHANGED <<tables, call>>

\* After a detach the caller reloads latest; put, remove and get only.
Reload(th) ==
    /\ At(th, "reload")
    /\ top' = [top EXCEPT ![th].latest = latest]
    /\ Serve(th, latest, NULL)
    /\ UNCHANGED <<tables, call, mv, ret>>

Exit(th) ==
    /\ At(th, "exit")
    /\ Goto(th, "idle")
    /\ ret' = [ret EXCEPT ![th] = Empty]
    /\ call' = [call EXCEPT ![th] = NoCall]
    /\ UNCHANGED <<tables, top, mv, pm, scan>>

-----------------------------------------------------------------------------
(***************************************************************************)
(* move_items.                                                             *)
(***************************************************************************)
\* old..new-1 is the chunk a thread takes, i the slot it is at.
Chunk(old, i, new) == [old |-> old, i |-> i, new |-> new, k |-> NULL]

\* resize_barrier asks for all the slots.
MvClaim(th) ==
    LET p   == top[th].prev
        old == moved[p]
        end == old + IF call[th].op = "resize_barrier" THEN Cap[p] ELSE MoveAmount
        new == IF end > Cap[p] THEN Cap[p] ELSE end
    IN
    /\ At(th, "mv_claim")
    /\ \/ /\ old = Cap[p]
          /\ Serve(th, top[th].latest, p)
          /\ UNCHANGED <<moved, mv>>
       \/ /\ old # Cap[p]
          /\ moved' = [moved EXCEPT ![p] = new]
          /\ mv' = [mv EXCEPT ![th] = Chunk(old, old, new)]
          /\ Goto(th, "mv_key")
          /\ UNCHANGED <<pm, scan>>
    /\ UNCHANGED <<chain, slots, move_done, call, top, ret>>

MvKey(th) ==
    /\ At(th, "mv_key")
    /\ mv' = [mv EXCEPT ![th].k = key[top[th].prev][mv[th].i]]
    /\ Goto(th, "mv_prime")
    /\ UNCHANGED <<tables, call, top, pm, scan, ret>>

\* Go on with the next slot of the chunk, or account for the chunk.
MvAdvance_Short(th) ==
    /\ mv' = [mv EXCEPT ![th] = Chunk(mv[th].old, mv[th].i + 1, mv[th].new)]
    /\ Goto(th, IF mv[th].i + 2 < mv[th].new THEN "mv_key" ELSE "mv_done")
MvAdvance(th) ==
    /\ mv' = [mv EXCEPT ![th] = Chunk(mv[th].old, mv[th].i + 1, mv[th].new)]
    /\ Goto(th, IF mv[th].i + 1 < mv[th].new THEN "mv_key" ELSE "mv_done")

\* Freeze the slot; if it held a value, put that value into the new table.
\* The key was loaded before the freeze: put_if_match asserts it is not NULL.
MvPrime(th) ==
    LET p    == top[th].prev
        w    == val[p][mv[th].i]
        live == ~w.prime /\ w.v \notin {NULL, TOMBSTONE}
    IN
    /\ At(th, "mv_prime")
    /\ val' = [val EXCEPT ![p][mv[th].i] = Frozen(w)]
    /\ \/ /\ ~live
          /\ MvAdvance(th)
          /\ UNCHANGED pm
       \/ /\ live /\ mv[th].k # NULL
          /\ CallPutIfMatch(th, top[th].latest, NULL, mv[th].k, w.v, TRUE)
          /\ UNCHANGED mv
       \/ /\ live /\ mv[th].k = NULL
          /\ Goto(th, "assert(key)")
          /\ UNCHANGED <<mv, pm>>
    /\ UNCHANGED <<chain, key, count, chunks, call, top, scan, ret>>

ChunkSize(th)       == mv[th].new - mv[th].old

\* The test that makes a thread the one to detach table p.
IsLast(p, done)         == done = Cap[p]

\* Account for the chunk; the thread that completes the count detaches.
MvDone(th) ==
    LET p    == top[th].prev
        done == move_done[p] + ChunkSize(th)
    IN
    /\ At(th, "mv_done")
    /\ move_done' = [move_done EXCEPT ![p] = done]
    /\ mv' = [mv EXCEPT ![th] = NoMove]
    /\ \/ IsLast(p, done) /\ Goto(th, "mv_detach") /\ UNCHANGED <<pm, scan>>
       \/ ~IsLast(p, done) /\ Serve(th, top[th].latest, p)
    /\ UNCHANGED <<chain, slots, moved, call, top, ret>>

\* latest->prev = NULL; the old table goes to the freeing thread's queue.
MvDetach(th) ==
    /\ At(th, "mv_detach")
    /\ prev' = [prev EXCEPT ![top[th].latest] = NULL]
    /\ retired' = retired \union {top[th].prev}
    /\ top' = [top EXCEPT ![th].prev = NULL]
    /\ Goto(th, IF call[th].op = "resize_barrier" THEN "load_prev" ELSE "reload")
    /\ UNCHANGED <<latest, slots, chunks, call, mv, pm, scan, ret>>

-----------------------------------------------------------------------------
(***************************************************************************)
(* put_if_match.                                                           *)
(***************************************************************************)
\* It returns w, to the migration loop or to the client's call.
PmReturn(th, w) ==
    \/ /\ pm[th].mover
       /\ MvAdvance(th)
       /\ pm' = [pm EXCEPT ![th] = NoFrame]
       /\ UNCHANGED <<top, scan, ret>>
    \/ /\ ~pm[th].mover
       /\ Return(th, w)

\* Top of the loop: grow the table when it is full enough and no migration
\* is known of, else start to probe at the key's home slot.
PmTop(th) ==
    LET l    == pm[th].latest
        full == pm[th].prev = NULL /\ count[l] >= Limit(l)
    IN
    /\ At(th, "pm_top")
    /\ \/ /\ full /\ latest = l /\ l < MaxTables
          /\ latest' = l + 1
          /\ prev' = [prev EXCEPT ![l + 1] = l]
          /\ pm' = [pm EXCEPT ![th].latest = l + 1, ![th].prev = l]
          /\ UNCHANGED pc
       \/ /\ full /\ latest # l
          /\ pm' = [pm EXCEPT ![th].latest = latest]
          /\ Goto(th, "pm_prev")
          /\ UNCHANGED <<latest, prev>>
       \/ /\ ~full
          /\ pm' = [pm EXCEPT ![th].i = Home[pm[th].key][l]]
          /\ Goto(th, "pm_val")
          /\ UNCHANGED <<latest, prev>>
    /\ UNCHANGED <<retired, slots, chunks, call, top, mv, scan, ret>>

\* The probe went all around: retry on the table that is latest by now.
PmLatest(th) ==
    /\ At(th, "pm_latest")
    /\ pm' = [pm EXCEPT ![th].latest = latest]
    /\ Goto(th, "pm_prev")
    /\ UNCHANGED <<tables, call, top, mv, scan, ret>>

LoadedPrev_Below(t) == IF t > 1 THEN t - 1 ELSE NULL
LoadedPrev(t)       == prev[t]
PmPrev(th) ==
    /\ At(th, "pm_prev")
    /\ pm' = [pm EXCEPT ![th].prev = LoadedPrev(pm[th].latest)]
    /\ Goto(th, "pm_top")
    /\ UNCHANGED <<tables, call, top, mv, scan, ret>>

\* Key-claiming phase: the slot's value is loaded first, then its key.
PmVal(th) ==
    /\ At(th, "pm_val")
    /\ pm' = [pm EXCEPT ![th].v = val[pm[th].latest][pm[th].i]]
    /\ Goto(th, "pm_key")
    /\ UNCHANGED <<tables, call, top, mv, scan, ret>>

\* The CAS on the slot's key finds it free.
Claimable_NoCas(th, k) == pm[th].v = Empty /\ k # pm[th].key
Claimable(th, k)       == k = NULL

PmKey(th) ==
    LET l == pm[th].latest
        i == pm[th].i
        k == key[l][i]
        next == NextSlot(l, i)
        other == ~Claimable(th, k) /\ k # pm[th].key
    IN
    /\ At(th, "pm_key")
    /\ \/ /\ k = NULL /\ pm[th].val = TOMBSTONE     \* nothing to remove
          /\ PmReturn(th, Empty)
          /\ UNCHANGED key
       \/ /\ Claimable(th, k) /\ pm[th].val # TOMBSTONE
          /\ key' = [key EXCEPT ![l][i] = pm[th].key]
          /\ Goto(th, "pm_count")
          /\ UNCHANGED <<top, mv, pm, scan, ret>>
       \/ /\ k = pm[th].key
          /\ Goto(th, "pm_barrier")
          /\ UNCHANGED <<key, top, mv, pm, scan, ret>>
       \/ /\ other /\ next # Home[pm[th].key][l]
          /\ pm' = [pm EXCEPT ![th].i = next]
          /\ Goto(th, "pm_val")
          /\ UNCHANGED <<key, top, mv, scan, ret>>
       \/ /\ other /\ next = Home[pm[th].key][l]
          /\ Goto(th, "pm_latest")
          /\ UNCHANGED <<key, top, mv, pm, scan, ret>>
    /\ UNCHANGED <<chain, val, count, chunks, call>>

\* The table whose count the claim of a slot adds to.
Counted_Latest(th) == latest
Counted(th)        == pm[th].latest

PmCount(th) ==
    /\ At(th, "pm_count")
    /\ count' = [count EXCEPT ![Counted(th)] = @ + 1]
    /\ Goto(th, "pm_barrier")
    /\ UNCHANGED <<chain, key, val, chunks, call, top, mv, pm, scan, ret>>

\* A primed value means the slot has been migrated away: back to the top.
AfterBarrier_Spins(w) == IF w.prime THEN "pm_barrier" ELSE "pm_write"
AfterBarrier(w)       == IF w.prime THEN "pm_top" ELSE "pm_write"

\* The lookup of the barrier is given val, not key, as the key to look for.
Sought(v) == IF v \in Values THEN Denotes[v] ELSE NULL

\* Migration barrier: an empty slot may have a value in the older table.
PmBarrier(th) ==
    LET p == pm[th].prev
        mayBeOlder == pm[th].v = Empty /\ p # NULL
    IN
    /\ At(th, "pm_barrier")
    /\ \/ /\ mayBeOlder /\ prev[p] = NULL
          /\ scan' = [scan EXCEPT ![th] = Probe(p, Sought(pm[th].val), pm[th].key)]
          /\ Goto(th, "rl_val")
       \/ /\ mayBeOlder /\ prev[p] # NULL
          /\ Goto(th, "assert(prev->prev == NULL)")
          /\ UNCHANGED scan
       \/ /\ ~mayBeOlder
          /\ Goto(th, AfterBarrier(pm[th].v))
          /\ UNCHANGED scan
    /\ UNCHANGED <<tables, call, top, mv, pm, ret>>

\* Copy what the lookup found, less its prime bit, into the empty slot.
PmAdopt(th) ==
    LET l == pm[th].latest
        i == pm[th].i
        w == IF val[l][i] = Empty THEN Plain(scan[th].v.v) ELSE val[l][i]
    IN
    /\ At(th, "pm_adopt")
    /\ scan' = [scan EXCEPT ![th] = NoScan]
    /\ \/ /\ scan[th].v = Empty
          /\ Goto(th, "pm_write")
          /\ UNCHANGED <<val, pm>>
       \/ /\ scan[th].v # Empty
          /\ val' = [val EXCEPT ![l][i] = w]
          /\ pm' = [pm EXCEPT ![th].v = w]
          /\ Goto(th, AfterBarrier(w))
    /\ UNCHANGED <<chain, key, count, chunks, call, top, mv, ret>>

\* The CAS that writes the value succeeds; a lost one may show a freeze.
CasWins_Store(th, w) == TRUE
CasWins(th, w)       == w = pm[th].v
Displaced_Never(w) == FALSE
Displaced(w)       == w.prime

\* Write the value by CAS on the word read before; a lost race against a
\* writer takes the winner's value, one against a freeze starts over.
PmWrite(th) ==
    LET l == pm[th].latest
        i == pm[th].i
        w == val[l][i]
        new  == Plain(pm[th].val)
        lost == pm[th].v # new /\ ~CasWins(th, w)
    IN
    /\ At(th, "pm_write")
    /\ \/ /\ pm[th].v = new
          /\ PmReturn(th, new)
          /\ UNCHANGED val
       \/ /\ pm[th].v # new /\ CasWins(th, w)
          /\ val' = [val EXCEPT ![l][i] = new]
          /\ PmReturn(th, new)
       \/ /\ lost /\ ~Displaced(w)
          /\ PmReturn(th, w)
          /\ UNCHANGED val
       \/ /\ lost /\ Displaced(w)
          /\ Goto(th, "pm_top")
          /\ pm' = [pm EXCEPT ![th].v = Empty]
          /\ UNCHANGED <<val, top, mv, scan, ret>>
    /\ UNCHANGED <<chain, key, count, chunks, call>>

-----------------------------------------------------------------------------
(***************************************************************************)
(* raw_lookup in an older table, for the barrier and for get; and the      *)
(* probe loop of get in the latest one.                                    *)
(***************************************************************************)
ScanVal(th) ==
    /\ \/ At(th, "rl_val") /\ Goto(th, "rl_key")
       \/ At(th, "get_val") /\ Goto(th, "get_key")
    /\ scan' = [scan EXCEPT ![th].v = val[scan[th].table][scan[th].i]]
    /\ UNCHANGED <<tables, call, top, mv, pm, ret>>

ScanNext(th, next, label) ==
    /\ scan' = [scan EXCEPT ![th].i = next]
    /\ Goto(th, label)
    /\ UNCHANGED <<top, mv, pm, ret>>

\* raw_lookup was called by the barrier of put_if_match, else by get.
InPutIfMatch(th) == pm[th].key # NULL

RlReturn(th, w) ==
    \/ /\ ~InPutIfMatch(th)
       /\ Return(th, w)
    \/ /\ InPutIfMatch(th)
       /\ Goto(th, "pm_adopt")
       /\ scan' = [scan EXCEPT ![th].v = w]
       /\ UNCHANGED <<top, mv, pm, ret>>

RlKey(th) ==
    LET t == scan[th].table
        k == key[t][scan[th].i]
        next == NextSlot(t, scan[th].i)
        first == Home[IF InPutIfMatch(th) THEN pm[th].key ELSE call[th].key][t]
        w == scan[th].v
    IN
    /\ At(th, "rl_key")
    /\ \/ /\ k = NULL \/ (k # scan[th].key /\ next = first)
          /\ RlReturn(th, Empty)
       \/ /\ k # NULL /\ k = scan[th].key
          /\ RlReturn(th, IF w = Plain(TOMBSTONE) THEN Empty ELSE w)
       \/ /\ k \notin {NULL, scan[th].key} /\ next # first
          /\ ScanNext(th, next, "rl_val")
    /\ UNCHANGED <<tables, call>>

GetKey(th) ==
    LET t == scan[th].table
        k == key[t][scan[th].i]
        next == NextSlot(t, scan[th].i)
        first == Home[call[th].key][t]
        p == top[th].prev
    IN
    /\ At(th, "get_key")
    /\ \/ /\ k = NULL /\ p # NULL
          /\ scan' = [scan EXCEPT ![th] = Probe(p, call[th].key, call[th].key)]
          /\ Goto(th, "rl_val")
          /\ UNCHANGED <<top, mv, pm, ret>>
       \/ /\ \/ k = NULL /\ p = NULL
             \/ k # NULL /\ (k = scan[th].key \/ next = first)
          /\ Return(th, scan[th].v)
       \/ /\ k \notin {NULL, scan[th].key} /\ next # first
          /\ ScanNext(th, next, "get_val")
    /\ UNCHANGED <<tables, call>>

-----------------------------------------------------------------------------
Step(th) ==
    \/ Begin(th)    \/ LoadLatest(th) \/ LoadPrev(th) \/ Reload(th)  \/ Exit(th)
    \/ MvClaim(th)  \/ MvKey(th)      \/ MvPrime(th)  \/ MvDone(th)  \/ MvDetach(th)
    \/ PmTop(th)    \/ PmLatest(th)   \/ PmPrev(th)   \/ PmVal(th)   \/ PmKey(th)
    \/ PmCount(th)  \/ PmBarrier(th)  \/ PmAdopt(th)  \/ PmWrite(th)
    \/ ScanVal(th)  \/ RlKey(th)      \/ GetKey(th)

Next == \E th \in Threads : Step(th)

Spec == Init /\ [][Next]_vars

\* The system scheduler runs every thread that can run; a client need not
\* start another call.
Fairness == \A th \in Threads : WF_vars(Step(th) /\ pc[th] # "idle")

FairSpec == Spec /\ Fairness

-----------------------------------------------------------------------------
(***************************************************************************)
(* Types, and where each frame is in use: the slots and tables that its    *)
(* owner is about to access exist.                                         *)
(***************************************************************************)
MaybeTable == Tables \union {NULL}
CallType   == [op : OpNames, key : Keys \union {NULL}, val : Content]
TopType    == [latest : Tables, prev : MaybeTable]
MoveType   == [old : Nat, i : Nat, new : Nat, k : Keys \union {NULL}]
FrameType  == [latest : Tables, prev : MaybeTable, key : Keys \union {NULL},
               val : Content, i : Nat, v : Word, mover : BOOLEAN]
ScanType   == [table : Tables, key : Keys \union {NULL}, i : Nat, v : Word]

TablesTyped ==
    /\ latest \in Tables
    /\ prev \in [Tables -> MaybeTable]
    /\ DOMAIN key = Tables /\ DOMAIN val = Tables
    /\ \A t \in Tables : /\ key[t] \in [Slots(t) -> Keys \union {NULL}]
                         /\ val[t] \in [Slots(t) -> Word]
                         /\ moved[t] <= Cap[t]
    /\ count \in [Tables -> Nat]
    /\ moved \in [Tables -> Nat]
    /\ move_done \in [Tables -> Nat]
    /\ retired \subseteq Tables

LocalsTyped ==
    /\ pc \in [Threads -> Labels]
    /\ call \in [Threads -> CallType]
    /\ top \in [Threads -> TopType]
    /\ mv \in [Threads -> MoveType]
    /\ pm \in [Threads -> FrameType]
    /\ scan \in [Threads -> ScanType]
    /\ ret \in [Threads -> Word]

\* Threads in the loop of move_items, put_if_match and raw_lookup or get.
Moving(th)   == pc[th] \in {"mv_key", "mv_prime"} \/ pm[th].mover
Putting(th)  == pc[th] \in PutLabels \/ InPutIfMatch(th)
Scanning(th) == pc[th] \in {"rl_val", "rl_key", "get_val", "get_key"}

\* put_if_match is at a slot, or in the lookup it makes for that slot.
AtSlot(th) == \/ pc[th] \in PutLabels \ {"pm_top", "pm_latest", "pm_prev"}
              \/ pc[th] \in {"rl_val", "rl_key"} /\ InPutIfMatch(th)

FrameInUse(th) ==
    /\ pc[th] # "idle" =>
          /\ call[th].key \in Keys
          /\ call[th].op \in {"put", "remove"} => call[th].val # NULL
    /\ pc[th] \in PutLabels \union {"rl_val", "rl_key"} \union Asserts
          \/ pm[th] = NoFrame
    /\ Moving(th) \/ pc[th] \in {"mv_claim", "mv_done", "mv_detach"} =>
          top[th].prev \in Tables
    /\ Moving(th) => mv[th].old <= mv[th].i /\ mv[th].i < mv[th].new
                        /\ mv[th].new <= Cap[top[th].prev]
    /\ pc[th] = "mv_done" => mv[th].old <= mv[th].new
    /\ Putting(th) => pm[th].key \in Keys /\ pm[th].val # NULL
    /\ AtSlot(th) => pm[th].i \in Slots(pm[th].latest)
    /\ Scanning(th) => scan[th].i \in Slots(scan[th].table)

TypeOK ==
    /\ TablesTyped
    /\ LocalsTyped
    /\ \A th \in Threads : FrameInUse(th)

\* Number of steps of NextSlot from slot first to slot s of table t.
Distance(t, first, s) == IF s >= first THEN s - first ELSE s - first + Cap[t]

\* The slots a probe for k passes before it comes to slot s are all claimed,
\* by other keys.
Passed(t, k, s) ==
    \A x \in Slots(t) : Distance(t, Home[k][t], x) < Distance(t, Home[k][t], s) =>
        key[t][x] \notin {NULL, k}

\* Every claimed key is found by the probe loops of put_if_match, raw_lookup
\* and get: no empty slot and no second copy of the key comes before it; and
\* a thread about to claim a slot has looked at all the slots before it.
KeysOnPath ==
    /\ \A t \in Tables : \A s \in Slots(t) : key[t][s] # NULL => Passed(t, key[t][s], s)
    /\ \A th \in Threads : pc[th] \in {"pm_val", "pm_key"} =>
          Passed(pm[th].latest, pm[th].key, pm[th].i)

\* A key owns at most one slot of a table, whichever threads raced to claim
\* an empty slot for it: else two callers would see two values of one key
\* (the key-claiming phase of put_if_match).
UniqueKeys ==
    \A t \in Tables : \A s1, s2 \in Slots(t) :
        key[t][s1] # NULL /\ key[t][s1] = key[t][s2] => s1 = s2

\* Claimed slots are those counted plus those whose claimer has not yet
\* reached its fetch_add: the count that triggers a resize is never ahead.
CountLags ==
    \A t \in Tables :
        count[t] + Cardinality({th \in Threads : pc[th] = "pm_count" /\ pm[th].latest = t})
            = Cardinality({s \in Slots(t) : key[t][s] # NULL})

\* When a table is handed to the freeing thread nothing can be written to it
\* any more, and each key it still had a value for has one in a newer table.
RetiredMigrated ==
    \A t \in retired : \A s \in Slots(t) :
        /\ val[t][s].prime
        /\ val[t][s].v # NULL =>
              \E u \in Tables : u > t /\ \E r \in Slots(u) :
                  key[u][r] = key[t][s] /\ val[u][r] # Empty

\* put and remove never hand a frozen word to their client, and put never
\* returns NULL, however often the call was displaced by a migration.
WriteResults ==
    \A th \in Threads : pc[th] = "exit" /\ call[th].op \in {"put", "remove"} =>
        /\ ~ret[th].prime
        /\ call[th].op = "put" => ret[th] # Empty

\* A claimed key is never changed and a frozen word is never written again:
\* what the migration copied is what every late writer finds.
FrozenForever ==
    [][\A t \in Tables : \A s \in Slots(t) :
          /\ key[t][s] # NULL => key'[t][s] = key[t][s]
          /\ val[t][s].prime => val'[t][s] = val[t][s]]_tables

\* put_if_match works on a table in which its key's slot is frozen already.
FrozenOut(th) ==
    Putting(th) /\ \E s \in Slots(pm[th].latest) :
        /\ key[pm[th].latest][s] = pm[th].key
        /\ val[pm[th].latest][s].prime

\* put_if_match works on a table whose slots all belong to other keys.
NoRoom(th) ==
    Putting(th) /\ \A s \in Slots(pm[th].latest) :
        key[pm[th].latest][s] \notin {NULL, pm[th].key}

\* A put that is displaced with a stale prev takes itself for a helper of a
\* migration that is over: it neither grows the table nor reloads hm->latest.
Stuck(th) == FrozenOut(th) /\ pm[th].prev # NULL

\* A thread that moves an item finds no room for it: the table may not grow
\* until the thread is done with its chunk.
Jammed == \E th \in Threads : pm[th].mover /\ NoRoom(th)

\* Every call that starts returns, unless an assert() ends the program, the
\* call is stuck with a stale prev (see WritesLater), or a mover stays without
\* room (see BiggerTable).
CallsReturn ==
    \A th \in Threads :
        pc[th] # "idle" ~> (pc[th] = "idle" \/ Aborted \/ Stuck(th) \/ []Jammed)

\* "if we see a prime, the entry has been migrated and we should write to that
\* later table" (map.h:291): no put stays at a table that froze its key's slot.
\* The code does not keep it (Stuck).
WritesLater ==
    \A th \in Threads : FrozenOut(th) ~> (~FrozenOut(th) \/ Aborted)

\* "the table is entirely full, retry to use or make a bigger table"
\* (map.h:249): no put stays at a table that has no room for its key.  The
\* code does not keep it (Jammed).
BiggerTable ==
    \A th \in Threads : NoRoom(th) ~> (~NoRoom(th) \/ Aborted)
=============================================================================
