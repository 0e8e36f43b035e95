------------------------- MODULE MapReclaim_proofs --------------------------
(***************************************************************************)
(* Theorems about MapReclaim, for any number of threads and tables.        *)
(***************************************************************************)
EXTENDS MapReclaim, TLAPS

LEMMA HeadOrTail ==
  ASSUME NEW S, NEW s \in Seq(S), s # <<>>
  PROVE  /\ Head(s) \in S /\ Tail(s) \in Seq(S)
         /\ \A x \in Range(s) : x = Head(s) \/ x \in Range(Tail(s))
  <1>1. Head(s) \in S /\ Tail(s) \in Seq(S) /\ Len(s) \in Nat \ {0}
    OBVIOUS
  <1>2. ASSUME NEW x \in Range(s), x # Head(s) PROVE x \in Range(Tail(s))
    <2>1. PICK i \in 1..Len(s) : s[i] = x
      BY <1>2 DEF Range
    <2>2. i # 1 /\ i \in Nat
      BY <1>1, <1>2, <2>1
    <2>3. i - 1 \in 1..Len(Tail(s)) /\ Tail(s)[i - 1] = x
      BY <1>1, <2>1, <2>2
    <2>4. DOMAIN Tail(s) = 1..Len(Tail(s))
      BY <1>1
    <2> QED
      BY <2>3, <2>4 DEF Range
  <1> QED
    BY <1>1, <1>2

LEMMA RangePrepend ==
  ASSUME NEW S, NEW s \in Seq(S), NEW x \in S
  PROVE  /\ <<x>> \o s \in Seq(S)
         /\ \A y \in S : y \in Range(<<x>> \o s) <=> y = x \/ y \in Range(s)
  <1> DEFINE r == <<x>> \o s
  <1>1. r \in Seq(S) /\ Len(r) = Len(s) + 1 /\ r[1] = x /\ Len(s) \in Nat
    OBVIOUS
  <1>2. \A i \in 1..Len(s) : r[i + 1] = s[i]
    OBVIOUS
  <1>3. \A i \in 2..Len(r) : r[i] = s[i - 1]
    OBVIOUS
  <1>4. DOMAIN r = 1..Len(r) /\ DOMAIN s = 1..Len(s)
    BY <1>1
  <1> HIDE DEF r
  <1>5. ASSUME NEW y \in Range(s) PROVE y \in Range(r)
    <2>1. PICK i \in 1..Len(s) : s[i] = y
      BY <1>4 DEF Range
    <2>2. i + 1 \in 1..Len(r) /\ r[i + 1] = y
      BY <1>1, <1>2, <2>1
    <2> QED
      BY <1>4, <2>2 DEF Range
  <1>6. x \in Range(r)
    BY <1>1, <1>4 DEF Range
  <1>7. ASSUME NEW y \in Range(r), y # x PROVE y \in Range(s)
    <2>1. PICK i \in 1..Len(r) : r[i] = y
      BY <1>4 DEF Range
    <2>2. i \in 2..Len(r) /\ i - 1 \in 1..Len(s)
      BY <1>1, <1>7, <2>1
    <2>3. s[i - 1] = y
      BY <1>3, <2>1, <2>2
    <2> QED
      BY <1>4, <2>2, <2>3 DEF Range
  <1>8. r = <<x>> \o s
    BY DEF r
  <1> QED
    BY <1>1, <1>5, <1>6, <1>7, <1>8

-----------------------------------------------------------------------------
(***************************************************************************)
(* The chain of tables.                                                    *)
(***************************************************************************)
ChainInv ==
    /\ latest \in Tables
    /\ prev \in [Tables -> Tables \union {NULL}]
    /\ held \in [Threads -> SUBSET Tables]
    /\ retired \subseteq Tables
    /\ \A t \in Tables : prev[t] # NULL => prev[t] = t - 1 /\ t <= latest
    /\ \A t \in retired : t < latest
    /\ RetiredUnreachable

LEMMA TableFacts ==
    /\ 1 \in Tables /\ Tables \subseteq Nat /\ NULL \notin Tables
    /\ \A t \in Tables : t < MaxTables => t + 1 \in Tables
  BY ChainAssumption DEF Tables

LEMMA InitChain == ReclaimInit => ChainInv
  BY TableFacts DEF ReclaimInit, Init, ChainInv, RetiredUnreachable

\* A thread that does not have a retired table does not come by it.
HeldGains ==
    \A th \in Threads : \A t \in held'[th] : t \in retired => t \in held[th]

LEMMA FollowChain ==
  ASSUME ChainInv, NEW th \in Threads, Follow(th)
  PROVE  ChainInv' /\ HeldGains
  <1>1. UNCHANGED <<latest, prev, retired>>
    BY DEF Follow
  <1>2. PICK new \in SUBSET Tables :
            /\ held' = [held EXCEPT ![th] = new]
            /\ \A t \in new : t \in held[th] \/ t \notin retired
    <2>1. PICK kept \in SUBSET held[th] :
            \/ held' = [held EXCEPT ![th] = kept]
            \/ held' = [held EXCEPT ![th] = kept \union {latest}]
            \/ \E t \in held[th] : /\ prev[t] # NULL
                                   /\ held' = [held EXCEPT ![th] = kept \union {prev[t]}]
      BY DEF Follow, Keep
    <2>2. kept \subseteq Tables /\ held[th] \subseteq Tables
      BY <2>1 DEF ChainInv
    <2>3. latest \in Tables \ retired
      BY DEF ChainInv, RetiredUnreachable
    <2>4. \A t \in held[th] : prev[t] # NULL => prev[t] \in Tables \ retired
      BY <2>2 DEF ChainInv, RetiredUnreachable
    <2>5. CASE held' = [held EXCEPT ![th] = kept]
      BY <2>2, <2>5
    <2>6. CASE held' = [held EXCEPT ![th] = kept \union {latest}]
      BY <2>2, <2>3, <2>6
    <2>7. CASE \E t \in held[th] : /\ prev[t] # NULL
                                   /\ held' = [held EXCEPT ![th] = kept \union {prev[t]}]
      BY <2>2, <2>4, <2>7
    <2> QED
      BY <2>1, <2>5, <2>6, <2>7
  <1> QED
    BY <1>1, <1>2 DEF ChainInv, RetiredUnreachable, HeldGains

LEMMA GrowChain ==
  ASSUME ChainInv, NEW th \in Threads, Grow(th)
  PROVE  ChainInv' /\ HeldGains
  <1> DEFINE n == latest + 1
  <1>1. /\ latest' = n /\ retired' = retired
        /\ prev' = [prev EXCEPT ![n] = latest]
        /\ latest \in Nat /\ latest < MaxTables
    BY TableFacts DEF Grow, ChainInv
  <1>2. n \in Tables /\ n \notin retired /\ n > latest /\ n - 1 = latest
    BY <1>1, TableFacts DEF ChainInv
  <1>3. PICK kept \in SUBSET held[th] : held' = [held EXCEPT ![th] = kept \union {n}]
    BY DEF Grow
  <1> HIDE DEF n
  <1>4. HeldGains
    BY <1>2, <1>3 DEF HeldGains, ChainInv
  <1>5. held' \in [Threads -> SUBSET Tables]
    BY <1>2, <1>3 DEF ChainInv
  <1>6. \A t \in retired' : t < latest'
    BY <1>1, <1>2, TableFacts DEF ChainInv
  <1>7. RetiredUnreachable'
    BY <1>1, <1>2 DEF ChainInv, RetiredUnreachable
  <1>8. \A t \in Tables : prev'[t] # NULL => prev'[t] = t - 1 /\ t <= latest'
    BY <1>1, <1>2, TableFacts DEF ChainInv
  <1>9. prev' \in [Tables -> Tables \union {NULL}] /\ latest' \in Tables
    BY <1>1, <1>2 DEF ChainInv
  <1> QED
    BY <1>1, <1>4, <1>5, <1>6, <1>7, <1>8, <1>9 DEF ChainInv

LEMMA DetachChain ==
  ASSUME ChainInv, NEW th \in Threads, Detach(th)
  PROVE  ChainInv' /\ HeldGains
  <1>1. PICK t \in held[th] :
          /\ prev[t] \in held[th] \ retired
          /\ prev' = [prev EXCEPT ![t] = NULL]
          /\ retired' = retired \union {prev[t]}
          /\ held' = [held EXCEPT ![th] = @ \ {prev[t]}]
          /\ latest' = latest
    BY DEF Detach, Unlinked
  <1>2. t \in Tables /\ prev[t] \in Tables /\ prev[t] = t - 1
    BY <1>1, TableFacts DEF ChainInv
  <1>3. prev[t] < latest /\ prev[t] # NULL
    BY <1>1, <1>2, TableFacts DEF ChainInv
  <1>4. \A u \in Tables : prev'[u] # prev[t]
    BY <1>1, <1>2, <1>3, TableFacts DEF ChainInv
  <1>5. RetiredUnreachable'
    BY <1>1, <1>3, <1>4, TableFacts DEF ChainInv, RetiredUnreachable
  <1>6. held' \in [Threads -> SUBSET Tables] /\ HeldGains
    BY <1>1 DEF ChainInv, HeldGains
  <1>7. \A u \in Tables : prev'[u] # NULL => prev'[u] = u - 1 /\ u <= latest'
    BY <1>1, <1>2 DEF ChainInv
  <1>8. retired' \subseteq Tables /\ \A u \in retired' : u < latest'
    BY <1>1, <1>2, <1>3 DEF ChainInv
  <1>9. prev' \in [Tables -> Tables \union {NULL}] /\ latest' \in Tables
    BY <1>1, <1>2 DEF ChainInv
  <1> QED
    BY <1>5, <1>6, <1>7, <1>8, <1>9 DEF ChainInv

\* Every step of the program.
LEMMA StepChain ==
  ASSUME ChainInv, [ReclaimNext]_vars
  PROVE  ChainInv' /\ HeldGains /\ retired \subseteq retired'
  <1>1. ASSUME UNCHANGED <<latest, prev, retired>>,
               held' \in [Threads -> SUBSET Tables],
               \A th \in Threads : held'[th] \subseteq held[th]
        PROVE  ChainInv' /\ HeldGains /\ retired \subseteq retired'
    BY <1>1 DEF ChainInv, RetiredUnreachable, HeldGains
  <1>2. ASSUME UNCHANGED chain PROVE ChainInv' /\ HeldGains /\ retired \subseteq retired'
    BY <1>1, <1>2 DEF chain, ChainInv
  <1>3. ASSUME NEW th \in Threads, Operate(th)
        PROVE  ChainInv' /\ HeldGains /\ retired \subseteq retired'
    <2>1. retired \subseteq retired'
      BY <1>3 DEF Operate, Follow, Grow, Detach
    <2> QED
      BY <1>3, <2>1, FollowChain, GrowChain, DetachChain DEF Operate
  <1>4. ASSUME NEW th \in Threads, ExitPinned(th) \/ GetHit(th)
        PROVE  ChainInv' /\ HeldGains /\ retired \subseteq retired'
    BY <1>1, <1>4 DEF ExitPinned, GetHit, ChainInv
  <1> QED
    BY <1>2, <1>3, <1>4
    DEF ReclaimNext, ClientStep, Drain, Call, Insert, EnterPinned, ThreadExit, FreerStep,
        Pop, ReadCount, LoadList, NoteEntry, SpinEntry, EndWalk, Free, ReadGone, Astray, client,
        vars

\* Nothing that a new operation can load leads to a table that is to be freed.
THEOREM ChainSafe == ReclaimSpec => []RetiredUnreachable
  <1>1. ReclaimInit /\ [][ReclaimNext]_vars => []ChainInv
    BY InitChain, StepChain, PTL
  <1>2. ChainInv => RetiredUnreachable
    BY DEF ChainInv
  <1> QED
    BY <1>1, <1>2, PTL DEF ReclaimSpec

-----------------------------------------------------------------------------
(***************************************************************************)
(* Types of the entries and of the freeing thread.                         *)
(***************************************************************************)
EntryTypes ==
    /\ pc \in [Threads -> Places]
    /\ ebr_count \in Nat /\ id \in [Threads -> Nat] /\ ebr_list \in Seq(Threads)
    /\ \A th \in Threads : /\ pc[th] = "insert" \/ Registered(th) => id[th] < ebr_count
                           /\ pc[th] \in {"pin", "in"} => Registered(th)

TimeTypes == time \in [Threads -> TimeType] /\ buffer \in [Threads -> Seq(TimeType)]

FreerTypes ==
    /\ free_pc \in {"pop", "count", "snapshot", "note", "wait", "spin", "free", "astray"}
    /\ table \in (IF free_pc = "pop" THEN {NULL} ELSE Tables) /\ state_count \in Nat
    /\ states \in [Threads -> TimeType \union {NULL}] /\ todo \in Seq(Threads)
    /\ freed \subseteq Tables

Typed == EntryTypes /\ TimeTypes /\ FreerTypes /\ early \subseteq Threads

LEMMA TypedParts == ReclaimTypeOK <=>
    /\ latest \in Tables /\ prev \in [Tables -> Tables \union {NULL}]
    /\ retired \subseteq Tables /\ held \in [Threads -> SUBSET Tables]
    /\ Typed
  BY DEF ReclaimTypeOK, Typed, EntryTypes, TimeTypes, FreerTypes

LEMMA InitTyped == ReclaimInit => Typed
  <1> SUFFICES ASSUME ReclaimInit PROVE Typed
    OBVIOUS
  <1>1. EntryTypes
    BY DEF ReclaimInit, EntryTypes, Places, Registered, Range
  <1>2. TimeTypes
    BY DEF ReclaimInit, TimeTypes, TimeType, Reset
  <1>3. FreerTypes
    BY DEF ReclaimInit, FreerTypes
  <1>4. early \subseteq Threads
    BY DEF ReclaimInit
  <1> QED
    BY <1>1, <1>2, <1>3, <1>4 DEF Typed

LEMMA EntriesTyped ==
  ASSUME Typed, NEW th \in Threads, ClientStep(th)
  PROVE  EntryTypes'
  <1>1. CASE Call(th)
    <2>1. EntryTypes /\ ebr_list' = ebr_list /\ pc[th] = "out"
      BY <1>1 DEF Call, Typed
    <2>2. \A t2 \in Threads : Registered(t2)' <=> Registered(t2)
      BY <2>1 DEF Registered
    <2>3. CASE Registered(th)
      <3>1. pc' = [pc EXCEPT ![th] = "pin"] /\ id' = id /\ ebr_count' = ebr_count
        BY <1>1, <2>3 DEF Call
      <3> QED
        BY <2>1, <2>2, <2>3, <3>1 DEF EntryTypes, Places
    <2>4. CASE ~Registered(th)
      <3>1. /\ pc' = [pc EXCEPT ![th] = "insert"] /\ id' = [id EXCEPT ![th] = ebr_count]
            /\ ebr_count' = ebr_count + 1
        BY <1>1, <2>4 DEF Call, NextCount
      <3> QED
        BY <2>1, <2>2, <2>4, <3>1 DEF EntryTypes, Places
    <2> QED
      BY <2>3, <2>4
  <1>2. CASE Insert(th)
    <2>1. ebr_list' \in Seq(Threads)
      BY <1>2, RangePrepend DEF Insert, Typed, EntryTypes
    <2>2. \A t2 \in Threads : Registered(t2)' <=> t2 = th \/ Registered(t2)
      BY <1>2, RangePrepend DEF Insert, Typed, EntryTypes, Registered
    <2>3. pc' = [pc EXCEPT ![th] = "pin"] /\ id' = id /\ ebr_count' = ebr_count
          /\ pc[th] = "insert"
      BY <1>2 DEF Insert
    <2> QED
      BY <2>1, <2>2, <2>3 DEF Typed, EntryTypes, Places
  <1>3. CASE EnterPinned(th) \/ ExitPinned(th) \/ GetHit(th) \/ ThreadExit(th)
    BY <1>3 DEF EnterPinned, ExitPinned, GetHit, ThreadExit, ebr, Typed, EntryTypes, Places,
                Registered
  <1>4. CASE Drain(th) \/ Operate(th)
    BY <1>4 DEF Drain, Operate, ebr, Typed, EntryTypes, Registered
  <1> QED
    BY <1>1, <1>2, <1>3, <1>4 DEF ClientStep

LEMMA OwnTyped ==
  ASSUME TimeTypes, NEW th \in Threads
  PROVE  Own(th) \in TimeType /\ Flip(Own(th)) \in TimeType /\ Tick(Own(th)) \in TimeType
  <1>1. ASSUME buffer[th] # <<>> PROVE Last(buffer[th]) \in TimeType
    <2>1. buffer[th] \in Seq(TimeType) /\ Len(buffer[th]) \in Nat \ {0}
      BY <1>1 DEF TimeTypes
    <2>2. Len(buffer[th]) \in 1..Len(buffer[th])
      BY <2>1
    <2> QED
      BY <2>1, <2>2 DEF Last
  <1>2. Own(th) \in TimeType
    BY <1>1 DEF Own, TimeTypes
  <1>3. \A t \in TimeType : Flip(t) \in TimeType
    BY DEF TimeType, Flip
  <1>4. \A t \in TimeType : [t EXCEPT !.n = @ + 1] \in TimeType
    BY DEF TimeType
  <1> QED
    BY <1>2, <1>3, <1>4 DEF Tick

LEMMA StoreTyped ==
  ASSUME TimeTypes, NEW th \in Threads, NEW t \in TimeType, Store(th, t)
  PROVE  TimeTypes'
  <1>1. CASE time' = [time EXCEPT ![th] = t] /\ UNCHANGED buffer
    BY <1>1 DEF TimeTypes
  <1>2. CASE buffer' = [buffer EXCEPT ![th] = Append(@, t)] /\ UNCHANGED time
    <2>1. Append(buffer[th], t) \in Seq(TimeType)
      BY DEF TimeTypes
    <2> QED
      BY <1>2, <2>1 DEF TimeTypes
  <1> QED
    BY <1>1, <1>2 DEF Store

LEMMA TimesTyped ==
  ASSUME Typed, NEW th \in Threads, ClientStep(th)
  PROVE  TimeTypes'
  <1>1. CASE Drain(th)
    <2>1. Head(buffer[th]) \in TimeType /\ Tail(buffer[th]) \in Seq(TimeType)
      BY <1>1, HeadOrTail DEF Drain, Typed, TimeTypes
    <2> QED
      BY <1>1, <2>1 DEF Drain, Typed, TimeTypes
  <1>2. CASE EnterPinned(th) \/ ExitPinned(th)
    BY <1>2, OwnTyped, StoreTyped DEF EnterPinned, ExitPinned, Typed
  <1>3. CASE UNCHANGED <<time, buffer>>
    BY <1>3 DEF Typed, TimeTypes
  <1> QED
    BY <1>1, <1>2, <1>3 DEF ClientStep, Call, Insert, Operate, GetHit, ThreadExit

LEMMA FreerTyped ==
  ASSUME Typed, ChainInv, FreerStep
  PROVE  FreerTypes'
  <1>1. CASE Pop \/ ReadCount \/ EndWalk
    BY <1>1 DEF Pop, ReadCount, EndWalk, Typed, FreerTypes, EntryTypes, ChainInv
  <1>5. CASE ReadGone \/ Astray
    BY <1>5 DEF ReadGone, Astray, Typed, FreerTypes
  <1>2. CASE LoadList
    <2>1. states' \in [Threads -> TimeType \union {NULL}]
      <3>1. Time \subseteq TimeType
        BY ReclaimAssumption DEF Time, TimeType
      <3> QED
        BY <1>2, <3>1 DEF LoadList, Typed, FreerTypes
    <2> QED
      BY <1>2, <2>1 DEF LoadList, Typed, FreerTypes, EntryTypes
  <1>3. CASE NoteEntry \/ SpinEntry
    <2>1. todo \in Seq(Threads) /\ todo # <<>>
      BY <1>3 DEF NoteEntry, SpinEntry, Typed, FreerTypes
    <2>2. Tail(todo) \in Seq(Threads) /\ Head(todo) \in Threads
      BY <2>1, HeadOrTail
    <2>3. states' \in [Threads -> TimeType \union {NULL}]
      BY <1>3, <2>2 DEF NoteEntry, SpinEntry, Typed, FreerTypes, TimeTypes
    <2>4. /\ free_pc' = free_pc /\ table' = table /\ state_count' = state_count
          /\ freed' = freed /\ todo' = Tail(todo)
      BY <1>3 DEF NoteEntry, SpinEntry
    <2> QED
      BY <2>2, <2>3, <2>4 DEF Typed, FreerTypes
  <1>4. CASE Free
    <2>1. freed \union {table} \subseteq Tables
      BY <1>4 DEF Free, Typed, FreerTypes
    <2> QED
      BY <1>4, <2>1 DEF Free, Typed, FreerTypes
  <1> QED
    BY <1>1, <1>2, <1>3, <1>4, <1>5 DEF FreerStep

LEMMA EarlyTyped ==
  ASSUME Typed, NEW th \in Threads, ClientStep(th)
  PROVE  early' \subseteq Threads
  BY DEF Typed, ClientStep, Drain, Call, Insert, EnterPinned, Operate, ExitPinned, GetHit,
         ThreadExit

LEMMA StepTyped ==
  ASSUME Typed, ChainInv, [ReclaimNext]_vars
  PROVE  Typed'
  <1>1. ASSUME NEW th \in Threads, ClientStep(th) PROVE Typed'
    <2>1. FreerTypes'
      BY <1>1
      DEF ClientStep, Drain, Call, Insert, EnterPinned, Operate, ExitPinned, GetHit, ThreadExit,
          freer, Typed, FreerTypes
    <2> QED
      BY <1>1, <2>1, EntriesTyped, TimesTyped, EarlyTyped DEF Typed
  <1>2. ASSUME FreerStep PROVE Typed'
    <2>1. UNCHANGED client
      BY <1>2 DEF FreerStep, Pop, ReadCount, LoadList, NoteEntry, SpinEntry, EndWalk, Free,
                  ReadGone, Astray
    <2> QED
      BY <1>2, <2>1, FreerTyped DEF client, ebr, Typed, EntryTypes, TimeTypes, Registered
  <1>3. ASSUME UNCHANGED vars PROVE Typed'
    BY <1>3
    DEF vars, client, freer, ebr, Typed, EntryTypes, TimeTypes, FreerTypes, Registered
  <1> QED
    BY <1>1, <1>2, <1>3 DEF ReclaimNext

-----------------------------------------------------------------------------
(***************************************************************************)
(* Safety of freeing, for the threads that are seen pinned when they come  *)
(* by their tables.                                                        *)
(***************************************************************************)
\* A thread has pointers to tables inside an operation only, and is then seen
\* pinned unless it is early.
PinnedInside ==
    \A th \in Threads :
        held[th] # {} => pc[th] = "in" /\ (th \in early \/ Visible(th))

\* What the freeing thread knows of a thread that has the table: it will be
\* noted, then waited for, and the table is not freed before.
Waited(th) ==
    table \in held[th] =>
        /\ free_pc \notin {"pop", "count"} => Counts(th)
        /\ free_pc = "note" => th \in Range(todo) \/ states[th] = time[th]
        /\ free_pc \in {"wait", "spin"} => states[th] = time[th]
        /\ free_pc = "spin" => th \in Range(todo)
        /\ free_pc # "free"

FreerKnows ==
    /\ freed \subseteq retired /\ (free_pc # "pop" => table \in retired)
    /\ \A th \in Threads \ early : held[th] \intersect freed = {} /\ Waited(th)

FreeInv == PinnedInside /\ (free_pc # "astray" => FreerKnows)

LEMMA InitFree == ReclaimInit => FreeInv
  BY DEF ReclaimInit, Init, FreeInv, PinnedInside, FreerKnows, Waited

\* A step of a thread gives no other thread a pointer, and changes nothing
\* else of it.
LEMMA OthersKeep ==
  ASSUME Typed, ChainInv, NEW th \in Threads, ClientStep(th), NEW t2 \in Threads \ {th}
  PROVE  /\ pc'[t2] = pc[t2] /\ time'[t2] = time[t2] /\ buffer'[t2] = buffer[t2]
         /\ held'[t2] = held[t2] \/ held'[t2] = {}
         /\ t2 \in early' <=> t2 \in early
  <1>1. ASSUME NEW t, Store(th, t)
        PROVE  time'[t2] = time[t2] /\ buffer'[t2] = buffer[t2]
    BY <1>1 DEF Store, Typed, TimeTypes
  <1>2. CASE Drain(th) \/ Call(th) \/ Insert(th) \/ ThreadExit(th)
    BY <1>2 DEF Drain, Call, Insert, ThreadExit, chain, Typed, EntryTypes, TimeTypes
  <1>3. CASE EnterPinned(th) \/ ExitPinned(th) \/ GetHit(th)
    BY <1>1, <1>3 DEF EnterPinned, ExitPinned, GetHit, chain, Typed, EntryTypes, ChainInv
  <1>4. CASE Operate(th)
    BY <1>4 DEF Operate, Follow, Keep, Grow, Detach, ChainInv
  <1> QED
    BY <1>2, <1>3, <1>4 DEF ClientStep

\* The thread that takes the step, if it has tables afterwards.
LEMMA StepPinnedOwn ==
  ASSUME Typed, ChainInv, PinnedInside, NEW th \in Threads, ClientStep(th), held'[th] # {}
  PROVE  pc'[th] = "in" /\ (th \in early' \/ Visible(th)')
  <1>1. CASE Drain(th)
    <2>1. held[th] # {} /\ buffer[th] # <<>> /\ pc'[th] = pc[th] /\ early' = early
      BY <1>1 DEF Drain, chain
    <2> QED
      BY <2>1 DEF PinnedInside, Visible
  <1>2. CASE Call(th) \/ Insert(th) \/ EnterPinned(th) \/ ThreadExit(th)
    BY <1>2 DEF Call, Insert, EnterPinned, ThreadExit, chain, PinnedInside
  <1>3. CASE Operate(th)
    BY <1>3 DEF Operate, Visible
  <1>4. CASE ExitPinned(th) \/ GetHit(th)
    BY <1>4 DEF ExitPinned, GetHit, ChainInv
  <1> QED
    BY <1>1, <1>2, <1>3, <1>4 DEF ClientStep

LEMMA StepPinned ==
  ASSUME Typed, ChainInv, PinnedInside, NEW th \in Threads, ClientStep(th)
  PROVE  PinnedInside'
  <1>1. ASSUME NEW t2 \in Threads \ {th}, held'[t2] # {}
        PROVE  pc'[t2] = "in" /\ (t2 \in early' \/ Visible(t2)')
    BY <1>1, OthersKeep DEF PinnedInside, Visible
  <1> QED
    BY <1>1, StepPinnedOwn DEF PinnedInside

\* A thread that holds on to its tables through a step, and is not early after
\* it, was not early before, and changes neither its time nor its id.
LEMMA HolderSteps ==
  ASSUME Typed, ChainInv, PinnedInside, NEW th \in Threads, ClientStep(th),
         NEW t2 \in Threads, held[t2] # {}, held'[t2] # {}, t2 \notin early'
  PROVE  t2 \notin early /\ time'[t2] = time[t2] /\ id'[t2] = id[t2]
  <1>1. t2 \notin early
    <2>1. CASE t2 # th
      BY <2>1, OthersKeep
    <2>2. CASE t2 = th /\ (ExitPinned(th) \/ GetHit(th))
      BY <2>2 DEF ExitPinned, GetHit, ChainInv
    <2>3. CASE t2 = th /\ ~(ExitPinned(th) \/ GetHit(th))
      BY <2>3 DEF ClientStep, Drain, Call, Insert, EnterPinned, Operate, ThreadExit
    <2> QED
      BY <2>1, <2>2, <2>3
  <1>2. pc[t2] = "in" /\ buffer[t2] = <<>>
    BY <1>1 DEF PinnedInside, Visible
  <1>3. CASE Call(th) \/ Insert(th) \/ Drain(th) \/ Operate(th) \/ GetHit(th) \/ ThreadExit(th)
    BY <1>1, <1>2, <1>3
    DEF Call, Insert, Drain, Operate, GetHit, ThreadExit, ebr, Typed, TimeTypes, EntryTypes
  <1>4. CASE EnterPinned(th)
    <2>1. th # t2 /\ id' = id
      BY <1>2, <1>4 DEF EnterPinned, ebr
    <2> QED
      BY <1>1, <1>4, <2>1 DEF EnterPinned, Store, Typed, TimeTypes
  <1>5. CASE ExitPinned(th)
    <2>1. th # t2 /\ id' = id
      BY <1>5 DEF ExitPinned, ebr, ChainInv
    <2> QED
      BY <1>1, <1>5, <2>1 DEF ExitPinned, Store, Typed, TimeTypes
  <1> QED
    BY <1>3, <1>4, <1>5 DEF ClientStep

LEMMA ClientFree ==
  ASSUME Typed, ChainInv, FreeInv, NEW th \in Threads, ClientStep(th)
  PROVE  FreeInv'
  <1>1. PinnedInside /\ PinnedInside'
    BY StepPinned DEF FreeInv
  <1>2. UNCHANGED freer
    BY DEF ClientStep, Drain, Call, Insert, EnterPinned, Operate, ExitPinned, GetHit, ThreadExit
  <1>3. ChainInv' /\ HeldGains /\ retired \subseteq retired'
    BY StepChain DEF ReclaimNext
  <1>4. ASSUME free_pc # "astray" PROVE FreerKnows'
    <2>1. FreerKnows
      BY <1>4 DEF FreeInv
    <2>2. freed' \subseteq retired' /\ (free_pc' # "pop" => table' \in retired')
      BY <1>2, <1>3, <2>1 DEF freer, FreerKnows
    <2>3. ASSUME NEW t2 \in Threads \ early', NEW t \in held'[t2], t \in retired
          PROVE  /\ t \in held[t2] /\ t2 \in Threads \ early
                 /\ time'[t2] = time[t2] /\ id'[t2] = id[t2]
      <3>1. t \in held[t2]
        BY <1>3, <2>3 DEF HeldGains
      <3> QED
        BY <1>1, <2>3, <3>1, HolderSteps
    <2>4. ASSUME NEW t2 \in Threads \ early' PROVE held'[t2] \intersect freed' = {}
      BY <1>2, <2>1, <2>3 DEF freer, FreerKnows
    <2>5. ASSUME NEW t2 \in Threads \ early', table' \in held'[t2] PROVE Waited(t2)'
      <3>1. table \in Tables /\ table \in held'[t2] /\ free_pc # "pop"
        BY <1>2, <1>3, <2>5, TableFacts DEF freer, ChainInv, Typed, FreerTypes
      <3>2. /\ table \in held[t2] /\ t2 \in Threads \ early
            /\ time'[t2] = time[t2] /\ id'[t2] = id[t2]
        BY <2>1, <2>3, <2>5, <3>1 DEF FreerKnows
      <3> QED
        BY <1>2, <2>1, <3>2 DEF freer, FreerKnows, Waited, Counts
    <2> QED
      BY <2>2, <2>4, <2>5 DEF FreerKnows, Waited
  <1> QED
    BY <1>1, <1>2, <1>4 DEF FreeInv, freer

LEMMA FreerFree ==
  ASSUME Typed, ChainInv, FreeInv, FreerStep
  PROVE  FreeInv'
  <1>1. UNCHANGED <<chain, pc, ebr, time, buffer, early>>
    BY DEF FreerStep, Pop, ReadCount, LoadList, NoteEntry, SpinEntry, EndWalk, Free, ReadGone,
           Astray, client
  <1>2. PinnedInside /\ PinnedInside'
    BY <1>1 DEF chain, FreeInv, PinnedInside, Visible
  <1>3. CASE ReadGone \/ Astray
    BY <1>2, <1>3 DEF ReadGone, Astray, FreeInv
  <1>4. ASSUME ~ReadGone, ~Astray PROVE FreerKnows'
    <2>0. free_pc # "astray" /\ FreerKnows
      BY <1>4 DEF FreerStep, Pop, ReadCount, LoadList, NoteEntry, SpinEntry, EndWalk, Free,
                  FreeInv
    <2>1. freed' \subseteq retired' /\ (free_pc' # "pop" => table' \in retired')
      BY <1>1, <1>4, <2>0
      DEF chain, FreerKnows, FreerStep, Pop, ReadCount, LoadList, NoteEntry, SpinEntry, EndWalk,
          Free, Typed, FreerTypes
    <2>2. ASSUME NEW th \in Threads \ early PROVE held'[th] \intersect freed' = {}
      BY <1>1, <1>4, <2>0
      DEF chain, FreerKnows, Waited, FreerStep, Pop, ReadCount, LoadList, NoteEntry, SpinEntry,
          EndWalk, Free
    <2>3. ASSUME NEW th \in Threads \ early, table' \in held'[th] PROVE Waited(th)'
      <3>1. /\ held' = held /\ time' = time /\ id' = id
        BY <1>1 DEF chain, ebr
      <3>2. /\ pc[th] = "in" /\ time[th].pinned /\ Registered(th) /\ id[th] < ebr_count
            /\ time[th] \in TimeType /\ time[th] # NULL
        BY <1>2, <2>3, <3>1, ReclaimAssumption
        DEF PinnedInside, Visible, Typed, EntryTypes, TimeTypes
      <3>3. Waited(th)
        BY <2>0 DEF FreerKnows
      <3>4. CASE Pop
        BY <3>4 DEF Pop, Waited
      <3>5. CASE ReadCount
        BY <3>1, <3>2, <3>5 DEF ReadCount, Waited, Counts
      <3>6. CASE LoadList
        <4>1. table' = table /\ state_count' = state_count
          BY <3>6 DEF LoadList
        <4>2. th \in Range(todo')
          BY <3>2, <3>6 DEF LoadList, Registered
        <4>3. free_pc = "wait" => states'[th] = states[th]
          BY <2>3, <3>1, <3>2, <3>3, <3>6, <4>1 DEF LoadList, Waited
        <4> QED
          BY <2>3, <3>1, <3>3, <3>6, <4>1, <4>2, <4>3 DEF LoadList, Waited, Counts
      <3>7. CASE NoteEntry
        <4>1. /\ table' = table /\ state_count' = state_count /\ free_pc' = free_pc
              /\ free_pc = "note" /\ Counts(th)
          BY <2>3, <3>1, <3>3, <3>7 DEF NoteEntry, Waited
        <4>2. th \in Range(todo) => th = Head(todo) \/ th \in Range(todo')
          BY <3>7, HeadOrTail DEF NoteEntry, Typed, FreerTypes
        <4>3. th = Head(todo) => states'[th] = time[th]
          BY <3>7, <4>1 DEF NoteEntry, Typed, FreerTypes
        <4>4. states[th] = time[th] => states'[th] = time[th]
          BY <3>7 DEF NoteEntry, Typed, FreerTypes
        <4> QED
          BY <2>3, <3>1, <3>3, <4>1, <4>2, <4>3, <4>4 DEF Waited, Counts
      <3>8. CASE SpinEntry
        <4>1. /\ table' = table /\ state_count' = state_count /\ free_pc' = free_pc
              /\ states' = states /\ free_pc = "spin" /\ Counts(th)
          BY <2>3, <3>1, <3>3, <3>8 DEF SpinEntry, Waited
        <4>2. th \in Range(todo) => th = Head(todo) \/ th \in Range(todo')
          BY <3>8, HeadOrTail DEF SpinEntry, Typed, FreerTypes
        <4>3. th # Head(todo)
          BY <2>3, <3>1, <3>2, <3>3, <3>8, <4>1 DEF SpinEntry, Moved, Waited
        <4> QED
          BY <2>3, <3>1, <3>3, <4>1, <4>2, <4>3 DEF Waited, Counts
      <3>9. CASE EndWalk
        <4>1. /\ table' = table /\ state_count' = state_count /\ states' = states
              /\ todo = <<>>
          BY <3>9 DEF EndWalk
        <4>2. th \notin Range(todo)
          BY <4>1 DEF Range
        <4> QED
          BY <2>3, <3>1, <3>3, <3>9, <4>1, <4>2 DEF EndWalk, Waited, Counts
      <3>10. CASE Free
        BY <1>1, <2>3, <3>10, TableFacts DEF Free, chain, ChainInv
      <3> QED
        BY <1>4, <3>4, <3>5, <3>6, <3>7, <3>8, <3>9, <3>10 DEF FreerStep
    <2> QED
      BY <1>1, <2>1, <2>2, <2>3 DEF FreerKnows, Waited
  <1> QED
    BY <1>2, <1>3, <1>4 DEF FreeInv

LEMMA StepFree ==
  ASSUME Typed, ChainInv, FreeInv, [ReclaimNext]_vars
  PROVE  FreeInv'
  <1>1. CASE UNCHANGED vars
    BY <1>1 DEF vars, client, freer, chain, ebr, FreeInv, PinnedInside, Visible, FreerKnows,
                Waited, Counts
  <1> QED
    BY <1>1, ClientFree, FreerFree DEF ReclaimNext

\* Types, and every thread inside an operation has an entry in the list.
THEOREM ReclaimTypeCorrect == ReclaimSpec => []ReclaimTypeOK
  <1>1. ReclaimInit /\ [][ReclaimNext]_vars => [](ChainInv /\ Typed)
    BY InitChain, StepChain, InitTyped, StepTyped, PTL
  <1>2. ChainInv /\ Typed => ReclaimTypeOK
    BY TypedParts DEF ChainInv
  <1> QED
    BY <1>1, <1>2, PTL DEF ReclaimSpec

LEMMA FreeAlways == ReclaimSpec => [](FreeInv /\ Typed /\ ChainInv)
  <1>1. ReclaimInit => FreeInv /\ Typed /\ ChainInv
    BY InitChain, InitTyped, InitFree
  <1>2. FreeInv /\ Typed /\ ChainInv /\ [ReclaimNext]_vars => (FreeInv /\ Typed /\ ChainInv)'
    BY StepChain, StepTyped, StepFree
  <1> QED
    BY <1>1, <1>2, PTL DEF ReclaimSpec

\* No thread that is seen pinned when it comes by its tables has a pointer to one
\* that was unmapped, unless the freeing thread has read the entry of a thread
\* that has ended.
THEOREM FreeingIsSafe == ReclaimSpec => []NoUseAfterFree
  <1>1. FreeInv => NoUseAfterFree
    BY DEF FreeInv, FreerKnows, NoUseAfterFree
  <1> QED
    BY <1>1, FreeAlways, PTL

\* An entry noted as unpinned belongs to a thread that does not have the table,
\* or to one that was not seen pinned when it came by it.
THEOREM UnpinnedIsFree == ReclaimSpec => []UnpinnedHoldsNothing
  <1>1. FreeInv /\ Typed => UnpinnedHoldsNothing
    BY DEF FreeInv, FreerKnows, UnpinnedHoldsNothing, Waited, PinnedInside, Visible
  <1> QED
    BY <1>1, FreeAlways, PTL
=============================================================================
