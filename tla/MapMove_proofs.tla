--------------------------- MODULE MapMove_proofs ---------------------------
(***************************************************************************)
(* More theorems about the hash map, for any number of threads, keys,      *)
(* tables and slots: the count of claimed slots, the migration of a table  *)
(* in chunks, the chain of tables that the freeing code sees, and the set  *)
(* of keys that a map is from which nobody removes.                        *)
(***************************************************************************)
EXTENDS MapTable_proofs, MapIntern, FiniteSetTheorems

-----------------------------------------------------------------------------
(***************************************************************************)
(* The count of claimed slots.  A thread between the CAS that claims a     *)
(* slot and its fetch_add is the only one that the count may lack.         *)
(***************************************************************************)
Counting(t)     == {th \in Threads : pc[th] = "pm_count" /\ pm[th].latest = t}
ClaimedSlots(t) == {s \in Slots(t) : key[t][s] # NULL}

CountSound ==
    \A t \in Tables :
        /\ IsFiniteSet(Counting(t))
        /\ count[t] + Cardinality(Counting(t)) = Cardinality(ClaimedSlots(t))

LEMMA SlotsFinite ==
  ASSUME NEW t \in Tables
  PROVE  IsFiniteSet(Slots(t)) /\ IsFiniteSet(ClaimedSlots(t))
  <1>1. 0 \in Int /\ Cap[t] - 1 \in Int
    BY SizeAssumption
  <1>2. IsFiniteSet(Slots(t))
    BY <1>1, FS_Interval DEF Slots
  <1>3. ClaimedSlots(t) \subseteq Slots(t)
    BY DEF ClaimedSlots
  <1> QED
    BY <1>2, <1>3, FS_Subset

\* The thread's fetch_add on the count of the table where it claimed a slot.
Counts(th) ==
    /\ pc[th] = "pm_count" /\ pc'[th] = "pm_barrier"
    /\ key' = key /\ count' = [count EXCEPT ![pm[th].latest] = @ + 1]

LEMMA CountSteps ==
  ASSUME TypeOK, NEW th \in Threads, Step(th)
  PROVE  \/ Claims(th) /\ pm' = pm /\ count' = count
         \/ Counts(th)
         \/ /\ key' = key /\ count' = count
            /\ pc[th] # "pm_count" /\ pc'[th] # "pm_count"
  <1>1. pc \in [Threads -> Labels]
    BY DEF TypeOK, LocalsTyped
  <1>2. CASE PmKey(th)
    <2>1. ASSUME PmReturn(th, Empty) PROVE pc'[th] # "pm_count"
      BY <1>1, <2>1 DEF PmReturn, Return, MvAdvance, Goto
    <2> QED
      BY <1>1, <1>2, <2>1 DEF PmKey, Claims, Claimable, At, Goto
  <1>3. CASE PmCount(th)
    BY <1>1, <1>3 DEF PmCount, Counted, Counts, At, Goto
  <1>4. CASE PmTop(th) \/ PmAdopt(th) \/ PmBarrier(th) \/ PmLatest(th) \/ PmPrev(th) \/ PmVal(th)
    BY <1>1, <1>4
    DEF PmTop, PmAdopt, PmBarrier, PmLatest, PmPrev, LoadedPrev, PmVal, AfterBarrier, At, Goto,
        tables, slots
  <1>5. CASE PmWrite(th)
    BY <1>1, <1>5 DEF PmWrite, PmReturn, Return, MvAdvance, At, Goto
  <1>6. CASE \/ Begin(th) \/ LoadLatest(th) \/ Exit(th) \/ MvKey(th) \/ ScanVal(th)
             \/ RlKey(th) \/ GetKey(th)
    BY <1>1, <1>6
    DEF Begin, LoadLatest, Exit, MvKey, ScanVal, RlKey, GetKey, RlReturn, Return, ScanNext, At,
        Goto, tables, slots
  <1>7. CASE LoadPrev(th) \/ Reload(th)
    BY <1>1, <1>7
    DEF LoadPrev, Reload, Serve, CallPutIfMatch, Return, At, Goto, tables, slots
  <1>8. CASE MvClaim(th) \/ MvPrime(th) \/ MvDone(th) \/ MvDetach(th)
    BY <1>1, <1>8
    DEF MvClaim, MvPrime, MvDone, MvDetach, MvAdvance, Serve, CallPutIfMatch, At, Goto, slots
  <1> QED
    BY <1>2, <1>3, <1>4, <1>5, <1>6, <1>7, <1>8 DEF Step

LEMMA CountSoundStep ==
  ASSUME TypeOK, CountSound, NEW th \in Threads, Step(th)
  PROVE  CountSound'
  <1>1. /\ pc[th] \in Labels /\ pm[th].latest \in Tables
        /\ \A t2 \in Threads \ {th} : pc'[t2] = pc[t2] /\ pm'[t2] = pm[t2]
    BY Fields, EveryStepTyped DEF TypeOK, LocalsTyped, TypedStep, LocalStep, SameLocals
  <1>2. count \in [Tables -> Nat]
    BY DEF TypeOK, TablesTyped
  <1> SUFFICES ASSUME NEW t \in Tables
               PROVE  /\ IsFiniteSet(Counting(t)')
                      /\ count'[t] + Cardinality(Counting(t)') = Cardinality(ClaimedSlots(t)')
    BY DEF CountSound, Counting, ClaimedSlots
  <1> DEFINE l == pm[th].latest
             i == pm[th].i
  <1>3. CASE Claims(th) /\ pm' = pm /\ count' = count
    <2>1. pc[th] = "pm_key" /\ pc'[th] = "pm_count" /\ key[l][i] = NULL
      BY <1>3 DEF Claims
    <2>2. i \in Slots(l) /\ pm[th].key \in Keys
      BY <2>1, PuttingFacts, ProbingFacts DEF PutLabels
    <2>3. key' = [key EXCEPT ![l][i] = pm[th].key] /\ pm[th].key # NULL
      BY <1>3, <2>2, CallAssumption DEF Claims
    <2>4. CASE t = l
      <3>1. Counting(t)' = Counting(t) \union {th} /\ th \notin Counting(t)
        BY <1>1, <1>3, <2>1, <2>4 DEF Counting
      <3>2. ClaimedSlots(t)' = ClaimedSlots(t) \union {i} /\ i \notin ClaimedSlots(t)
        BY <1>1, <2>1, <2>2, <2>3, <2>4 DEF ClaimedSlots, TypeOK, TablesTyped
      <3>3. /\ IsFiniteSet(Counting(t)')
            /\ Cardinality(Counting(t)') = Cardinality(Counting(t)) + 1
        BY <3>1, FS_AddElement DEF CountSound
      <3>4. Cardinality(ClaimedSlots(t)') = Cardinality(ClaimedSlots(t)) + 1
        BY <3>2, SlotsFinite, FS_AddElement
      <3>5. /\ Cardinality(Counting(t)) \in Nat /\ count[t] \in Nat
            /\ count[t] + Cardinality(Counting(t)) = Cardinality(ClaimedSlots(t))
        BY <1>2, FS_CardinalityType DEF CountSound
      <3> QED
        BY <1>3, <3>3, <3>4, <3>5
    <2>5. CASE t # l
      <3>1. Counting(t)' = Counting(t)
        BY <1>1, <1>3, <2>1, <2>5 DEF Counting
      <3>2. ClaimedSlots(t)' = ClaimedSlots(t)
        BY <1>1, <2>3, <2>5 DEF ClaimedSlots, TypeOK, TablesTyped
      <3> QED
        BY <1>3, <3>1, <3>2 DEF CountSound
    <2> QED
      BY <2>4, <2>5
  <1>4. CASE Counts(th)
    <2>1. ClaimedSlots(t)' = ClaimedSlots(t)
      BY <1>4 DEF Counts, ClaimedSlots
    <2>2. CASE t = l
      <3>1. Counting(t)' = Counting(t) \ {th} /\ th \in Counting(t)
        BY <1>1, <1>4, <2>2 DEF Counting, Counts
      <3>2. /\ IsFiniteSet(Counting(t)')
            /\ Cardinality(Counting(t)') = Cardinality(Counting(t)) - 1
        BY <3>1, FS_RemoveElement DEF CountSound
      <3>3. /\ Cardinality(Counting(t)) \in Nat /\ count[t] \in Nat
            /\ count[t] + Cardinality(Counting(t)) = Cardinality(ClaimedSlots(t))
        BY <1>2, FS_CardinalityType DEF CountSound
      <3>4. count'[t] = count[t] + 1
        BY <1>1, <1>2, <1>4, <2>2 DEF Counts
      <3> QED
        BY <2>1, <3>2, <3>3, <3>4
    <2>3. CASE t # l
      <3>1. Counting(t)' = Counting(t)
        BY <1>1, <1>4, <2>3 DEF Counting, Counts
      <3>2. count'[t] = count[t]
        BY <1>1, <1>2, <1>4, <2>3 DEF Counts
      <3> QED
        BY <2>1, <3>1, <3>2 DEF CountSound
    <2> QED
      BY <2>2, <2>3
  <1>5. CASE key' = key /\ count' = count /\ pc[th] # "pm_count" /\ pc'[th] # "pm_count"
    <2>1. Counting(t)' = Counting(t) /\ ClaimedSlots(t)' = ClaimedSlots(t)
      BY <1>1, <1>5 DEF Counting, ClaimedSlots
    <2> QED
      BY <1>5, <2>1 DEF CountSound
  <1> QED
    BY <1>3, <1>4, <1>5, CountSteps

LEMMA InitCount == Init => CountSound
  <1> SUFFICES ASSUME Init, NEW t \in Tables
               PROVE  /\ IsFiniteSet(Counting(t))
                      /\ count[t] + Cardinality(Counting(t)) = Cardinality(ClaimedSlots(t))
    BY DEF CountSound
  <1>1. Counting(t) = {} /\ ClaimedSlots(t) = {} /\ count[t] = 0
    BY DEF Init, Counting, ClaimedSlots
  <1> QED
    BY <1>1, FS_EmptySet

\* The count that triggers a resize lacks the claims on their way to their
\* fetch_add, and nothing else, in every table.
THEOREM CountsLag == Spec => []CountLags
  <1>1. TypeOK /\ CountSound /\ [Next]_vars => CountSound'
    <2>1. ASSUME CountSound, UNCHANGED vars PROVE CountSound'
      BY <2>1 DEF vars, tables, slots, CountSound, Counting, ClaimedSlots
    <2> QED
      BY <2>1, CountSoundStep DEF Next
  <1>2. CountSound => CountLags
    BY DEF CountSound, CountLags, Counting, ClaimedSlots
  <1> QED
    BY <1>1, <1>2, InitCount, TypeCorrect, PTL DEF Spec

-----------------------------------------------------------------------------
(***************************************************************************)
(* Where a thread stands in a migration.  It moves the items of the table  *)
(* right below the one it works on; it has a chunk from MvClaim to MvDone, *)
(* and the last of those that moved a chunk of a table detaches it.        *)
(***************************************************************************)
HasChunk(th) == Moving(th) \/ pc[th] \in {"mv_done", "assert(key)"}

Idle == {"idle", "load_latest", "reload", "exit"}

Framed(th) ==
    /\ HasChunk(th) => /\ mv[th].old < mv[th].new
                       /\ mv[th].new <= moved[top[th].prev]
    /\ pc[th] = "mv_done" => mv[th].i = mv[th].new
    /\ ~HasChunk(th) => mv[th] = NoMove
    /\ HasChunk(th) => top[th].prev # NULL
    /\ pc[th] \in Idle => top[th].prev = NULL
    /\ top[th].prev # NULL => top[th].prev = top[th].latest - 1
    /\ top[th].latest <= latest
    /\ pm[th].latest <= latest
    /\ pm[th].mover => InPutIfMatch(th) /\ top[th].latest <= pm[th].latest
    /\ pc[th] = "mv_detach" => /\ top[th].prev \notin retired
                               /\ move_done[top[th].prev] = Cap[top[th].prev]

\* Each table but the first was made to replace the one below it, and points
\* to it until that one is retired.
Linked ==
    /\ retired \subseteq 1 .. (latest - 1)
    /\ \A t \in Tables : prev[t] = IF 1 < t /\ t <= latest /\ t - 1 \notin retired
                                   THEN t - 1 ELSE NULL

\* Slot s of table p is in the chunk that th has to move.
InChunk(th, p, s) == top[th].prev = p /\ s \in mv[th].old .. (mv[th].new - 1)

\* The slots of table p that were taken in a chunk which is done by now.
Accounted(p) == {s \in 0 .. (moved[p] - 1) : \A th \in Threads : ~InChunk(th, p, s)}

Chunked ==
    /\ \A p \in Tables : \A s \in Slots(p) : \A t1, t2 \in Threads :
          InChunk(t1, p, s) /\ InChunk(t2, p, s) => t1 = t2
    /\ \A p \in Tables : move_done[p] = Cardinality(Accounted(p))
    /\ \A p \in retired : move_done[p] = Cap[p]
    /\ \A t1, t2 \in Threads :
          /\ pc[t1] = "mv_detach" /\ pc[t2] = "mv_detach"
          /\ top[t1].prev = top[t2].prev
          => t1 = t2

MoveSound == Linked /\ Chunked /\ \A th \in Threads : Framed(th)

-----------------------------------------------------------------------------
(* What the steps do to the chain, to the chunks, and to one's own chunk.  *)

Grows(th) ==
    LET l == pm[th].latest IN
    /\ pc[th] = "pm_top" /\ pc' = pc /\ top' = top
    /\ latest = l /\ l < MaxTables /\ pm[th].prev = NULL
    /\ latest' = l + 1 /\ prev' = [prev EXCEPT ![l + 1] = l] /\ retired' = retired
    /\ pm' = [pm EXCEPT ![th].latest = l + 1, ![th].prev = l]

LEMMA LinkSteps ==
  ASSUME TypeOK, NEW th \in Threads, Step(th)
  PROVE  UNCHANGED chain \/ Grows(th) \/ MvDetach(th)
  <1>1. CASE PmTop(th)
    BY <1>1 DEF PmTop, Grows, At, chain
  <1>2. CASE \/ Begin(th) \/ LoadLatest(th) \/ LoadPrev(th) \/ Reload(th) \/ Exit(th)
             \/ MvKey(th) \/ PmLatest(th) \/ PmPrev(th) \/ PmVal(th) \/ PmBarrier(th)
             \/ ScanVal(th) \/ RlKey(th) \/ GetKey(th)
    BY <1>2
    DEF Begin, LoadLatest, LoadPrev, Reload, Exit, MvKey, PmLatest, PmPrev, LoadedPrev, PmVal,
        PmBarrier, ScanVal, RlKey, GetKey, tables
  <1>3. CASE \/ MvClaim(th) \/ MvPrime(th) \/ MvDone(th) \/ PmKey(th) \/ PmCount(th)
             \/ PmAdopt(th) \/ PmWrite(th)
    BY <1>3 DEF MvClaim, MvPrime, MvDone, PmKey, PmCount, PmAdopt, PmWrite
  <1> QED
    BY <1>1, <1>2, <1>3 DEF Step

Takes(th) ==
    LET p == top[th].prev IN
    /\ pc[th] = "mv_claim" /\ p \in Tables /\ moved[p] # Cap[p] /\ UNCHANGED move_done
    /\ top'[th] = top[th] /\ pc'[th] = "mv_key"
    /\ \E new \in Nat :
          /\ moved[p] < new /\ new <= Cap[p]
          /\ moved' = [moved EXCEPT ![p] = new]
          /\ mv'[th] = Chunk(moved[p], moved[p], new)

Gives(th) ==
    LET p == top[th].prev
        done == move_done[p] + ChunkSize(th)
    IN
    /\ pc[th] = "mv_done" /\ UNCHANGED moved
    /\ move_done' = [move_done EXCEPT ![p] = done]
    /\ top'[th] = top[th] /\ mv'[th] = NoMove
    /\ pc'[th] = "mv_detach" => done = Cap[p]

\* The thread keeps its chunk, or has none before and after the step.
Holds(th) ==
    /\ UNCHANGED chunks
    /\ mv'[th].old = mv[th].old /\ mv'[th].new = mv[th].new
    /\ top'[th].prev = top[th].prev \/ mv[th] = NoMove
    /\ pc'[th] # "mv_detach"

\* A thread that is at one of these places has no chunk.
LEMMA NoChunkAt ==
  ASSUME TypeOK, NEW th \in Threads, Framed(th),
         \/ pc[th] \in Idle \union {"load_prev", "mv_claim", "mv_detach", "get_val", "get_key"}
         \/ pc[th] \in PutLabels \union {"rl_val", "rl_key"} /\ ~pm[th].mover
  PROVE  mv[th] = NoMove
  <1>1. CASE pc[th] \in Idle \union {"load_prev", "mv_claim", "mv_detach", "get_val", "get_key"}
    <2>1. pm[th] = NoFrame
      BY <1>1 DEF TypeOK, FrameInUse, PutLabels, Asserts, Idle
    <2> QED
      BY <1>1, <2>1 DEF Framed, HasChunk, Moving, Idle, NoFrame
  <1>2. CASE pc[th] \in PutLabels \union {"rl_val", "rl_key"} /\ ~pm[th].mover
    BY <1>2 DEF Framed, HasChunk, Moving, PutLabels
  <1> QED
    BY <1>1, <1>2

LEMMA ReturnHolds ==
  ASSUME TypeOK, NEW th \in Threads, mv[th] = NoMove, NEW w, Return(th, w), UNCHANGED chunks
  PROVE  Holds(th)
  <1>1. pc'[th] = "exit" /\ mv'[th] = NoMove
    BY DEF TypeOK, LocalsTyped, Return, Goto
  <1> QED
    BY <1>1 DEF Holds

LEMMA MvAdvanceHolds ==
  ASSUME TypeOK, NEW th \in Threads, MvAdvance(th), UNCHANGED chunks, top'[th] = top[th]
  PROVE  Holds(th)
  <1>1. /\ pc'[th] \in {"mv_key", "mv_done"}
        /\ mv'[th] = Chunk(mv[th].old, mv[th].i + 1, mv[th].new)
    BY DEF TypeOK, LocalsTyped, MvAdvance, Goto
  <1>2. mv'[th].old = mv[th].old /\ mv'[th].new = mv[th].new
    BY <1>1 DEF Chunk
  <1> QED
    BY <1>1, <1>2 DEF Holds

LEMMA PmReturnHolds ==
  ASSUME TypeOK, NEW th \in Threads, Framed(th), pc[th] \in PutLabels, NEW w,
         PmReturn(th, w), UNCHANGED chunks
  PROVE  Holds(th)
  <1>1. CASE pm[th].mover
    BY <1>1, MvAdvanceHolds DEF PmReturn
  <1>2. CASE ~pm[th].mover
    BY <1>2, ReturnHolds, NoChunkAt DEF PmReturn
  <1> QED
    BY <1>1, <1>2

LEMMA JumpHolds ==
  ASSUME TypeOK, NEW th \in Threads, NEW label, label # "mv_detach", Goto(th, label),
         UNCHANGED <<chunks, mv>>, top'[th].prev = top[th].prev \/ mv[th] = NoMove
  PROVE  Holds(th)
  BY DEF TypeOK, LocalsTyped, Goto, Holds

LEMMA ServeHolds ==
  ASSUME TypeOK, NEW th \in Threads, mv[th] = NoMove, NEW l, NEW p, Serve(th, l, p),
         UNCHANGED <<chunks, mv>>
  PROVE  Holds(th)
  BY JumpHolds DEF Serve, CallPutIfMatch

LEMMA ClaimSteps ==
  ASSUME TypeOK, NEW th \in Threads, MvClaim(th)
  PROVE  \/ Takes(th)
         \/ Serve(th, top[th].latest, top[th].prev) /\ UNCHANGED <<moved, mv>>
  <1> DEFINE p   == top[th].prev
             end == moved[p] + IF call[th].op = "resize_barrier" THEN Cap[p] ELSE MoveAmount
             new == IF end > Cap[p] THEN Cap[p] ELSE end
  <1>1. CASE /\ moved[p] # Cap[p] /\ moved' = [moved EXCEPT ![p] = new]
             /\ mv' = [mv EXCEPT ![th] = Chunk(moved[p], moved[p], new)]
             /\ Goto(th, "mv_key")
    <2>1. p \in Tables
      BY DEF MvClaim, At, TypeOK, FrameInUse
    <2>2. moved[p] \in Nat /\ Cap[p] \in Nat \ {0} /\ moved[p] <= Cap[p]
      BY <2>1, SizeAssumption DEF TypeOK, TablesTyped
    <2>3. new \in Nat /\ moved[p] < new /\ new <= Cap[p]
      <3>1. PICK a \in Nat \ {0} : end = moved[p] + a
        BY <2>2, SizeAssumption
      <3>2. PICK m \in Nat, c \in Nat : m = moved[p] /\ c = Cap[p] /\ m < c
        BY <1>1, <2>2
      <3> HIDE DEF end
      <3> QED
        BY <3>1, <3>2
    <2>4. /\ pc[th] = "mv_claim" /\ pc'[th] = "mv_key" /\ top' = top
          /\ move_done' = move_done
      BY <1>1 DEF MvClaim, At, Goto, TypeOK, LocalsTyped
    <2>5. mv'[th] = Chunk(moved[p], moved[p], new)
      BY <1>1 DEF TypeOK, LocalsTyped
    <2> HIDE DEF new
    <2> QED
      BY <1>1, <2>1, <2>3, <2>4, <2>5 DEF Takes
  <1> QED
    BY <1>1 DEF MvClaim

LEMMA ChunkSteps ==
  ASSUME TypeOK, NEW th \in Threads, Framed(th), Step(th)
  PROVE  Takes(th) \/ Gives(th) \/ Holds(th)
  <1>1. CASE Begin(th) \/ LoadLatest(th) \/ Exit(th) \/ MvDetach(th)
    BY <1>1, JumpHolds, NoChunkAt
    DEF Begin, LoadLatest, Exit, MvDetach, At, tables, Idle
  <1>2. CASE PmTop(th) \/ PmLatest(th) \/ PmPrev(th) \/ PmVal(th) \/ PmCount(th) \/ PmBarrier(th)
    <2>1. UNCHANGED <<chunks, mv, top>>
      BY <1>2 DEF PmTop, PmLatest, PmPrev, LoadedPrev, PmVal, PmCount, PmBarrier, tables
    <2>2. pc'[th] # "mv_detach"
      BY <1>2
      DEF TypeOK, LocalsTyped, PmTop, PmLatest, PmPrev, LoadedPrev, PmVal, PmCount, PmBarrier,
          AfterBarrier, At, Goto
    <2> QED
      BY <2>1, <2>2 DEF Holds
  <1>3. CASE PmAdopt(th) \/ ScanVal(th)
    BY <1>3, JumpHolds DEF PmAdopt, ScanVal, AfterBarrier, tables
  <1>4. CASE LoadPrev(th)
    <2>1. mv[th] = NoMove /\ UNCHANGED chunks
      BY <1>4, NoChunkAt DEF LoadPrev, At, tables
    <2> QED
      BY <1>4, <2>1, JumpHolds, ServeHolds, ReturnHolds DEF LoadPrev
  <1>5. CASE Reload(th)
    BY <1>5, NoChunkAt, ServeHolds DEF Reload, At, tables, Idle
  <1>6. CASE MvClaim(th)
    <2>1. CASE Serve(th, top[th].latest, top[th].prev) /\ UNCHANGED <<moved, mv>>
      BY <1>6, <2>1, NoChunkAt, ServeHolds DEF MvClaim, At, chunks
    <2> QED
      BY <1>6, <2>1, ClaimSteps
  <1>7. CASE MvKey(th)
    <2>1. mv'[th] = [mv[th] EXCEPT !.k = key[top[th].prev][mv[th].i]] /\ mv[th] \in MoveType
      BY <1>7 DEF MvKey, TypeOK, LocalsTyped
    <2>2. mv'[th].old = mv[th].old /\ mv'[th].new = mv[th].new
      BY <2>1 DEF MoveType
    <2>3. UNCHANGED <<chunks, top>> /\ pc'[th] # "mv_detach"
      BY <1>7 DEF MvKey, Goto, TypeOK, LocalsTyped, tables
    <2> QED
      BY <2>2, <2>3 DEF Holds
  <1>8. CASE MvPrime(th)
    <2>1. CASE MvAdvance(th)
      BY <1>8, <2>1, MvAdvanceHolds DEF MvPrime
    <2>2. CASE UNCHANGED mv /\ (Goto(th, "pm_top") \/ Goto(th, "assert(key)"))
      BY <1>8, <2>2, JumpHolds DEF MvPrime
    <2> QED
      BY <1>8, <2>1, <2>2 DEF MvPrime, CallPutIfMatch
  <1>9. CASE MvDone(th)
    <2>1. /\ pc[th] = "mv_done" /\ top' = top /\ moved' = moved /\ mv'[th] = NoMove
          /\ move_done' = [move_done EXCEPT ![top[th].prev] =
                             move_done[top[th].prev] + ChunkSize(th)]
      BY <1>9 DEF MvDone, At, TypeOK, LocalsTyped
    <2>2. ASSUME Serve(th, top[th].latest, top[th].prev) PROVE pc'[th] # "mv_detach"
      BY <2>2 DEF Serve, CallPutIfMatch, Goto, TypeOK, LocalsTyped
    <2>3. pc'[th] = "mv_detach" => move_done[top[th].prev] + ChunkSize(th) = Cap[top[th].prev]
      BY <1>9, <2>2 DEF MvDone, IsLast
    <2> QED
      BY <2>1, <2>3 DEF Gives
  <1>10. CASE PmKey(th)
    <2>1. pc[th] \in PutLabels /\ UNCHANGED chunks
      BY <1>10 DEF PmKey, At, PutLabels
    <2> QED
      BY <1>10, <2>1, PmReturnHolds, JumpHolds DEF PmKey
  <1>11. CASE PmWrite(th)
    <2>1. pc[th] \in PutLabels /\ UNCHANGED chunks
      BY <1>11 DEF PmWrite, At, PutLabels
    <2> QED
      BY <1>11, <2>1, PmReturnHolds, JumpHolds DEF PmWrite
  <1>12. CASE RlKey(th)
    <2>1. pc[th] = "rl_key" /\ UNCHANGED chunks
      BY <1>12 DEF RlKey, At, tables
    <2>2. ~InPutIfMatch(th) => ~pm[th].mover
      BY DEF Framed
    <2>3. ASSUME NEW w, RlReturn(th, w) PROVE Holds(th)
      BY <2>1, <2>2, <2>3, NoChunkAt, ReturnHolds, JumpHolds DEF RlReturn
    <2> QED
      BY <1>12, <2>1, <2>3, JumpHolds DEF RlKey, ScanNext
  <1>13. CASE GetKey(th)
    <2>1. mv[th] = NoMove /\ UNCHANGED chunks
      BY <1>13, NoChunkAt DEF GetKey, At, tables
    <2> QED
      BY <1>13, <2>1, ReturnHolds, JumpHolds DEF GetKey, ScanNext
  <1> QED
    BY <1>1, <1>2, <1>3, <1>4, <1>5, <1>6, <1>7, <1>8, <1>9, <1>10, <1>11, <1>12, <1>13
    DEF Step

-----------------------------------------------------------------------------
(* The chain of tables.                                                    *)

LEMMA LinkedStep ==
  ASSUME TypeOK, Linked, NEW th \in Threads, Framed(th), Step(th)
  PROVE  Linked' /\ latest <= latest' /\ retired \subseteq retired'
  <1>1. /\ latest \in Nat /\ latest \in 1 .. MaxTables /\ MaxTables \in Nat
        /\ prev \in [Tables -> MaybeTable]
        /\ \A t \in Tables : t \in Nat /\ 1 <= t /\ t <= MaxTables
    BY SizeAssumption DEF TypeOK, TablesTyped, Tables
  <1>2. CASE UNCHANGED chain
    BY <1>1, <1>2 DEF chain, Linked
  <1>3. CASE Grows(th)
    <2>1. /\ latest' = latest + 1 /\ retired' = retired /\ latest < MaxTables
          /\ prev' = [prev EXCEPT ![latest + 1] = latest]
      BY <1>3 DEF Grows
    <2>2. latest \notin retired
      BY <1>1 DEF Linked
    <2>3. ASSUME NEW t \in Tables
          PROVE  prev'[t] = IF 1 < t /\ t <= latest' /\ t - 1 \notin retired'
                            THEN t - 1 ELSE NULL
      <3>1. CASE t = latest + 1
        BY <1>1, <2>1, <2>2, <3>1
      <3>2. CASE t # latest + 1
        <4>1. prev'[t] = prev[t] /\ (t <= latest' <=> t <= latest)
          BY <1>1, <2>1, <3>2
        <4> QED
          BY <2>1, <4>1 DEF Linked
      <3> QED
        BY <3>1, <3>2
    <2> QED
      BY <1>1, <2>1, <2>3 DEF Linked
  <1>4. CASE MvDetach(th)
    <2> DEFINE l == top[th].latest
               p == top[th].prev
    <2>1. p \in Tables /\ l \in Tables
      BY <1>4, Fields DEF MvDetach, At, TypeOK, FrameInUse
    <2>2. /\ latest' = latest /\ prev' = [prev EXCEPT ![l] = NULL]
          /\ retired' = retired \union {p}
      BY <1>4 DEF MvDetach
    <2>3. p = l - 1 /\ l <= latest
      BY <2>1, CallAssumption DEF Framed
    <2> HIDE DEF l, p
    <2>4. ASSUME NEW t \in Tables
          PROVE  prev'[t] = IF 1 < t /\ t <= latest' /\ t - 1 \notin retired'
                            THEN t - 1 ELSE NULL
      <3>1. CASE t = l
        BY <1>1, <2>1, <2>2, <2>3, <3>1
      <3>2. CASE t # l
        <4>1. prev'[t] = prev[t] /\ t - 1 # p
          BY <1>1, <2>1, <2>2, <2>3, <3>2
        <4> QED
          BY <2>2, <4>1 DEF Linked
      <3> QED
        BY <3>1, <3>2
    <2>5. p \in 1 .. (latest - 1)
      BY <1>1, <2>1, <2>3
    <2> QED
      BY <1>1, <2>2, <2>4, <2>5 DEF Linked
  <1> QED
    BY <1>2, <1>3, <1>4, LinkSteps

-----------------------------------------------------------------------------
(* The chunks of a table and the slots that are accounted for.             *)

LEMMA ChunkFacts ==
  ASSUME TypeOK, NEW th \in Threads, Framed(th), HasChunk(th)
  PROVE  /\ top[th].prev \in Tables
         /\ mv[th].old \in Nat /\ mv[th].new \in Nat /\ mv[th].i \in Nat
         /\ mv[th].old < mv[th].new
         /\ mv[th].new <= moved[top[th].prev]
         /\ moved[top[th].prev] \in Nat /\ Cap[top[th].prev] \in Nat
         /\ moved[top[th].prev] <= Cap[top[th].prev]
  <1>1. top[th].prev \in Tables
    BY Fields DEF TypeOK, Framed, MaybeTable
  <1>2. /\ moved[top[th].prev] \in Nat /\ Cap[top[th].prev] \in Nat
        /\ moved[top[th].prev] <= Cap[top[th].prev]
    BY <1>1, SizeAssumption DEF TypeOK, TablesTyped
  <1> QED
    BY <1>1, <1>2, Fields DEF TypeOK, Framed

LEMMA AccountedFinite ==
  ASSUME TypeOK, NEW p \in Tables
  PROVE  /\ IsFiniteSet(Accounted(p)) /\ Cardinality(Accounted(p)) \in Nat
         /\ Cardinality(Accounted(p)) <= moved[p]
  <1>1. moved[p] \in Nat
    BY DEF TypeOK, TablesTyped
  <1>2. PICK m \in Nat : m = moved[p]
    BY <1>1
  <1>3. IsFiniteSet(0 .. (m - 1)) /\ Cardinality(0 .. (m - 1)) = m
    BY FS_Interval
  <1>4. Accounted(p) \subseteq 0 .. (m - 1)
    BY <1>2 DEF Accounted
  <1> QED
    BY <1>2, <1>3, <1>4, FS_Subset, FS_CardinalityType

\* A chunk is not accounted for while a thread has it.
LEMMA ChunkRoom ==
  ASSUME TypeOK, NEW th \in Threads, Framed(th), HasChunk(th)
  PROVE  LET p == top[th].prev
             chunk == mv[th].old .. (mv[th].new - 1)
         IN  /\ Accounted(p) \intersect chunk = {}
             /\ IsFiniteSet(chunk) /\ Cardinality(chunk) = ChunkSize(th)
             /\ ChunkSize(th) \in Nat \ {0}
             /\ Cardinality(Accounted(p)) + ChunkSize(th) <= moved[p]
  <1> DEFINE p == top[th].prev
             chunk == mv[th].old .. (mv[th].new - 1)
  <1>1. PICK o \in Nat, n \in Nat, m \in Nat :
           /\ o = mv[th].old /\ n = mv[th].new /\ m = moved[p] /\ o < n /\ n <= m
    BY ChunkFacts
  <1>2. p \in Tables
    BY ChunkFacts
  <1>3. chunk = o .. (n - 1)
    BY <1>1
  <1>4. ChunkSize(th) = n - o
    BY <1>1 DEF ChunkSize
  <1>5. IsFiniteSet(chunk) /\ Cardinality(chunk) = n - o
    <2>1. o \in Int /\ n - 1 \in Int /\ ~(o > n - 1) /\ (n - 1) - o + 1 = n - o
      BY <1>1
    <2>2. IsFiniteSet(o .. (n - 1)) /\ Cardinality(o .. (n - 1)) = n - o
      BY <2>1, FS_Interval
    <2> QED
      BY <1>3, <2>2
  <1>6. Accounted(p) \intersect chunk = {}
    BY DEF Accounted, InChunk
  <1>7. IsFiniteSet(Accounted(p)) /\ Cardinality(Accounted(p)) \in Nat
    BY <1>2, AccountedFinite
  <1>8. IsFiniteSet(0 .. (m - 1)) /\ Cardinality(0 .. (m - 1)) = m
    BY FS_Interval
  <1>9. Accounted(p) \union chunk \subseteq 0 .. (m - 1)
    BY <1>1, <1>3 DEF Accounted
  <1>10. Cardinality(Accounted(p) \union chunk) <= m
    BY <1>8, <1>9, FS_Subset
  <1>11. /\ Cardinality(Accounted(p) \intersect chunk) = 0
         /\ Cardinality(Accounted(p) \union chunk)
              = Cardinality(Accounted(p)) + Cardinality(chunk)
                  - Cardinality(Accounted(p) \intersect chunk)
    BY <1>5, <1>6, <1>7, FS_Union, FS_EmptySet
  <1> HIDE DEF p, chunk
  <1>12. Cardinality(Accounted(p)) + (n - o) <= m
    BY <1>1, <1>5, <1>7, <1>10, <1>11
  <1>13. n - o \in Nat \ {0}
    BY <1>1
  <1>14. /\ Accounted(p) \intersect chunk = {} /\ IsFiniteSet(chunk)
         /\ Cardinality(chunk) = ChunkSize(th) /\ ChunkSize(th) \in Nat \ {0}
         /\ Cardinality(Accounted(p)) + ChunkSize(th) <= moved[p]
    BY <1>1, <1>4, <1>5, <1>6, <1>12, <1>13
  <1> QED
    BY <1>14 DEF p, chunk

\* Whoever has a chunk of a table keeps the table from being detached.
LEMMA NotAllDone ==
  ASSUME TypeOK, Chunked, NEW th \in Threads, Framed(th), HasChunk(th)
  PROVE  LET p == top[th].prev IN
         /\ p \in Tables /\ move_done[p] # Cap[p] /\ p \notin retired
         /\ \A t2 \in Threads : Framed(t2) /\ top[t2].prev = p => pc[t2] # "mv_detach"
  <1> DEFINE p == top[th].prev
  <1>1. p \in Tables /\ moved[p] \in Nat /\ Cap[p] \in Nat /\ moved[p] <= Cap[p]
    BY ChunkFacts
  <1>2. move_done[p] = Cardinality(Accounted(p))
    BY <1>1 DEF Chunked
  <1>3. PICK d \in Nat, c \in Nat, m \in Nat, z \in Nat \ {0} :
           d = move_done[p] /\ c = Cap[p] /\ m = moved[p] /\ d + z <= m /\ m <= c
    BY <1>1, <1>2, ChunkRoom, AccountedFinite
  <1>4. d # c
    BY <1>3
  <1> QED
    BY <1>1, <1>3, <1>4 DEF Chunked, Framed

LEMMA OthersChunks ==
  ASSUME TypeOK, NEW th \in Threads, Step(th), NEW t2 \in Threads \ {th}, NEW p, NEW s
  PROVE  InChunk(t2, p, s)' <=> InChunk(t2, p, s)
  BY EveryStepTyped DEF TypedStep, LocalStep, SameLocals, InChunk

\* A thread without a chunk has no slot in it.
LEMMA NoSlot ==
  ASSUME NEW th, mv[th] = NoMove, NEW p, NEW s
  PROVE  ~InChunk(th, p, s)
  <1>1. 0 .. (0 - 1) = {}
    OBVIOUS
  <1> QED
    BY <1>1 DEF InChunk, NoMove

LEMMA HoldsChunked ==
  ASSUME TypeOK, Chunked, NEW th \in Threads, Framed(th), Step(th), Holds(th)
  PROVE  \A p \in Tables : /\ Accounted(p)' = Accounted(p)
                           /\ \A t2 \in Threads : \A s : InChunk(t2, p, s)' <=> InChunk(t2, p, s)
  <1> SUFFICES ASSUME NEW p \in Tables
               PROVE  /\ Accounted(p)' = Accounted(p)
                      /\ \A t2 \in Threads : \A s : InChunk(t2, p, s)' <=> InChunk(t2, p, s)
    OBVIOUS
  <1>1. ASSUME NEW s PROVE InChunk(th, p, s)' <=> InChunk(th, p, s)
    <2>1. CASE top'[th].prev = top[th].prev
      BY <2>1 DEF Holds, InChunk
    <2>2. CASE mv[th] = NoMove
      <3>1. mv'[th].old = 0 /\ mv'[th].new = 0
        BY <2>2 DEF Holds, NoMove
      <3>2. 0 .. (0 - 1) = {}
        OBVIOUS
      <3> QED
        BY <2>2, <3>1, <3>2, NoSlot DEF InChunk
    <2> QED
      BY <2>1, <2>2 DEF Holds
  <1>2. ASSUME NEW t2 \in Threads, NEW s PROVE InChunk(t2, p, s)' <=> InChunk(t2, p, s)
    BY <1>1, OthersChunks
  <1>3. moved' = moved
    BY DEF Holds, chunks
  <1>4. Accounted(p)' = Accounted(p)
    BY <1>2, <1>3 DEF Accounted
  <1> QED
    BY <1>2, <1>4

LEMMA TakesChunked ==
  ASSUME TypeOK, Chunked, NEW th \in Threads, Step(th), Takes(th),
         \A t2 \in Threads : Framed(t2)
  PROVE  \A p \in Tables :
            /\ Accounted(p)' = Accounted(p)
            /\ \A s \in Slots(p) : \A t1, t2 \in Threads :
                  InChunk(t1, p, s)' /\ InChunk(t2, p, s)' => t1 = t2
  <1>1. PICK q \in Tables : q = top[th].prev
    BY DEF Takes
  <1>2. PICK m \in Nat, new \in Nat :
           /\ m = moved[q] /\ m < new /\ new <= Cap[q]
           /\ moved' = [moved EXCEPT ![q] = new] /\ mv'[th] = Chunk(m, m, new)
    BY <1>1 DEF Takes, TypeOK, TablesTyped
  <1>3. moved'[q] = new /\ \A p \in Tables \ {q} : moved'[p] = moved[p]
    BY <1>1, <1>2 DEF TypeOK, TablesTyped
  <1>4. mv[th] = NoMove
    BY NoChunkAt DEF Takes
  <1>5. \A p, s : ~InChunk(th, p, s)
    BY <1>4, NoSlot
  <1>6. \A p, s : InChunk(th, p, s)' <=> p = q /\ s \in m .. (new - 1)
    BY <1>1, <1>2 DEF InChunk, Takes, Chunk
  <1>7. ASSUME NEW t2 \in Threads \ {th}, NEW s, InChunk(t2, q, s)
        PROVE  s \in 0 .. (m - 1)
    <2>1. HasChunk(t2)
      BY <1>7, NoSlot DEF Framed
    <2>2. top[t2].prev = q /\ s \in mv[t2].old .. (mv[t2].new - 1)
      BY <1>7 DEF InChunk
    <2>3. PICK o \in Nat, n \in Nat : o = mv[t2].old /\ n = mv[t2].new /\ n <= m
      BY <1>2, <2>1, <2>2, ChunkFacts
    <2> QED
      BY <2>2, <2>3
  <1>8. ASSUME NEW s, s \in m .. (new - 1) PROVE s \notin 0 .. (m - 1) /\ s \in 0 .. (new - 1)
    BY <1>8
  <1>9. ASSUME NEW s, s \in 0 .. (m - 1) PROVE s \notin m .. (new - 1) /\ s \in 0 .. (new - 1)
    BY <1>2, <1>9
  <1>10. ASSUME NEW s, s \in 0 .. (new - 1) PROVE s \in 0 .. (m - 1) \/ s \in m .. (new - 1)
    BY <1>10
  <1>11. ASSUME NEW p \in Tables PROVE Accounted(p)' = Accounted(p)
    <2>1. CASE p = q
      <3>1. Accounted(q) = {s \in 0 .. (m - 1) : \A t2 \in Threads \ {th} : ~InChunk(t2, q, s)}
        BY <1>2, <1>5 DEF Accounted
      <3>2. Accounted(q)' = {s \in 0 .. (new - 1) : \A t2 \in Threads : ~InChunk(t2, q, s)'}
        BY <1>3 DEF Accounted
      <3>3. \A s : \A t2 \in Threads \ {th} : InChunk(t2, q, s)' <=> InChunk(t2, q, s)
        BY OthersChunks
      <3> QED
        BY <1>6, <1>8, <1>9, <1>10, <2>1, <3>1, <3>2, <3>3
    <2>2. CASE p # q
      <3>1. \A s : \A t2 \in Threads : InChunk(t2, p, s)' <=> InChunk(t2, p, s)
        BY <1>5, <1>6, <2>2, OthersChunks
      <3> QED
        BY <1>3, <2>2, <3>1 DEF Accounted
    <2> QED
      BY <2>1, <2>2
  <1>12. ASSUME NEW p \in Tables, NEW s \in Slots(p), NEW t2 \in Threads \ {th},
                InChunk(th, p, s)', InChunk(t2, p, s)'
         PROVE  FALSE
    BY <1>6, <1>7, <1>8, <1>12, OthersChunks
  <1>13. ASSUME NEW p \in Tables, NEW s \in Slots(p),
                NEW t1 \in Threads \ {th}, NEW t2 \in Threads \ {th},
                InChunk(t1, p, s)', InChunk(t2, p, s)'
         PROVE  t1 = t2
    BY <1>13, OthersChunks DEF Chunked
  <1> QED
    BY <1>11, <1>12, <1>13

LEMMA GivesChunked ==
  ASSUME TypeOK, Chunked, NEW th \in Threads, Framed(th), Step(th), Gives(th),
         NEW q \in Tables, q = top[th].prev
  PROVE  /\ \A p \in Tables \ {q} : Accounted(p)' = Accounted(p)
         /\ Accounted(q)' = Accounted(q) \union (mv[th].old .. (mv[th].new - 1))
         /\ \A p \in Tables : \A s : \A t2 \in Threads : InChunk(t2, p, s)' => InChunk(t2, p, s)
  <1>0. PICK chunk : chunk = mv[th].old .. (mv[th].new - 1)
    OBVIOUS
  <1>1. HasChunk(th) /\ mv'[th] = NoMove /\ moved' = moved
    BY DEF Gives, HasChunk
  <1>2. \A p, s : ~InChunk(th, p, s)'
    <2>1. 0 .. (0 - 1) = {}
      OBVIOUS
    <2> QED
      BY <1>1, <2>1 DEF InChunk, NoMove
  <1>3. \A p, s : InChunk(th, p, s) <=> p = q /\ s \in chunk
    BY <1>0 DEF InChunk
  <1>4. \A p, s : \A t2 \in Threads \ {th} : InChunk(t2, p, s)' <=> InChunk(t2, p, s)
    BY OthersChunks
  <1>5. \A p \in Tables \ {q} : Accounted(p)' = Accounted(p)
    BY <1>1, <1>2, <1>3, <1>4 DEF Accounted
  <1>6. PICK o \in Nat, n \in Nat, m \in Nat, c \in Nat :
           /\ o = mv[th].old /\ n = mv[th].new /\ m = moved[q] /\ c = Cap[q]
           /\ n <= m /\ m <= c
    BY <1>1, ChunkFacts
  <1>7. chunk \subseteq 0 .. (m - 1) /\ chunk \subseteq 0 .. (c - 1)
    <2>1. chunk = o .. (n - 1)
      BY <1>0, <1>6
    <2>2. n <= m /\ m <= c
      BY <1>6
    <2>3. o .. (n - 1) \subseteq 0 .. (m - 1) /\ o .. (n - 1) \subseteq 0 .. (c - 1)
      BY <2>2
    <2> QED
      BY <2>1, <2>3
  <1>8. \A s \in chunk : \A t2 \in Threads \ {th} : ~InChunk(t2, q, s)
    <2>1. chunk \subseteq Slots(q)
      BY <1>6, <1>7 DEF Slots
    <2> QED
      BY <1>3, <2>1 DEF Chunked
  <1>9. Accounted(q)' = Accounted(q) \union chunk
    <2>1. Accounted(q) = {s \in 0 .. (m - 1) : \A t2 \in Threads : ~InChunk(t2, q, s)}
      BY <1>6 DEF Accounted
    <2>2. Accounted(q)' = {s \in 0 .. (m - 1) : \A t2 \in Threads : ~InChunk(t2, q, s)'}
      BY <1>1, <1>6 DEF Accounted
    <2>3. ASSUME NEW s \in chunk PROVE s \in Accounted(q)'
      BY <1>2, <1>4, <1>7, <1>8, <2>2, <2>3
    <2>4. ASSUME NEW s \in Accounted(q) PROVE s \in Accounted(q)'
      BY <1>2, <1>4, <2>1, <2>2, <2>4
    <2>5. ASSUME NEW s \in Accounted(q)', s \notin chunk PROVE s \in Accounted(q)
      BY <1>3, <1>4, <2>1, <2>2, <2>5
    <2> QED
      BY <2>3, <2>4, <2>5
  <1> QED
    BY <1>0, <1>2, <1>4, <1>5, <1>9

LEMMA AllChunked ==
  ASSUME TypeOK, Chunked, NEW th \in Threads, Step(th),
         \A t2 \in Threads : Framed(t2)
  PROVE  /\ \A p \in Tables : \A s \in Slots(p) : \A t1, t2 \in Threads :
               InChunk(t1, p, s)' /\ InChunk(t2, p, s)' => t1 = t2
         /\ \A p \in Tables : /\ move_done'[p] = Cardinality(Accounted(p)')
                              /\ move_done[p] = Cap[p] => move_done'[p] = Cap[p]
  <1>1. CASE Holds(th)
    <2>1. move_done' = move_done
      BY <1>1 DEF Holds, chunks
    <2> QED
      BY <1>1, <2>1, HoldsChunked DEF Chunked
  <1>2. CASE Takes(th)
    <2>1. move_done' = move_done
      BY <1>2 DEF Takes
    <2> QED
      BY <1>2, <2>1, TakesChunked DEF Chunked
  <1>3. CASE Gives(th)
    <2>1. HasChunk(th)
      BY <1>3 DEF Gives, HasChunk
    <2>2. PICK q \in Tables : q = top[th].prev
      BY <2>1, ChunkFacts
    <2>3. /\ \A p \in Tables \ {q} : Accounted(p)' = Accounted(p)
          /\ Accounted(q)' = Accounted(q) \union (mv[th].old .. (mv[th].new - 1))
          /\ \A p \in Tables : \A s : \A t2 \in Threads : InChunk(t2, p, s)' => InChunk(t2, p, s)
      BY <1>3, <2>2, GivesChunked
    <2>4. move_done' = [move_done EXCEPT ![q] = move_done[q] + ChunkSize(th)]
      BY <1>3, <2>2 DEF Gives
    <2>5. move_done \in [Tables -> Nat]
      BY DEF TypeOK, TablesTyped
    <2>6. move_done'[q] = Cardinality(Accounted(q)')
      <3>1. PICK C : C = mv[th].old .. (mv[th].new - 1)
        OBVIOUS
      <3>2. /\ Accounted(q) \intersect C = {} /\ IsFiniteSet(C)
            /\ Cardinality(C) = ChunkSize(th) /\ ChunkSize(th) \in Nat \ {0}
        BY <2>1, <2>2, <3>1, ChunkRoom
      <3>3. IsFiniteSet(Accounted(q)) /\ Cardinality(Accounted(q)) \in Nat
        BY AccountedFinite
      <3>4. Cardinality(Accounted(q) \intersect C) = 0
        BY <3>2, FS_EmptySet
      <3>5. Cardinality(Accounted(q) \union C)
              = Cardinality(Accounted(q)) + Cardinality(C) - Cardinality(Accounted(q) \intersect C)
        BY <3>2, <3>3, FS_Union
      <3>6. Cardinality(Accounted(q)') = Cardinality(Accounted(q)) + ChunkSize(th)
        BY <2>3, <3>1, <3>2, <3>3, <3>4, <3>5
      <3>7. move_done[q] = Cardinality(Accounted(q))
        BY DEF Chunked
      <3> QED
        BY <2>4, <2>5, <3>6, <3>7
    <2>7. \A p \in Tables \ {q} : move_done'[p] = move_done[p]
      BY <2>4, <2>5
    <2>8. move_done[q] # Cap[q]
      BY <2>1, <2>2, NotAllDone
    <2> QED
      BY <2>3, <2>6, <2>7, <2>8 DEF Chunked
  <1> QED
    BY <1>1, <1>2, <1>3, ChunkSteps

LEMMA ChunkedStep ==
  ASSUME TypeOK, Chunked, NEW th \in Threads, Step(th),
         \A t2 \in Threads : Framed(t2)
  PROVE  Chunked'
  <1>1. \A p \in Tables : \A s \in Slots(p) : \A t1, t2 \in Threads :
               InChunk(t1, p, s)' /\ InChunk(t2, p, s)' => t1 = t2
    BY AllChunked
  <1>2. \A p \in Tables : /\ move_done'[p] = Cardinality(Accounted(p)')
                          /\ move_done[p] = Cap[p] => move_done'[p] = Cap[p]
    BY AllChunked
  <1>3. ASSUME NEW p \in retired' PROVE move_done'[p] = Cap[p]
    <2>1. retired \subseteq Tables /\ retired' \subseteq Tables
      BY EveryStepTyped DEF TypedStep, TypeOK, TablesTyped
    <2>2. CASE p \in retired
      BY <1>2, <2>1, <2>2 DEF Chunked
    <2>3. CASE p \notin retired
      <3>1. MvDetach(th)
        BY <1>3, <2>3, LinkSteps DEF chain, Grows
      <3>2. p = top[th].prev /\ pc[th] = "mv_detach"
        BY <1>3, <2>3, <3>1 DEF MvDetach, At
      <3> QED
        BY <1>2, <1>3, <2>1, <3>2 DEF Framed
    <2> QED
      BY <2>2, <2>3
  <1>4. \A t2 \in Threads \ {th} : pc'[t2] = pc[t2] /\ top'[t2] = top[t2]
    BY EveryStepTyped DEF TypedStep, LocalStep, SameLocals
  <1>5. ASSUME pc'[th] = "mv_detach", NEW t2 \in Threads \ {th}, pc'[t2] = "mv_detach",
               top'[th].prev = top'[t2].prev
        PROVE  FALSE
    <2>1. Gives(th)
      BY <1>5, ChunkSteps DEF Holds, Takes
    <2>2. HasChunk(th) /\ top'[th] = top[th]
      BY <2>1 DEF Gives, HasChunk
    <2>3. pc[t2] = "mv_detach" /\ top[t2].prev = top[th].prev
      BY <1>4, <1>5, <2>2
    <2> QED
      BY <2>2, <2>3, NotAllDone
  <1>6. ASSUME NEW t1 \in Threads, NEW t2 \in Threads,
               pc'[t1] = "mv_detach", pc'[t2] = "mv_detach", top'[t1].prev = top'[t2].prev
        PROVE  t1 = t2
    <2>1. CASE t1 = th \/ t2 = th
      BY <1>5, <1>6, <2>1
    <2>2. CASE t1 # th /\ t2 # th
      BY <1>4, <1>6, <2>2 DEF Chunked
    <2> QED
      BY <2>1, <2>2
  <1> QED
    BY <1>1, <1>2, <1>3, <1>6 DEF Chunked

LEMMA OthersFramed ==
  ASSUME TypeOK, Linked, Chunked, NEW th \in Threads, Step(th),
         \A t2 \in Threads : Framed(t2),
         NEW t2 \in Threads \ {th}
  PROVE  Framed(t2)'
  <1>1. /\ pc'[t2] = pc[t2] /\ top'[t2] = top[t2] /\ mv'[t2] = mv[t2] /\ pm'[t2] = pm[t2]
    BY EveryStepTyped DEF TypedStep, LocalStep, SameLocals
  <1>2. \A p \in Tables : moved[p] \in Nat /\ moved'[p] \in Nat /\ moved[p] <= moved'[p]
    <2>1. moved \in [Tables -> Nat] /\ moved' \in [Tables -> Nat]
      BY EveryStepTyped DEF TypedStep, TypeOK, TablesTyped
    <2>2. CASE moved' = moved
      BY <2>1, <2>2
    <2>3. CASE Takes(th)
      BY <2>1, <2>3 DEF Takes
    <2> QED
      BY <2>1, <2>2, <2>3, ChunkSteps DEF Holds, Gives, chunks
  <1>3. latest \in Nat /\ latest' \in Nat /\ latest <= latest'
    <2>1. Framed(th) /\ latest \in Tables /\ latest' \in Tables
      BY EveryStepTyped DEF TypedStep, TypeOK, TablesTyped
    <2>2. latest <= latest'
      BY <2>1, LinkedStep
    <2> QED
      BY <2>1, <2>2 DEF Tables
  <1>4. /\ top[t2].latest \in Nat /\ pm[t2].latest \in Nat
        /\ top[t2].prev # NULL => top[t2].prev \in Tables
    BY Fields DEF TypeOK, Tables, MaybeTable
  <1>5. HasChunk(t2)' <=> HasChunk(t2)
    BY <1>1 DEF HasChunk, Moving
  <1>6. HasChunk(t2) => mv[t2].new <= moved'[top[t2].prev]
    <2>1. SUFFICES ASSUME HasChunk(t2) PROVE mv[t2].new <= moved'[top[t2].prev]
      OBVIOUS
    <2>2. PICK p \in Tables : p = top[t2].prev
      BY <2>1, ChunkFacts
    <2>3. mv[t2].new \in Nat /\ mv[t2].new <= moved[p]
      BY <2>1, <2>2, ChunkFacts
    <2> QED
      BY <1>2, <2>2, <2>3
  <1>7. pc[t2] = "mv_detach" =>
           top[t2].prev \notin retired' /\ move_done'[top[t2].prev] = Cap[top[t2].prev]
    <2>1. SUFFICES ASSUME pc[t2] = "mv_detach"
                   PROVE  top[t2].prev \notin retired'
                          /\ move_done'[top[t2].prev] = Cap[top[t2].prev]
      OBVIOUS
    <2>2. PICK p \in Tables : p = top[t2].prev
      BY <2>1 DEF TypeOK, FrameInUse
    <2>3. move_done'[p] = Cap[p] /\ p \notin retired
      BY <2>1, <2>2, AllChunked DEF Framed
    <2>4. MvDetach(th) => retired' = retired \union {top[th].prev} /\ top[th].prev # p
      BY <2>1, <2>2 DEF Chunked, MvDetach, At
    <2> QED
      BY <2>2, <2>3, <2>4, LinkSteps DEF chain, Grows
  <1>8. top[t2].latest <= latest' /\ pm[t2].latest <= latest'
    <2>1. top[t2].latest <= latest /\ pm[t2].latest <= latest
      BY DEF Framed
    <2> QED
      BY <1>3, <1>4, <2>1
  <1> QED
    BY <1>1, <1>5, <1>6, <1>7, <1>8 DEF Framed, Idle, InPutIfMatch

-----------------------------------------------------------------------------
(* Where a thread's own steps leave it.                                    *)

\* At a place without a chunk, outside put_if_match.
LEMMA PlaceFramed ==
  ASSUME NEW th \in Threads, pm'[th] = NoFrame, mv'[th] = NoMove,
         pc'[th] \notin {"mv_key", "mv_prime", "mv_done", "mv_detach", "assert(key)"},
         pc'[th] \in Idle => top'[th].prev = NULL,
         top'[th].prev # NULL => top'[th].prev = top'[th].latest - 1,
         top'[th].latest <= latest', 1 <= latest'
  PROVE  Framed(th)'
  BY DEF Framed, HasChunk, Moving, NoFrame

LEMMA ReturnFramed ==
  ASSUME TypeOK, NEW th \in Threads, NEW w, Return(th, w), 1 <= latest'
  PROVE  Framed(th)'
  <1>1. pc'[th] = "exit" /\ top'[th] = NoTop /\ mv'[th] = NoMove /\ pm'[th] = NoFrame
    BY DEF TypeOK, LocalsTyped, Return, Goto
  <1>2. top'[th].latest = 1 /\ top'[th].prev = NULL
    BY <1>1 DEF NoTop
  <1> QED
    BY <1>1, <1>2, PlaceFramed

LEMMA ServeFramed ==
  ASSUME TypeOK, NEW th \in Threads, pm[th] = NoFrame, mv'[th] = NoMove,
         NEW l, NEW p, Serve(th, l, p), l <= latest',
         top'[th].prev # NULL => top'[th].prev = top'[th].latest - 1,
         top'[th].latest <= latest', 1 <= latest'
  PROVE  Framed(th)'
  <1>1. CASE CallPutIfMatch(th, l, p, call[th].key, call[th].val, FALSE)
    <2>1. /\ pc'[th] = "pm_top"
          /\ pm'[th] = [latest |-> l, prev |-> p, key |-> call[th].key, val |-> call[th].val,
                        i |-> 0, v |-> Empty, mover |-> FALSE]
      BY <1>1 DEF TypeOK, LocalsTyped, CallPutIfMatch, Goto
    <2>2. pm'[th].latest = l /\ ~pm'[th].mover
      BY <2>1
    <2> QED
      BY <2>1, <2>2 DEF Framed, HasChunk, Moving, Idle
  <1>2. CASE (Goto(th, "get_val") \/ Goto(th, "load_prev")) /\ UNCHANGED pm
    <2>1. pc'[th] \in {"get_val", "load_prev"} /\ pm'[th] = NoFrame
      BY <1>2 DEF TypeOK, LocalsTyped, Goto
    <2> QED
      BY <2>1, PlaceFramed DEF Idle
  <1> QED
    BY <1>1, <1>2 DEF Serve

LEMMA MvAdvanceFramed ==
  ASSUME TypeOK, NEW th \in Threads, Framed(th), Moving(th), MvAdvance(th),
         pm'[th] = NoFrame, top'[th] = top[th], latest' = latest, moved' = moved,
         1 <= latest
  PROVE  Framed(th)'
  <1>1. /\ mv'[th] = Chunk(mv[th].old, mv[th].i + 1, mv[th].new)
        /\ pc'[th] = IF mv[th].i + 1 < mv[th].new THEN "mv_key" ELSE "mv_done"
    BY DEF TypeOK, LocalsTyped, MvAdvance, Goto
  <1>2. mv[th].i \in Nat /\ mv[th].new \in Nat /\ mv[th].i < mv[th].new
    BY Fields DEF TypeOK, FrameInUse
  <1>3. /\ mv'[th].old = mv[th].old /\ mv'[th].new = mv[th].new
        /\ pc'[th] = "mv_done" => mv'[th].i = mv'[th].new
    BY <1>1, <1>2 DEF Chunk
  <1>4. pc'[th] \in {"mv_key", "mv_done"}
    BY <1>1
  <1>5. HasChunk(th)
    BY DEF HasChunk
  <1> QED
    BY <1>3, <1>4, <1>5 DEF Framed, HasChunk, Moving, Idle, NoFrame

LEMMA PmReturnFramed ==
  ASSUME TypeOK, NEW th \in Threads, Framed(th), pc[th] \in PutLabels, NEW w,
         PmReturn(th, w), latest' = latest, moved' = moved, 1 <= latest
  PROVE  Framed(th)'
  <1>1. CASE pm[th].mover
    <2>1. Moving(th) /\ MvAdvance(th) /\ pm'[th] = NoFrame /\ top'[th] = top[th]
      BY <1>1 DEF Moving, PmReturn, TypeOK, LocalsTyped
    <2> QED
      BY <2>1, MvAdvanceFramed
  <1>2. CASE ~pm[th].mover
    BY <1>2, ReturnFramed DEF PmReturn
  <1> QED
    BY <1>1, <1>2

\* From one place of put_if_match or of a lookup to another.
Inner == PutLabels \union {"rl_val", "rl_key", "get_val", "get_key",
                           "assert(prev->prev == NULL)"}

LEMMA InnerFramed ==
  ASSUME TypeOK, NEW th \in Threads, Framed(th), pc[th] \in Inner, pc'[th] \in Inner,
         top'[th] = top[th], mv'[th] = mv[th], moved' = moved,
         pm'[th].mover = pm[th].mover, pm'[th].key = pm[th].key,
         pm[th].latest \in Nat, pm'[th].latest \in Nat, top[th].latest \in Nat,
         latest \in Nat, latest' \in Nat, latest <= latest',
         pm[th].latest <= pm'[th].latest, pm'[th].latest <= latest'
  PROVE  Framed(th)'
  <1>1. /\ pc[th] \notin {"mv_key", "mv_prime", "mv_done", "mv_detach", "assert(key)"}
        /\ pc'[th] \notin {"mv_key", "mv_prime", "mv_done", "mv_detach", "assert(key)"}
        /\ pc'[th] \notin Idle
    BY DEF Inner, PutLabels, Idle
  <1>2. HasChunk(th)' <=> HasChunk(th)
    BY <1>1 DEF HasChunk, Moving
  <1>3. top[th].latest <= latest'
    BY DEF Framed
  <1>4. pm[th].mover => top[th].latest <= pm'[th].latest
    BY DEF Framed
  <1> QED
    BY <1>1, <1>2, <1>3, <1>4 DEF Framed, InPutIfMatch

LEMMA ThreadFramed ==
  ASSUME TypeOK, Linked, Chunked, NEW th \in Threads, Framed(th), Step(th)
  PROVE  Framed(th)'
  <1>1. /\ latest \in Nat /\ latest' \in Nat /\ latest <= latest' /\ 1 <= latest /\ 1 <= latest'
        /\ top[th].latest \in Nat /\ pm[th].latest \in Nat
    <2>1. latest \in Tables /\ latest' \in Tables
      BY EveryStepTyped DEF TypedStep, TypeOK, TablesTyped
    <2>2. latest <= latest'
      BY LinkedStep
    <2>3. top[th].latest \in Tables /\ pm[th].latest \in Tables
      BY Fields DEF TypeOK
    <2> QED
      BY <2>1, <2>2, <2>3 DEF Tables
  <1>2. /\ pc[th] \notin PutLabels \union {"rl_val", "rl_key"} \union Asserts => pm[th] = NoFrame
        /\ top[th].latest <= latest /\ pm[th].latest <= latest
        /\ top[th].prev # NULL => top[th].prev = top[th].latest - 1
    BY DEF TypeOK, FrameInUse, Framed
  <1> DEFINE Jumps == /\ pc'[th] \in Inner /\ UNCHANGED <<moved, latest>>
                      /\ top'[th] = top[th] /\ mv'[th] = mv[th]
                      /\ pm'[th].mover = pm[th].mover /\ pm'[th].key = pm[th].key
                      /\ pm'[th].latest = pm[th].latest \/ pm'[th].latest = latest
  <1>3. ASSUME pc[th] \in Inner, Jumps PROVE Framed(th)'
    <2>1. /\ pm[th].latest <= pm'[th].latest /\ pm'[th].latest <= latest'
          /\ pm'[th].latest \in Nat
      BY <1>1, <1>2, <1>3
    <2> QED
      BY <1>1, <1>3, <2>1, InnerFramed
  <1>4. CASE Begin(th) \/ Exit(th)
    <2>1. /\ pc[th] \in Idle /\ pc'[th] \in {"load_latest", "idle"}
          /\ top' = top /\ mv' = mv /\ pm' = pm
      BY <1>4 DEF Begin, Exit, At, Goto, Idle, TypeOK, LocalsTyped
    <2>2. pm[th] = NoFrame /\ mv[th] = NoMove /\ top[th].prev = NULL
      BY <1>2, <2>1, NoChunkAt DEF Idle, PutLabels, Asserts, Framed
    <2>3. top[th].latest <= latest'
      BY <1>1, <1>2
    <2> QED
      BY <1>1, <2>1, <2>2, <2>3, PlaceFramed
  <1>5. CASE LoadLatest(th)
    <2>1. /\ pc[th] = "load_latest" /\ pc'[th] = "load_prev" /\ mv' = mv /\ pm' = pm
          /\ top'[th] = [top[th] EXCEPT !.latest = latest] /\ latest' = latest
      BY <1>5 DEF LoadLatest, At, Goto, TypeOK, LocalsTyped, tables, chain
    <2>2. pm[th] = NoFrame /\ mv[th] = NoMove /\ top[th].prev = NULL
      BY <1>2, <2>1, NoChunkAt DEF Idle, PutLabels, Asserts, Framed
    <2>3. top'[th].latest = latest /\ top'[th].prev = NULL
      BY <2>1, <2>2 DEF TypeOK, LocalsTyped, TopType
    <2> QED
      BY <1>1, <2>1, <2>2, <2>3, PlaceFramed DEF Idle
  <1>6. CASE LoadPrev(th)
    <2> DEFINE p == prev[top[th].latest]
    <2>1. pc[th] = "load_prev" /\ latest' = latest
      BY <1>6 DEF LoadPrev, At, tables, chain
    <2>2. pm[th] = NoFrame /\ mv[th] = NoMove
      BY <1>2, <2>1, NoChunkAt DEF PutLabels, Asserts
    <2>3. p # NULL => p = top[th].latest - 1
      <3>1. top[th].latest \in Tables
        BY Fields DEF TypeOK
      <3> QED
        BY <3>1 DEF Linked
    <2>4. CASE /\ p # NULL /\ top' = [top EXCEPT ![th].prev = p] /\ Goto(th, "mv_claim")
               /\ UNCHANGED <<mv, pm>>
      <3>1. /\ pc'[th] = "mv_claim" /\ mv'[th] = NoMove /\ pm'[th] = NoFrame
            /\ top'[th] = [top[th] EXCEPT !.prev = p]
        BY <2>2, <2>4 DEF Goto, TypeOK, LocalsTyped
      <3>2. top'[th].latest = top[th].latest /\ top'[th].prev = p
        BY <3>1 DEF TypeOK, LocalsTyped, TopType
      <3> QED
        BY <1>1, <1>2, <2>1, <2>3, <3>1, <3>2, PlaceFramed DEF Idle
    <2>5. CASE /\ top' = [top EXCEPT ![th].prev = NULL] /\ Serve(th, top[th].latest, NULL)
               /\ UNCHANGED mv
      <3>1. top'[th] = [top[th] EXCEPT !.prev = NULL]
        BY <2>5 DEF TypeOK, LocalsTyped
      <3>2. top'[th].latest = top[th].latest /\ top'[th].prev = NULL
        BY <3>1 DEF TypeOK, LocalsTyped, TopType
      <3> QED
        BY <1>1, <1>2, <2>1, <2>2, <2>5, <3>2, ServeFramed
    <2>6. CASE Return(th, Empty)
      BY <1>1, <2>6, ReturnFramed
    <2> QED
      BY <1>6, <2>4, <2>5, <2>6 DEF LoadPrev
  <1>7. CASE Reload(th)
    <2>1. /\ pc[th] = "reload" /\ latest' = latest /\ mv' = mv /\ Serve(th, latest, NULL)
          /\ top'[th] = [top[th] EXCEPT !.latest = latest]
      BY <1>7 DEF Reload, At, tables, chain, TypeOK, LocalsTyped
    <2>2. pm[th] = NoFrame /\ mv[th] = NoMove /\ top[th].prev = NULL
      BY <1>2, <2>1, NoChunkAt DEF Idle, PutLabels, Asserts, Framed
    <2>3. top'[th].latest = latest /\ top'[th].prev = NULL
      BY <2>1, <2>2 DEF TypeOK, LocalsTyped, TopType
    <2> QED
      BY <1>1, <2>1, <2>2, <2>3, ServeFramed
  <1>8. CASE MvClaim(th)
    <2>1. pc[th] = "mv_claim" /\ top' = top /\ latest' = latest
      BY <1>8 DEF MvClaim, At, chain
    <2>2. pm[th] = NoFrame /\ mv[th] = NoMove
      BY <1>2, <2>1, NoChunkAt DEF PutLabels, Asserts
    <2>3. CASE Serve(th, top[th].latest, top[th].prev) /\ UNCHANGED mv
      BY <1>1, <1>2, <2>1, <2>2, <2>3, ServeFramed
    <2>4. CASE Goto(th, "mv_key") /\ UNCHANGED pm
      <3>1. pc'[th] = "mv_key" /\ pm'[th] = NoFrame
        BY <2>2, <2>4 DEF Goto, TypeOK, LocalsTyped
      <3>2. Takes(th)
        <4>1. ~Serve(th, top[th].latest, top[th].prev)
          BY <3>1 DEF Serve, CallPutIfMatch, Goto, TypeOK, LocalsTyped
        <4> QED
          BY <1>8, <4>1, ClaimSteps
      <3>3. top[th].prev \in Tables
        BY <3>2 DEF Takes
      <3>4. PICK m \in Nat, new \in Nat :
               /\ m < new /\ moved' = [moved EXCEPT ![top[th].prev] = new]
               /\ mv'[th] = Chunk(m, m, new)
        BY <3>2, <3>3 DEF Takes, TypeOK, TablesTyped
      <3>5. mv'[th].old = m /\ mv'[th].new = new /\ moved'[top[th].prev] = new
        BY <3>3, <3>4 DEF Chunk, TypeOK, TablesTyped
      <3>6. top[th].prev # NULL
        BY <3>3, CallAssumption
      <3> QED
        BY <1>1, <1>2, <2>1, <3>1, <3>4, <3>5, <3>6
        DEF Framed, HasChunk, Moving, Idle, NoFrame
    <2> QED
      BY <1>8, <2>3, <2>4 DEF MvClaim
  <1>9. CASE MvKey(th)
    <2>1. /\ pc[th] = "mv_key" /\ pc'[th] = "mv_prime" /\ top' = top /\ latest' = latest
          /\ pm' = pm /\ moved' = moved
          /\ mv'[th] = [mv[th] EXCEPT !.k = key[top[th].prev][mv[th].i]]
      BY <1>9 DEF MvKey, At, Goto, tables, chain, chunks, TypeOK, LocalsTyped
    <2>2. mv'[th].old = mv[th].old /\ mv'[th].new = mv[th].new
      BY <2>1 DEF TypeOK, LocalsTyped, MoveType
    <2>3. pm[th] = NoFrame /\ HasChunk(th)
      BY <1>2, <2>1 DEF PutLabels, Asserts, HasChunk, Moving
    <2> QED
      BY <1>1, <1>2, <2>1, <2>2, <2>3 DEF Framed, HasChunk, Moving, Idle, NoFrame
  <1>10. CASE MvPrime(th)
    <2>1. /\ pc[th] = "mv_prime" /\ top' = top /\ latest' = latest /\ moved' = moved
      BY <1>10 DEF MvPrime, At, chain, chunks
    <2>2. pm[th] = NoFrame /\ HasChunk(th) /\ Moving(th)
      BY <1>2, <2>1 DEF PutLabels, Asserts, HasChunk, Moving
    <2>3. CASE MvAdvance(th) /\ UNCHANGED pm
      BY <1>1, <2>1, <2>2, <2>3, MvAdvanceFramed
    <2>4. CASE /\ mv[th].k # NULL /\ UNCHANGED mv
               /\ \E v : CallPutIfMatch(th, top[th].latest, NULL, mv[th].k, v, TRUE)
      <3>1. PICK v : CallPutIfMatch(th, top[th].latest, NULL, mv[th].k, v, TRUE)
        BY <2>4
      <3>2. /\ pc'[th] = "pm_top"
            /\ pm'[th] = [latest |-> top[th].latest, prev |-> NULL, key |-> mv[th].k,
                          val |-> v, i |-> 0, v |-> Empty, mover |-> TRUE]
        BY <3>1 DEF CallPutIfMatch, Goto, TypeOK, LocalsTyped
      <3>3. pm'[th].latest = top[th].latest /\ pm'[th].mover /\ pm'[th].key # NULL
        BY <2>4, <3>2
      <3> QED
        BY <1>1, <1>2, <2>1, <2>2, <2>4, <3>2, <3>3
        DEF Framed, HasChunk, Moving, Idle, InPutIfMatch
    <2>5. CASE Goto(th, "assert(key)") /\ UNCHANGED <<mv, pm>>
      <3>1. pc'[th] = "assert(key)"
        BY <2>5 DEF Goto, TypeOK, LocalsTyped
      <3> QED
        BY <1>1, <1>2, <2>1, <2>2, <2>5, <3>1
        DEF Framed, HasChunk, Moving, Idle, NoFrame, InPutIfMatch
    <2> QED
      BY <1>10, <2>3, <2>4, <2>5 DEF MvPrime
  <1>11. CASE MvDone(th)
    <2>1. pc[th] = "mv_done" /\ top' = top /\ latest' = latest /\ retired' = retired
      BY <1>11 DEF MvDone, At, chain
    <2>2. pm[th] = NoFrame /\ HasChunk(th)
      BY <1>2, <2>1 DEF PutLabels, Asserts, HasChunk
    <2>3. mv'[th] = NoMove
      BY <1>11 DEF MvDone, TypeOK, LocalsTyped
    <2>4. CASE Serve(th, top[th].latest, top[th].prev)
      BY <1>1, <1>2, <2>1, <2>2, <2>3, <2>4, ServeFramed
    <2>5. CASE Goto(th, "mv_detach") /\ UNCHANGED pm
      <3>1. pc'[th] = "mv_detach" /\ pm'[th] = NoFrame
        BY <2>2, <2>5 DEF Goto, TypeOK, LocalsTyped
      <3>2. Gives(th)
        BY <3>1, ChunkSteps DEF Holds, Takes
      <3>3. top[th].prev \in Tables /\ top[th].prev \notin retired
        BY <2>2, NotAllDone
      <3>4. move_done'[top[th].prev] = Cap[top[th].prev]
        BY <3>1, <3>2, <3>3 DEF Gives, TypeOK, TablesTyped
      <3> QED
        BY <1>1, <1>2, <2>1, <2>3, <3>1, <3>3, <3>4
        DEF Framed, HasChunk, Moving, Idle, NoFrame
    <2> QED
      BY <1>11, <2>4, <2>5 DEF MvDone
  <1>12. CASE MvDetach(th)
    <2>1. /\ pc[th] = "mv_detach" /\ pc'[th] \in {"load_prev", "reload"} /\ latest' = latest
          /\ mv' = mv /\ pm' = pm /\ top'[th] = [top[th] EXCEPT !.prev = NULL]
      BY <1>12 DEF MvDetach, At, Goto, TypeOK, LocalsTyped
    <2>2. pm[th] = NoFrame /\ mv[th] = NoMove
      BY <1>2, <2>1, NoChunkAt DEF PutLabels, Asserts
    <2>3. top'[th].latest = top[th].latest /\ top'[th].prev = NULL
      BY <2>1 DEF TypeOK, LocalsTyped, TopType
    <2> QED
      BY <1>1, <1>2, <2>1, <2>2, <2>3, PlaceFramed
  <1>13. CASE PmTop(th)
    <2>1. pc[th] \in Inner /\ pc'[th] \in Inner /\ UNCHANGED <<moved, top, mv>>
      BY <1>13 DEF PmTop, At, Goto, Inner, PutLabels, TypeOK, LocalsTyped, chunks
    <2>2. pm[th] \in FrameType /\ \/ pm'[th] = [pm[th] EXCEPT !.latest = latest']
                                  \/ /\ pm'[th] = [pm[th] EXCEPT !.latest = latest',
                                                               !.prev = latest]
                                     /\ latest = pm[th].latest
                                  \/ \E i : pm'[th] = [pm[th] EXCEPT !.i = i]
      BY <1>13 DEF PmTop, TypeOK, LocalsTyped
    <2>3. /\ pm'[th].latest = latest' \/ pm'[th].latest = pm[th].latest
          /\ pm'[th].mover = pm[th].mover /\ pm'[th].key = pm[th].key
      BY <2>2 DEF FrameType
    <2>4. /\ pm[th].latest <= pm'[th].latest /\ pm'[th].latest <= latest'
          /\ pm'[th].latest \in Nat
      BY <1>1, <1>2, <2>3
    <2> QED
      BY <1>1, <2>1, <2>3, <2>4, InnerFramed
  <1>14. CASE PmLatest(th) \/ PmPrev(th) \/ PmVal(th)
    <2>1. /\ pc[th] \in Inner /\ pc'[th] \in Inner /\ UNCHANGED <<moved, latest, top, mv>>
          /\ pm[th] \in FrameType
      BY <1>14
      DEF PmLatest, PmPrev, LoadedPrev, PmVal, At, Goto, Inner, PutLabels, TypeOK, LocalsTyped,
          tables, chain, chunks
    <2>2. \/ pm'[th] = [pm[th] EXCEPT !.latest = latest]
          \/ \E p : pm'[th] = [pm[th] EXCEPT !.prev = p]
          \/ \E v : pm'[th] = [pm[th] EXCEPT !.v = v]
      BY <1>14 DEF PmLatest, PmPrev, LoadedPrev, PmVal, TypeOK, LocalsTyped
    <2> QED
      BY <1>3, <2>1, <2>2 DEF FrameType
  <1>15. CASE PmKey(th)
    <2>1. pc[th] \in PutLabels /\ pc[th] \in Inner /\ UNCHANGED <<moved, latest>>
      BY <1>15 DEF PmKey, At, Inner, PutLabels, chain, chunks
    <2>2. CASE PmReturn(th, Empty)
      BY <1>1, <2>1, <2>2, PmReturnFramed
    <2>3. CASE /\ UNCHANGED <<top, mv>>
               /\ \E label \in {"pm_count", "pm_barrier", "pm_val", "pm_latest"} : Goto(th, label)
               /\ \/ UNCHANGED pm
                  \/ \E i : pm' = [pm EXCEPT ![th].i = i]
      <3>1. pc'[th] \in Inner /\ pm[th] \in FrameType
        BY <2>3 DEF Goto, Inner, PutLabels, TypeOK, LocalsTyped
      <3>2. pm'[th] = pm[th] \/ \E i : pm'[th] = [pm[th] EXCEPT !.i = i]
        BY <2>3 DEF TypeOK, LocalsTyped
      <3> QED
        BY <1>3, <2>1, <2>3, <3>1, <3>2 DEF FrameType
    <2> QED
      BY <1>15, <2>2, <2>3 DEF PmKey
  <1>16. CASE PmCount(th) \/ PmBarrier(th)
    <2>1. /\ pc[th] \in Inner /\ pc'[th] \in Inner
          /\ UNCHANGED <<moved, latest, top, mv, pm>>
      BY <1>16
      DEF PmCount, PmBarrier, AfterBarrier, At, Goto, Inner, PutLabels, TypeOK, LocalsTyped,
          tables, chain, chunks
    <2> QED
      BY <1>3, <2>1
  <1>17. CASE PmAdopt(th)
    <2>1. /\ pc[th] \in Inner /\ pc'[th] \in Inner /\ UNCHANGED <<moved, latest, top, mv>>
          /\ pm[th] \in FrameType
      BY <1>17
      DEF PmAdopt, AfterBarrier, At, Goto, Inner, PutLabels, TypeOK, LocalsTyped, chain, chunks
    <2>2. pm'[th] = pm[th] \/ \E v : pm'[th] = [pm[th] EXCEPT !.v = v]
      BY <1>17 DEF PmAdopt, TypeOK, LocalsTyped
    <2> QED
      BY <1>3, <2>1, <2>2 DEF FrameType
  <1>18. CASE PmWrite(th)
    <2>1. pc[th] \in PutLabels /\ pc[th] \in Inner /\ UNCHANGED <<moved, latest>>
      BY <1>18 DEF PmWrite, At, Inner, PutLabels, chain, chunks
    <2>2. CASE \E w : PmReturn(th, w)
      BY <1>1, <2>1, <2>2, PmReturnFramed
    <2>3. CASE UNCHANGED <<top, mv>> /\ Goto(th, "pm_top") /\ pm' = [pm EXCEPT ![th].v = Empty]
      <3>1. pc'[th] \in Inner /\ pm[th] \in FrameType /\ pm'[th] = [pm[th] EXCEPT !.v = Empty]
        BY <2>3 DEF Goto, Inner, PutLabels, TypeOK, LocalsTyped
      <3> QED
        BY <1>3, <2>1, <2>3, <3>1 DEF FrameType
    <2> QED
      BY <1>18, <2>2, <2>3 DEF PmWrite
  <1>19. CASE ScanVal(th)
    <2>1. /\ pc[th] \in Inner /\ pc'[th] \in Inner
          /\ UNCHANGED <<moved, latest, top, mv, pm>>
      BY <1>19 DEF ScanVal, At, Goto, Inner, TypeOK, LocalsTyped, tables, chain, chunks
    <2> QED
      BY <1>3, <2>1
  <1>20. CASE RlKey(th) \/ GetKey(th)
    <2>1. pc[th] \in Inner /\ UNCHANGED <<moved, latest>>
      BY <1>20 DEF RlKey, GetKey, At, Inner, tables, chain, chunks
    <2>2. CASE \E w : Return(th, w)
      BY <1>1, <2>2, ReturnFramed
    <2>3. CASE /\ UNCHANGED <<top, mv, pm>>
               /\ \E label \in {"pm_adopt", "rl_val", "get_val"} : Goto(th, label)
      <3>1. pc'[th] \in Inner
        BY <2>3 DEF Goto, Inner, PutLabels, TypeOK, LocalsTyped
      <3> QED
        BY <1>3, <2>1, <2>3, <3>1
    <2> QED
      BY <1>20, <2>2, <2>3 DEF RlKey, GetKey, RlReturn, ScanNext
  <1> QED
    BY <1>4, <1>5, <1>6, <1>7, <1>8, <1>9, <1>10, <1>11, <1>12, <1>13, <1>14, <1>15, <1>16,
       <1>17, <1>18, <1>19, <1>20 DEF Step

LEMMA InitMove == Init => MoveSound
  <1> SUFFICES ASSUME Init PROVE MoveSound
    OBVIOUS
  <1>1. Linked
    <2>1. 1 .. (1 - 1) = {} /\ \A t \in Tables : t \in Nat
      BY SizeAssumption DEF Tables
    <2>2. \A t \in Tables : ~(1 < t /\ t <= 1)
      BY <2>1
    <2> QED
      BY <2>1, <2>2 DEF Init, Linked
  <1>2. Chunked
    <2>1. \A th \in Threads : pc[th] = "idle" /\ mv[th] = NoMove
      BY DEF Init
    <2>2. \A p, s : \A th \in Threads : ~InChunk(th, p, s)
      BY <2>1, NoSlot
    <2>3. 0 .. (0 - 1) = {}
      OBVIOUS
    <2>4. \A p \in Tables : Accounted(p) = {} /\ move_done[p] = 0
      BY <2>3 DEF Init, Accounted
    <2>5. \A p \in Tables : move_done[p] = Cardinality(Accounted(p))
      BY <2>4, FS_EmptySet
    <2> QED
      BY <2>1, <2>2, <2>5 DEF Init, Chunked
  <1>3. ASSUME NEW th \in Threads PROVE Framed(th)
    <2>1. pc[th] = "idle" /\ mv[th] = NoMove /\ top[th] = NoTop /\ pm[th] = NoFrame /\ latest = 1
      BY DEF Init
    <2> QED
      BY <2>1 DEF Framed, HasChunk, Moving, NoFrame, NoTop
  <1> QED
    BY <1>1, <1>2, <1>3 DEF MoveSound

LEMMA NextMove ==
  ASSUME TypeOK, MoveSound, [Next]_vars
  PROVE  MoveSound'
  <1>1. ASSUME UNCHANGED vars PROVE MoveSound'
    <2>1. \A p : Accounted(p)' = Accounted(p)
      BY <1>1 DEF vars, tables, chunks, Accounted, InChunk
    <2>2. Linked'
      BY <1>1 DEF vars, tables, chain, MoveSound, Linked
    <2>3. Chunked'
      BY <1>1, <2>1 DEF vars, tables, chain, chunks, MoveSound, Chunked, InChunk
    <2>4. \A th \in Threads : Framed(th)'
      BY <1>1
      DEF vars, tables, chain, chunks, MoveSound, Framed, HasChunk, Moving, InPutIfMatch
    <2> QED
      BY <2>2, <2>3, <2>4 DEF MoveSound
  <1>2. ASSUME NEW th \in Threads, Step(th) PROVE MoveSound'
    <2>1. Linked /\ Chunked /\ \A t2 \in Threads : Framed(t2)
      BY DEF MoveSound
    <2>2. Framed(th)
      BY <2>1
    <2>3. Linked'
      BY <1>2, <2>1, <2>2, LinkedStep
    <2>4. Chunked'
      BY <1>2, <2>1, ChunkedStep
    <2>5. Framed(th)'
      BY <1>2, <2>1, <2>2, ThreadFramed
    <2>6. \A t2 \in Threads \ {th} : Framed(t2)'
      BY <1>2, <2>1, OthersFramed
    <2> QED
      BY <2>3, <2>4, <2>5, <2>6 DEF MoveSound
  <1> QED
    BY <1>1, <1>2 DEF Next

LEMMA MoveAlways == Spec => [](TypeOK /\ MoveSound)
  <1>1. Init /\ [][Next]_vars => [](TypeOK /\ MoveSound)
    BY InitTyped, NextTyped, InitMove, NextMove, PTL
  <1> QED
    BY <1>1, PTL DEF Spec

-----------------------------------------------------------------------------
(***************************************************************************)
(* The chain of tables that the freeing code sees.  MapTable implements    *)
(* MapChain, with the tables in a thread's frames as those it holds.       *)
(***************************************************************************)
Calling(th) == pc[th] \notin {"idle", "load_latest", "exit"}

LEMMA HeldIs ==
  ASSUME NEW th, NEW x
  PROVE  x \in Held(th) <=>
            /\ x # NULL
            /\ \/ Calling(th) /\ (x = top[th].latest \/ x = top[th].prev)
               \/ Putting(th) /\ (x = pm[th].latest \/ x = pm[th].prev)
               \/ Scanning(th) /\ x = scan[th].table
  BY DEF Held, Calling

LEMMA HeldIsNext ==
  ASSUME NEW th, NEW x
  PROVE  x \in Held(th)' <=>
            /\ x # NULL
            /\ \/ Calling(th)' /\ (x = top'[th].latest \/ x = top'[th].prev)
               \/ Putting(th)' /\ (x = pm'[th].latest \/ x = pm'[th].prev)
               \/ Scanning(th)' /\ x = scan'[th].table
  BY DEF Held, Calling

\* One of the ways to come by a table.
Found(th, x) ==
    \/ x = latest
    \/ \E t \in Held(th) : prev[t] # NULL /\ x = prev[t]

\* The thread drops tables, and comes by one at most.
Reaches(th) ==
    \/ Held(th)' \subseteq Held(th)
    \/ \E x : Found(th, x) /\ x \in Held(th)' /\ Held(th)' \subseteq Held(th) \union {x}

LEMMA ReturnReaches ==
  ASSUME TypeOK, NEW th \in Threads, NEW w, Return(th, w)
  PROVE  Reaches(th)
  <1>1. pc'[th] = "exit" /\ pm'[th] = NoFrame
    BY DEF TypeOK, LocalsTyped, Return, Goto
  <1>2. \A x : x \notin Held(th)'
    BY <1>1, HeldIsNext
    DEF Calling, Putting, Scanning, InPutIfMatch, PutLabels, NoFrame
  <1> QED
    BY <1>2 DEF Reaches

\* The caller's own tables are all that is left when put_if_match returns.
LEMMA MvAdvanceReaches ==
  ASSUME TypeOK, NEW th \in Threads, Calling(th), MvAdvance(th), pm'[th] = NoFrame,
         top'[th] = top[th]
  PROVE  Reaches(th)
  <1>1. pc'[th] \in {"mv_key", "mv_done"}
    BY DEF TypeOK, LocalsTyped, MvAdvance, Goto
  <1>2. \A x : x \in Held(th)' => x \in Held(th)
    BY <1>1, HeldIs, HeldIsNext
    DEF Calling, Putting, Scanning, InPutIfMatch, PutLabels, NoFrame
  <1> QED
    BY <1>2 DEF Reaches

LEMMA PmReturnReaches ==
  ASSUME TypeOK, NEW th \in Threads, pc[th] \in PutLabels, NEW w, PmReturn(th, w)
  PROVE  Reaches(th)
  <1>1. CASE pm[th].mover
    <2>1. Calling(th) /\ MvAdvance(th) /\ pm'[th] = NoFrame /\ top'[th] = top[th]
      BY <1>1 DEF Calling, PutLabels, PmReturn, TypeOK, LocalsTyped
    <2> QED
      BY <2>1, MvAdvanceReaches
  <1>2. CASE ~pm[th].mover
    BY <1>2, ReturnReaches DEF PmReturn
  <1> QED
    BY <1>1, <1>2

\* The call goes on with table l and, if any, the older one p.
LEMMA ServeHeld ==
  ASSUME TypeOK, NEW th \in Threads, pm[th] = NoFrame, NEW l, NEW p, Serve(th, l, p),
         NEW x \in Held(th)'
  PROVE  x # NULL /\ (x = top'[th].latest \/ x = top'[th].prev \/ x = l \/ x = p)
  <1>1. CASE CallPutIfMatch(th, l, p, call[th].key, call[th].val, FALSE)
    <2>1. /\ pc'[th] = "pm_top"
          /\ pm'[th] = [latest |-> l, prev |-> p, key |-> call[th].key, val |-> call[th].val,
                        i |-> 0, v |-> Empty, mover |-> FALSE]
      BY <1>1 DEF TypeOK, LocalsTyped, CallPutIfMatch, Goto
    <2>2. pm'[th].latest = l /\ pm'[th].prev = p
      BY <2>1
    <2> QED
      BY <2>1, <2>2, HeldIsNext DEF Scanning
  <1>2. CASE /\ Goto(th, "get_val") /\ UNCHANGED pm
             /\ scan' = [scan EXCEPT ![th] = Probe(l, call[th].key, call[th].key)]
    <2>1. pc'[th] = "get_val" /\ pm'[th] = NoFrame /\ scan'[th].table = l
      BY <1>2 DEF TypeOK, LocalsTyped, Goto, Probe
    <2> QED
      BY <2>1, HeldIsNext DEF Putting, InPutIfMatch, PutLabels, NoFrame
  <1>3. CASE Goto(th, "load_prev") /\ UNCHANGED pm
    <2>1. pc'[th] = "load_prev" /\ pm'[th] = NoFrame
      BY <1>3 DEF TypeOK, LocalsTyped, Goto
    <2> QED
      BY <2>1, HeldIsNext DEF Putting, Scanning, InPutIfMatch, PutLabels, NoFrame
  <1> QED
    BY <1>1, <1>2, <1>3 DEF Serve

\* The tables in the caller's frame are the same, or one of them is new.
LEMMA ServeReaches ==
  ASSUME TypeOK, NEW th \in Threads, Calling(th), pm[th] = NoFrame, NEW l, NEW p,
         Serve(th, l, p), top'[th].prev \in {top[th].prev, NULL},
         p \in {top[th].prev, NULL},
         \/ top'[th].latest = top[th].latest /\ l = top[th].latest
         \/ top'[th].latest = latest /\ l = latest
  PROVE  Reaches(th)
  <1>1. \A x \in Held(th)' : x \in Held(th) \/ x = latest
    BY ServeHeld, HeldIs
  <1> QED
    BY <1>1 DEF Reaches, Found

LEMMA HeldSteps ==
  ASSUME TypeOK, NEW th \in Threads, Framed(th), Step(th)
  PROVE  Grows(th) \/ MvDetach(th) \/ Reaches(th)
  <1>1. /\ pc[th] \notin PutLabels \union {"rl_val", "rl_key"} \union Asserts => pm[th] = NoFrame
        /\ pm[th] \in FrameType /\ top[th] \in TopType /\ mv[th] \in MoveType
        /\ scan[th] \in ScanType
    BY DEF TypeOK, FrameInUse, LocalsTyped
  <1>2. CASE Begin(th) \/ Exit(th)
    <2>1. pc[th] \in {"idle", "exit"} /\ pc'[th] \in {"load_latest", "idle"} /\ pm' = pm
      BY <1>2 DEF Begin, Exit, At, Goto, TypeOK, LocalsTyped
    <2>2. pm'[th] = NoFrame
      BY <1>1, <2>1 DEF PutLabels, Asserts
    <2>3. \A x : x \notin Held(th)'
      BY <2>1, <2>2, HeldIsNext
      DEF Calling, Putting, Scanning, InPutIfMatch, PutLabels, NoFrame
    <2> QED
      BY <2>3 DEF Reaches
  <1>3. CASE LoadLatest(th)
    <2>1. /\ pc[th] = "load_latest" /\ pc'[th] = "load_prev" /\ pm' = pm
          /\ top'[th] = [top[th] EXCEPT !.latest = latest]
      BY <1>3 DEF LoadLatest, At, Goto, TypeOK, LocalsTyped
    <2>2. pm'[th] = NoFrame /\ top[th].prev = NULL
      BY <1>1, <2>1 DEF PutLabels, Asserts, Framed, Idle
    <2>3. top'[th].latest = latest /\ top'[th].prev = NULL
      BY <1>1, <2>1, <2>2 DEF TopType
    <2>4. ~Putting(th)' /\ ~Scanning(th)'
      BY <2>1, <2>2 DEF Putting, Scanning, InPutIfMatch, PutLabels, NoFrame
    <2>5. \A x \in Held(th)' : x = latest
      BY <2>3, <2>4, HeldIsNext
    <2> QED
      BY <2>5 DEF Reaches, Found
  <1>4. CASE LoadPrev(th)
    <2> DEFINE p == prev[top[th].latest]
    <2>1. pc[th] = "load_prev" /\ Calling(th)
      BY <1>4 DEF LoadPrev, At, Calling
    <2>2. pm[th] = NoFrame
      BY <1>1, <2>1 DEF PutLabels, Asserts
    <2>3. CASE /\ p # NULL /\ top' = [top EXCEPT ![th].prev = p] /\ Goto(th, "mv_claim")
               /\ UNCHANGED pm
      <3>1. /\ pc'[th] = "mv_claim" /\ pm'[th] = NoFrame
            /\ top'[th] = [top[th] EXCEPT !.prev = p]
        BY <2>2, <2>3 DEF Goto, TypeOK, LocalsTyped
      <3>2. top'[th].latest = top[th].latest /\ top'[th].prev = p
        BY <1>1, <3>1 DEF TopType
      <3>3. top[th].latest \in Held(th)
        <4>1. top[th].latest # NULL
          BY Fields, CallAssumption DEF TypeOK
        <4> QED
          BY <2>1, <4>1, HeldIs
      <3>4. \A x \in Held(th)' : x \in Held(th) \/ x = p
        <4>1. ~Putting(th)' /\ ~Scanning(th)'
          BY <3>1 DEF Putting, Scanning, InPutIfMatch, PutLabels, NoFrame
        <4>2. \A x \in Held(th)' : x # NULL /\ (x = top[th].latest \/ x = p)
          BY <3>2, <4>1, HeldIsNext
        <4> QED
          BY <3>3, <4>2
      <3>5. Found(th, p)
        BY <2>3, <3>3 DEF Found
      <3> HIDE DEF p
      <3> QED
        BY <3>4, <3>5 DEF Reaches
    <2>4. CASE /\ top' = [top EXCEPT ![th].prev = NULL] /\ Serve(th, top[th].latest, NULL)
      <3>1. top'[th] = [top[th] EXCEPT !.prev = NULL]
        BY <2>4 DEF TypeOK, LocalsTyped
      <3>2. top'[th].latest = top[th].latest /\ top'[th].prev = NULL
        BY <1>1, <3>1 DEF TopType
      <3> QED
        BY <2>1, <2>2, <2>4, <3>2, ServeReaches
    <2> QED
      BY <1>4, <2>3, <2>4, ReturnReaches DEF LoadPrev
  <1>5. CASE Reload(th)
    <2>1. /\ pc[th] = "reload" /\ Serve(th, latest, NULL) /\ Calling(th)
          /\ top'[th] = [top[th] EXCEPT !.latest = latest]
      BY <1>5 DEF Reload, At, TypeOK, LocalsTyped, Calling
    <2>2. pm[th] = NoFrame /\ top[th].prev = NULL
      BY <1>1, <2>1 DEF PutLabels, Asserts, Framed, Idle
    <2>3. top'[th].latest = latest /\ top'[th].prev = NULL
      BY <1>1, <2>1, <2>2 DEF TopType
    <2> QED
      BY <2>1, <2>2, <2>3, ServeReaches
  <1>6. CASE MvClaim(th) \/ MvDone(th)
    <2>1. pc[th] \in {"mv_claim", "mv_done"} /\ Calling(th) /\ top' = top
      BY <1>6 DEF MvClaim, MvDone, At, Calling
    <2>2. pm[th] = NoFrame
      BY <1>1, <2>1 DEF PutLabels, Asserts
    <2>3. CASE Serve(th, top[th].latest, top[th].prev)
      BY <2>1, <2>2, <2>3, ServeReaches
    <2>4. CASE (Goto(th, "mv_key") \/ Goto(th, "mv_detach")) /\ UNCHANGED pm
      <3>1. pc'[th] \in {"mv_key", "mv_detach"} /\ pm'[th] = NoFrame
        BY <2>2, <2>4 DEF Goto, TypeOK, LocalsTyped
      <3>2. \A x \in Held(th)' : x \in Held(th)
        BY <2>1, <3>1, HeldIs, HeldIsNext
        DEF Putting, Scanning, InPutIfMatch, PutLabels, NoFrame
      <3> QED
        BY <3>2 DEF Reaches
    <2> QED
      BY <1>6, <2>3, <2>4 DEF MvClaim, MvDone
  <1>7. CASE MvKey(th) \/ MvPrime(th)
    <2>1. pc[th] \in {"mv_key", "mv_prime"} /\ Calling(th) /\ top' = top
      BY <1>7 DEF MvKey, MvPrime, At, Calling
    <2>2. pm[th] = NoFrame
      BY <1>1, <2>1 DEF PutLabels, Asserts
    <2>3. CASE MvAdvance(th) /\ UNCHANGED pm
      BY <2>1, <2>2, <2>3, MvAdvanceReaches
    <2>4. CASE (Goto(th, "mv_prime") \/ Goto(th, "assert(key)")) /\ UNCHANGED pm
      <3>1. pc'[th] \in {"mv_prime", "assert(key)"} /\ pm'[th] = NoFrame
        BY <2>2, <2>4 DEF Goto, TypeOK, LocalsTyped
      <3>2. \A x \in Held(th)' : x \in Held(th)
        BY <2>1, <3>1, HeldIs, HeldIsNext
        DEF Putting, Scanning, InPutIfMatch, PutLabels, NoFrame
      <3> QED
        BY <3>2 DEF Reaches
    <2>5. CASE \E v : CallPutIfMatch(th, top[th].latest, NULL, mv[th].k, v, TRUE)
      <3>1. PICK v : CallPutIfMatch(th, top[th].latest, NULL, mv[th].k, v, TRUE)
        BY <2>5
      <3>2. /\ pc'[th] = "pm_top"
            /\ pm'[th] = [latest |-> top[th].latest, prev |-> NULL, key |-> mv[th].k,
                          val |-> v, i |-> 0, v |-> Empty, mover |-> TRUE]
        BY <3>1 DEF CallPutIfMatch, Goto, TypeOK, LocalsTyped
      <3>3. pm'[th].latest = top[th].latest /\ pm'[th].prev = NULL
        BY <3>2
      <3>4. \A x \in Held(th)' : x \in Held(th)
        BY <2>1, <3>2, <3>3, HeldIs, HeldIsNext DEF Scanning
      <3> QED
        BY <3>4 DEF Reaches
    <2> QED
      BY <1>7, <2>3, <2>4, <2>5 DEF MvKey, MvPrime
  <1>8. CASE PmTop(th) \/ PmLatest(th) \/ PmPrev(th)
    <2>1. /\ pc[th] \in PutLabels /\ Calling(th) /\ Putting(th) /\ top' = top
          /\ pc'[th] \in PutLabels \ {"pm_adopt"}
      BY <1>8
      DEF PmTop, PmLatest, PmPrev, LoadedPrev, At, Goto, Calling, Putting, PutLabels, TypeOK,
          LocalsTyped
    <2>2. \/ Grows(th)
          \/ pm'[th] = [pm[th] EXCEPT !.latest = latest]
          \/ pm'[th] = [pm[th] EXCEPT !.prev = prev[pm[th].latest]]
          \/ \E i : pm'[th] = [pm[th] EXCEPT !.i = i]
      BY <1>8
      DEF PmTop, PmLatest, PmPrev, LoadedPrev, Grows, At, Goto, TypeOK, LocalsTyped
    <2>3. pm[th].latest \in Held(th)
      <3>1. pm[th].latest # NULL
        BY Fields, CallAssumption DEF TypeOK
      <3> QED
        BY <2>1, <3>1, HeldIs
    <2>4. CASE pm'[th] = [pm[th] EXCEPT !.latest = latest]
      <3>1. pm'[th].latest = latest /\ pm'[th].prev = pm[th].prev
        BY <1>1, <2>4 DEF FrameType
      <3>2. \A x \in Held(th)' : x \in Held(th) \/ x = latest
        BY <2>1, <3>1, HeldIs, HeldIsNext DEF Scanning, PutLabels
      <3> QED
        BY <3>2 DEF Reaches, Found
    <2>5. CASE pm'[th] = [pm[th] EXCEPT !.prev = prev[pm[th].latest]]
      <3>1. pm'[th].latest = pm[th].latest /\ pm'[th].prev = prev[pm[th].latest]
        BY <1>1, <2>5 DEF FrameType
      <3>2. \A x \in Held(th)' : x # NULL /\ (x \in Held(th) \/ x = prev[pm[th].latest])
        BY <2>1, <3>1, HeldIs, HeldIsNext DEF Scanning, PutLabels
      <3> QED
        BY <2>3, <3>2 DEF Reaches, Found
    <2>6. CASE \E i : pm'[th] = [pm[th] EXCEPT !.i = i]
      <3>1. pm'[th].latest = pm[th].latest /\ pm'[th].prev = pm[th].prev
        BY <1>1, <2>6 DEF FrameType
      <3>2. \A x \in Held(th)' : x \in Held(th)
        BY <2>1, <3>1, HeldIs, HeldIsNext DEF Scanning, PutLabels
      <3> QED
        BY <3>2 DEF Reaches
    <2> QED
      BY <2>2, <2>4, <2>5, <2>6
  <1>9. ASSUME pc[th] \in Inner, pc'[th] \in Inner, Calling(th), top'[th] = top[th],
               Putting(th)' => Putting(th),
               pm'[th].latest = pm[th].latest, pm'[th].prev = pm[th].prev,
               Scanning(th)' => \/ Scanning(th) /\ scan'[th].table = scan[th].table
                                \/ scan'[th].table \in {top[th].prev}
                                \/ Putting(th) /\ scan'[th].table = pm[th].prev
        PROVE  Reaches(th)
    <2>1. \A x \in Held(th)' : x \in Held(th)
      BY <1>9, HeldIs, HeldIsNext
    <2> QED
      BY <2>1 DEF Reaches
  <1>10. CASE PmVal(th) \/ PmCount(th) \/ PmBarrier(th) \/ PmAdopt(th)
    <2>1. /\ pc[th] \in PutLabels /\ pc[th] \in Inner /\ pc'[th] \in Inner /\ top' = top
          /\ Calling(th) /\ Putting(th)
      BY <1>10
      DEF PmVal, PmCount, PmBarrier, PmAdopt, AfterBarrier, At, Goto, Inner, Calling, Putting,
          PutLabels, TypeOK, LocalsTyped
    <2>2. pm'[th] = pm[th] \/ \E v : pm'[th] = [pm[th] EXCEPT !.v = v]
      BY <1>10 DEF PmVal, PmCount, PmBarrier, PmAdopt, TypeOK, LocalsTyped
    <2>3. pm'[th].latest = pm[th].latest /\ pm'[th].prev = pm[th].prev
      BY <1>1, <2>2 DEF FrameType
    <2>4. Scanning(th)' => scan'[th].table = pm[th].prev
      <3>1. CASE PmBarrier(th)
        <4>1. \/ pc'[th] \in {"pm_top", "pm_write", "assert(prev->prev == NULL)"}
              \/ scan'[th] = Probe(pm[th].prev, Sought(pm[th].val), pm[th].key)
          BY <3>1 DEF PmBarrier, AfterBarrier, Goto, TypeOK, LocalsTyped
        <4>2. Probe(pm[th].prev, Sought(pm[th].val), pm[th].key).table = pm[th].prev
          BY DEF Probe
        <4> QED
          BY <4>1, <4>2 DEF Scanning
      <3>2. CASE PmVal(th) \/ PmCount(th) \/ PmAdopt(th)
        <4>1. pc'[th] \in PutLabels
          BY <3>2
          DEF PmVal, PmCount, PmAdopt, AfterBarrier, Goto, PutLabels, TypeOK, LocalsTyped
        <4> QED
          BY <4>1 DEF Scanning, PutLabels
      <3> QED
        BY <1>10, <3>1, <3>2
    <2> QED
      BY <1>9, <2>1, <2>3, <2>4
  <1>11. CASE PmKey(th) \/ PmWrite(th)
    <2>1. pc[th] \in PutLabels /\ pc[th] \in Inner /\ Calling(th) /\ Putting(th)
      BY <1>11 DEF PmKey, PmWrite, At, Inner, Calling, Putting, PutLabels
    <2>2. CASE \E w : PmReturn(th, w)
      BY <2>1, <2>2, PmReturnReaches
    <2>3. CASE /\ UNCHANGED top
               /\ \E label \in {"pm_top", "pm_count", "pm_barrier", "pm_val", "pm_latest"} :
                     Goto(th, label)
               /\ \/ UNCHANGED pm
                  \/ \E i : pm' = [pm EXCEPT ![th].i = i]
                  \/ \E v : pm' = [pm EXCEPT ![th].v = v]
      <3>1. pc'[th] \in Inner /\ ~Scanning(th)'
        BY <2>3 DEF Goto, Inner, Scanning, PutLabels, TypeOK, LocalsTyped
      <3>2. \/ pm'[th] = pm[th]
            \/ \E i : pm'[th] = [pm[th] EXCEPT !.i = i]
            \/ \E v : pm'[th] = [pm[th] EXCEPT !.v = v]
        BY <2>3 DEF TypeOK, LocalsTyped
      <3>3. pm'[th].latest = pm[th].latest /\ pm'[th].prev = pm[th].prev
        BY <1>1, <3>2 DEF FrameType
      <3> QED
        BY <1>9, <2>1, <2>3, <3>1, <3>3
    <2> QED
      BY <1>11, <2>2, <2>3 DEF PmKey, PmWrite
  <1>12. CASE ScanVal(th) \/ RlKey(th) \/ GetKey(th)
    <2>1. pc[th] \in Inner /\ Calling(th) /\ Scanning(th)
      BY <1>12 DEF ScanVal, RlKey, GetKey, At, Inner, Calling, Scanning
    <2>2. CASE \E w : Return(th, w)
      BY <2>2, ReturnReaches
    <2>3. CASE /\ UNCHANGED <<top, pm>>
               /\ \/ Goto(th, "pm_adopt") /\ InPutIfMatch(th)
                  \/ /\ \E label \in {"rl_val", "rl_key", "get_val", "get_key"} : Goto(th, label)
                     /\ \/ \E v : scan' = [scan EXCEPT ![th].v = v]
                        \/ \E i : scan' = [scan EXCEPT ![th].i = i]
                        \/ \E k : scan' = [scan EXCEPT ![th] = Probe(top[th].prev, k, k)]
      <3>1. pc'[th] \in Inner /\ (Putting(th)' => Putting(th))
        BY <2>3
        DEF Goto, Inner, PutLabels, Putting, InPutIfMatch, TypeOK, LocalsTyped
      <3>2. \/ ~Scanning(th)'
            \/ \E v : scan'[th] = [scan[th] EXCEPT !.v = v]
            \/ \E i : scan'[th] = [scan[th] EXCEPT !.i = i]
            \/ \E k : scan'[th] = Probe(top[th].prev, k, k)
        BY <2>3 DEF TypeOK, LocalsTyped, Goto, Scanning
      <3>3. \/ ~Scanning(th)'
            \/ scan'[th].table = scan[th].table
            \/ scan'[th].table = top[th].prev
        <4>1. CASE \E k : scan'[th] = Probe(top[th].prev, k, k)
          BY <4>1 DEF Probe
        <4> QED
          BY <1>1, <3>2, <4>1 DEF ScanType
      <3> QED
        BY <1>9, <2>1, <2>3, <3>1, <3>3
    <2> QED
      BY <1>12, <2>2, <2>3 DEF ScanVal, RlKey, GetKey, RlReturn, ScanNext
  <1> QED
    BY <1>2, <1>3, <1>4, <1>5, <1>6, <1>7, <1>8, <1>10, <1>11, <1>12 DEF Step

LEMMA HeldOfOthers ==
  ASSUME TypeOK, NEW th \in Threads, Step(th)
  PROVE  [t2 \in Threads |-> Held(t2)]'
            = [[t2 \in Threads |-> Held(t2)] EXCEPT ![th] = Held(th)']
  <1>1. \A t2 \in Threads \ {th} : Held(t2)' = Held(t2)
    BY EveryStepTyped
    DEF TypedStep, LocalStep, SameLocals, Held, Putting, Scanning, InPutIfMatch
  <1> QED
    BY <1>1

LEMMA ChainStep ==
  ASSUME TypeOK, MoveSound, NEW th \in Threads, Step(th)
  PROVE  Chain!Next
  <1> DEFINE H == [t2 \in Threads |-> Held(t2)]
  <1>1. H' = [H EXCEPT ![th] = Held(th)'] /\ H[th] = Held(th)
    BY HeldOfOthers
  <1>2. Linked /\ Framed(th)
    BY DEF MoveSound
  <1>3. CASE UNCHANGED chain /\ Reaches(th)
    <2>1. Chain!Keep(th)
      <3>1. CASE Held(th)' \subseteq Held(th)
        <4>1. Held(th)' \in SUBSET H[th]
          BY <1>1, <3>1
        <4> QED
          BY <1>1, <4>1 DEF Chain!Keep
      <3>2. CASE \E x : Found(th, x) /\ x \in Held(th)' /\ Held(th)' \subseteq Held(th) \union {x}
        <4>1. PICK x : Found(th, x) /\ x \in Held(th)' /\ Held(th)' \subseteq Held(th) \union {x}
          BY <3>2
        <4>2. PICK kept \in SUBSET H[th] : Held(th)' = kept \union {x}
          <5>1. Held(th)' = (Held(th)' \intersect Held(th)) \union {x}
            BY <4>1
          <5>2. Held(th)' \intersect Held(th) \in SUBSET H[th]
            BY <1>1
          <5> QED
            BY <5>1, <5>2
        <4>3. H' = [H EXCEPT ![th] = kept \union {x}]
          BY <1>1, <4>2
        <4>4. CASE x = latest
          BY <4>2, <4>3, <4>4 DEF Chain!Keep
        <4>5. CASE \E t \in H[th] : prev[t] # NULL /\ x = prev[t]
          BY <4>2, <4>3, <4>5 DEF Chain!Keep
        <4> QED
          BY <1>1, <4>1, <4>4, <4>5 DEF Found
      <3> QED
        BY <1>3, <3>1, <3>2 DEF Reaches
    <2> QED
      BY <1>3, <2>1 DEF Chain!Next, Chain!Follow, chain
  <1>4. CASE Grows(th)
    <2> DEFINE l == pm[th].latest
    <2>1. /\ latest = l /\ l < MaxTables /\ latest' = l + 1 /\ retired' = retired
          /\ prev' = [prev EXCEPT ![l + 1] = l]
          /\ pc[th] = "pm_top" /\ pc' = pc /\ pm' = [pm EXCEPT ![th].latest = l + 1, ![th].prev = l]
      BY <1>4 DEF Grows
    <2>2. l \in Held(th)
      <3>1. l # NULL
        BY Fields, CallAssumption DEF TypeOK
      <3> QED
        BY <2>1, <3>1, HeldIs DEF Putting, PutLabels
    <2>3. pm'[th] = [pm[th] EXCEPT !.latest = l + 1, !.prev = l] /\ pm[th] \in FrameType
      BY <2>1 DEF TypeOK, LocalsTyped
    <2>4. pm'[th].latest = l + 1 /\ pm'[th].prev = l
      BY <2>3 DEF FrameType
    <2>5. top' = top
      BY <1>4 DEF Grows
    <2>6. \A x \in Held(th)' : x \in Held(th) \/ x = l + 1
      BY <2>1, <2>2, <2>4, <2>5, HeldIs, HeldIsNext DEF Scanning, Calling
    <2>7. l + 1 \in Held(th)'
      <3>1. l + 1 # NULL
        <4>1. latest' \in Tables
          BY EveryStepTyped DEF TypedStep, TypeOK, TablesTyped
        <4> QED
          BY <2>1, <4>1, CallAssumption
      <3> QED
        BY <2>1, <2>4, <3>1, HeldIsNext DEF Putting, PutLabels
    <2>8. PICK kept \in SUBSET H[th] : Held(th)' = kept \union {l + 1}
      <3>1. Held(th)' = (Held(th)' \intersect Held(th)) \union {l + 1}
        BY <2>6, <2>7
      <3>2. Held(th)' \intersect Held(th) \in SUBSET H[th]
        BY <1>1
      <3> QED
        BY <3>1, <3>2
    <2>9. H' = [H EXCEPT ![th] = kept \union {latest + 1}]
      BY <1>1, <2>1, <2>8
    <2> QED
      BY <1>1, <2>1, <2>2, <2>8, <2>9 DEF Chain!Next, Chain!Grow
  <1>5. CASE MvDetach(th)
    <2> DEFINE l == top[th].latest
               p == top[th].prev
    <2>1. /\ pc[th] = "mv_detach" /\ pc'[th] \in {"load_prev", "reload"} /\ latest' = latest
          /\ pm' = pm /\ top'[th] = [top[th] EXCEPT !.prev = NULL]
          /\ prev' = [prev EXCEPT ![l] = NULL] /\ retired' = retired \union {p}
      BY <1>5 DEF MvDetach, At, Goto, TypeOK, LocalsTyped
    <2>2. p \in Tables /\ l \in Tables /\ top[th] \in TopType /\ pm[th] = NoFrame
      BY <2>1, Fields DEF TypeOK, FrameInUse, LocalsTyped, PutLabels, Asserts
    <2>3. p = l - 1 /\ l <= latest /\ p \notin retired /\ p # NULL /\ l # NULL
      BY <1>2, <2>1, <2>2, CallAssumption DEF Framed
    <2>4. p \in Nat /\ l \in Nat /\ 1 <= p /\ 1 < l /\ p # l
      BY <2>2, <2>3 DEF Tables
    <2>5. prev[l] = p
      BY <1>2, <2>2, <2>3, <2>4 DEF Linked
    <2>6. ~Putting(th) /\ ~Scanning(th) /\ ~Putting(th)' /\ ~Scanning(th)' /\ Calling(th)
          /\ Calling(th)'
      BY <2>1, <2>2 DEF Putting, Scanning, Calling, InPutIfMatch, PutLabels, NoFrame
    <2>7. top'[th].latest = l /\ top'[th].prev = NULL
      BY <2>1, <2>2 DEF TopType
    <2>8. Held(th) = {l, p} /\ Held(th)' = {l}
      <3>1. \A x : x \in Held(th) <=> x = l \/ x = p
        BY <2>3, <2>6, HeldIs
      <3>2. \A x : x \in Held(th)' <=> x = l
        BY <2>3, <2>6, <2>7, HeldIsNext
      <3>3. Held(th) = {l, p}
        BY <3>1
      <3>4. Held(th)' = {l}
        BY <3>2
      <3> QED
        BY <3>3, <3>4
    <2>9. H' = [H EXCEPT ![th] = @ \ {prev[l]}]
      <3>1. Held(th)' = Held(th) \ {prev[l]}
        BY <2>4, <2>5, <2>8
      <3> QED
        BY <1>1, <3>1
    <2>10. l \in H[th] /\ prev[l] \in H[th] \ retired
      BY <1>1, <2>3, <2>5, <2>8
    <2>11. retired' = retired \union {prev[l]}
      BY <2>1, <2>5
    <2> QED
      BY <2>1, <2>9, <2>10, <2>11 DEF Chain!Next, Chain!Detach, Chain!Unlinked
  <1>6. UNCHANGED chain \/ Grows(th) \/ MvDetach(th)
    BY LinkSteps
  <1>7. Grows(th) \/ MvDetach(th) \/ Reaches(th)
    BY <1>2, HeldSteps
  <1> QED
    BY <1>3, <1>4, <1>5, <1>6, <1>7

\* Threads come by tables only through hm->latest and prev pointers, and the
\* one that moves the last chunk of a table unlinks it, when nobody else did,
\* and hands it over, once: the map is the chain that the freeing code needs.
THEOREM MapIsChain == Spec => ImplementsChain
  <1>1. Init => Chain!Init
    <2>1. ASSUME Init, NEW th \in Threads PROVE Held(th) = {}
      <3>1. pc[th] = "idle" /\ pm[th] = NoFrame
        BY <2>1 DEF Init
      <3>2. \A x : x \notin Held(th)
        BY <3>1, HeldIs DEF Calling, Putting, Scanning, InPutIfMatch, PutLabels, NoFrame
      <3> QED
        BY <3>2
    <2> QED
      BY <2>1 DEF Init, Chain!Init, Chain!Tables, Tables
  <1>2. TypeOK /\ MoveSound /\ [Next]_vars => [Chain!Next]_(Chain!chain)
    <2>1. ASSUME UNCHANGED vars PROVE UNCHANGED Chain!chain
      <3>1. [th \in Threads |-> Held(th)]' = [th \in Threads |-> Held(th)]
        BY <2>1 DEF vars, Held, Putting, Scanning, InPutIfMatch
      <3> QED
        BY <2>1, <3>1 DEF vars, tables, chain, Chain!chain
    <2> QED
      BY <2>1, ChainStep DEF Next
  <1> QED
    BY <1>1, <1>2, MoveAlways, PTL DEF Spec, ImplementsChain, Chain!Spec

-----------------------------------------------------------------------------
(***************************************************************************)
(* What the migration does to a slot.  Until its turn comes the slot is    *)
(* not frozen; from then on it is frozen, and the key of the value that it *)
(* had is, at the latest when the chunk goes on, in a newer table.         *)
(***************************************************************************)
Arrived(p, k) ==
    \E u \in Tables : u > p /\ \E r \in Slots(u) : key[u][r] = k /\ val[u][r] # Empty

Done(p, s) ==
    /\ val[p][s].prime
    /\ val[p][s].v # NULL => key[p][s] # NULL /\ Arrived(p, key[p][s])

\* The thread has still to freeze slot s of table p.
Todo(th, p, s) ==
    /\ Moving(th) /\ top[th].prev = p /\ s \in mv[th].i .. (mv[th].new - 1)
    /\ ~(pm[th].mover /\ s = mv[th].i)

\* The slot at which put_if_match has found or put its key.
AtKey(th) == AtSlot(th) /\ pc[th] \notin {"pm_val", "pm_key"}

\* The thread is at slot mv[th].i of its chunk, or past the last.
AtItem(th) == Moving(th) \/ pc[th] = "mv_done"

Relocates(th) ==
    /\ AtItem(th) => \A s \in mv[th].old .. (mv[th].i - 1) : Done(top[th].prev, s)
    /\ pm[th].mover =>
          /\ val[top[th].prev][mv[th].i].prime
          /\ key[top[th].prev][mv[th].i] = pm[th].key
          /\ pm[th].val \notin {NULL, TOMBSTONE}
    /\ pc[th] = "mv_prime" /\ mv[th].k # NULL => key[top[th].prev][mv[th].i] = mv[th].k
    /\ AtKey(th) => key[pm[th].latest][pm[th].i] = pm[th].key

SlotsSound ==
    /\ \A p \in Tables : \A s \in Slots(p) :
          s >= moved[p] \/ (\E th \in Threads : Todo(th, p, s)) => ~val[p][s].prime
    /\ \A p \in Tables : \A s \in Accounted(p) : Done(p, s)

ItemsSound == SlotsSound /\ \A th \in Threads : Relocates(th)

\* Claimed keys stay.
KeyStays ==
    \A t \in Tables : \A s \in Slots(t) : key[t][s] # NULL => key'[t][s] = key[t][s]

LEMMA KeySteps ==
  ASSUME TypeOK, NEW th \in Threads, Step(th)
  PROVE  KeyStays
  <1>1. CASE Claims(th)
    <2> DEFINE l == pm[th].latest
               i == pm[th].i
               k == pm[th].key
    <2>1. key' = [key EXCEPT ![l][i] = k] /\ key[l][i] = NULL
      BY <1>1 DEF Claims
    <2> HIDE DEF l, i, k
    <2>2. DOMAIN key = Tables /\ \A t \in Tables : key[t] \in [Slots(t) -> Keys \union {NULL}]
      BY DEF TypeOK, TablesTyped
    <2> QED
      BY <2>1, <2>2 DEF KeyStays
  <1> QED
    BY <1>1, KeyWrites DEF KeyStays

\* What was moved stays moved, whatever is written afterwards.
LEMMA DoneStays ==
  ASSUME KeyStays, ValGrows, NEW p \in Tables, NEW s \in Slots(p), Done(p, s),
         \A k \in Keys : k # NULL,
         key[p][s] \in Keys \union {NULL}
  PROVE  Done(p, s)'
  <1>1. val'[p][s] = val[p][s] /\ val[p][s].prime
    BY DEF Done, ValGrows
  <1>2. CASE val[p][s].v = NULL
    BY <1>1, <1>2 DEF Done
  <1>3. CASE val[p][s].v # NULL
    <2>1. PICK u \in Tables : u > p /\ \E r \in Slots(u) : key[u][r] = key[p][s]
                                                          /\ val[u][r] # Empty
      BY <1>3 DEF Done, Arrived
    <2>2. PICK r \in Slots(u) : key[u][r] = key[p][s] /\ val[u][r] # Empty
      BY <2>1
    <2>3. key[p][s] # NULL
      BY <1>3 DEF Done
    <2>4. key'[p][s] = key[p][s] /\ key'[u][r] = key'[p][s] /\ val'[u][r] # Empty
      BY <2>2, <2>3 DEF KeyStays, ValGrows
    <2>5. Arrived(p, key[p][s])'
      BY <2>1, <2>4 DEF Arrived
    <2> QED
      BY <1>1, <2>3, <2>4, <2>5 DEF Done
  <1> QED
    BY <1>2, <1>3

\* Nothing but the migration freezes a slot.
LEMMA PrimeSteps ==
  ASSUME TypeOK, NEW th \in Threads, Settled(th), Step(th),
         NEW p \in Tables, NEW s \in Slots(p), val'[p][s].prime, ~val[p][s].prime
  PROVE  MvPrime(th) /\ p = top[th].prev /\ s = mv[th].i
  <1>1. DOMAIN val = Tables /\ \A t \in Tables : val[t] \in [Slots(t) -> Word]
    BY DEF TypeOK, TablesTyped
  <1>2. CASE MvPrime(th)
    <2>1. val' = [val EXCEPT ![top[th].prev][mv[th].i] = Frozen(val[top[th].prev][mv[th].i])]
      BY <1>2 DEF MvPrime
    <2> QED
      BY <1>1, <1>2, <2>1
  <1>3. CASE PmAdopt(th)
    <2> DEFINE l == pm[th].latest
               i == pm[th].i
               w == IF val[l][i] = Empty THEN Plain(scan[th].v.v) ELSE val[l][i]
    <2>1. val' = val \/ val' = [val EXCEPT ![l][i] = w]
      BY <1>3 DEF PmAdopt
    <2>2. w.prime => w = val[l][i]
      BY DEF Plain
    <2> HIDE DEF w, l, i
    <2> QED
      BY <1>1, <2>1, <2>2 DEF l, i
  <1>4. CASE PmWrite(th)
    <2>1. val' = val \/ val' = [val EXCEPT ![pm[th].latest][pm[th].i] = Plain(pm[th].val)]
      BY <1>4 DEF PmWrite
    <2>2. ~Plain(pm[th].val).prime
      BY DEF Plain
    <2> QED
      BY <1>1, <2>1, <2>2
  <1>5. CASE val' = val
    BY <1>5
  <1> QED
    BY <1>2, <1>3, <1>4, <1>5
    DEF Step, tables, slots, Begin, LoadLatest, LoadPrev, Reload, Exit, MvClaim, MvKey,
        MvDone, MvDetach, PmTop, PmLatest, PmPrev, LoadedPrev, PmVal, PmKey, PmCount, PmBarrier,
        ScanVal, RlKey, GetKey

\* How a thread comes to a slot that has its key.
LEMMA AtKeySteps ==
  ASSUME TypeOK, NEW th \in Threads, Step(th), AtKey(th)'
  PROVE  /\ pm'[th].latest = pm[th].latest /\ pm'[th].i = pm[th].i /\ pm'[th].key = pm[th].key
         /\ AtSlot(th)
         /\ \/ AtKey(th)
            \/ Claims(th)
            \/ key[pm[th].latest][pm[th].i] = pm[th].key
  <1>1. /\ pm[th] \in FrameType
        /\ pc[th] \notin PutLabels \union {"rl_val", "rl_key"} \union Asserts => pm[th] = NoFrame
    BY DEF TypeOK, FrameInUse, LocalsTyped
  <1>2. /\ pc'[th] \in {"pm_count", "pm_barrier", "pm_adopt", "pm_write", "rl_val", "rl_key"}
        /\ pc'[th] \in {"rl_val", "rl_key"} => pm'[th].key # NULL
    BY DEF AtKey, AtSlot, PutLabels, InPutIfMatch
  <1>3. CASE PmKey(th)
    <2>1. ~PmReturn(th, Empty)
      BY <1>2 DEF PmReturn, MvAdvance, Return, Goto, TypeOK, LocalsTyped
    <2>2. pc[th] = "pm_key" /\ pm' = pm /\ (Claims(th) \/ key[pm[th].latest][pm[th].i] = pm[th].key)
      BY <1>2, <1>3, <2>1 DEF PmKey, Claims, Claimable, At, Goto, TypeOK, LocalsTyped
    <2> QED
      BY <2>2 DEF AtSlot, PutLabels
  <1>4. CASE PmCount(th) \/ PmBarrier(th)
    <2>1. pm' = pm /\ pc[th] \in {"pm_count", "pm_barrier"}
      BY <1>4 DEF PmCount, PmBarrier, At
    <2> QED
      BY <2>1 DEF AtKey, AtSlot, PutLabels
  <1>5. CASE PmAdopt(th)
    <2>1. pc[th] = "pm_adopt" /\ (pm'[th] = pm[th] \/ \E v : pm'[th] = [pm[th] EXCEPT !.v = v])
      BY <1>5 DEF PmAdopt, At, TypeOK, LocalsTyped
    <2> QED
      BY <1>1, <2>1 DEF AtKey, AtSlot, PutLabels, FrameType
  <1>6. CASE ScanVal(th) \/ RlKey(th)
    <2>1. ASSUME NEW w PROVE ~Return(th, w)
      BY <1>2 DEF Return, Goto, TypeOK, LocalsTyped
    <2>2. pm' = pm /\ pc[th] \in {"rl_val", "rl_key"}
      BY <1>2, <1>6, <2>1
      DEF ScanVal, RlKey, RlReturn, ScanNext, At, Goto, TypeOK, LocalsTyped
    <2>3. pm[th].key # NULL
      <3>1. CASE pc'[th] \in {"rl_val", "rl_key"}
        BY <1>2, <2>2, <3>1
      <3>2. CASE pc'[th] = "pm_adopt"
        <4>1. pm'[th].key \in Keys
          BY <3>2, EveryStepTyped DEF TypedStep, TypeOK, FrameInUse, Putting, PutLabels
        <4> QED
          BY <2>2, <4>1, CallAssumption
      <3> QED
        BY <1>2, <1>6, <2>1, <2>2, <3>1, <3>2
        DEF ScanVal, RlKey, RlReturn, ScanNext, Goto, TypeOK, LocalsTyped
    <2> QED
      BY <2>2, <2>3 DEF AtKey, AtSlot, InPutIfMatch
  <1>7. CASE GetKey(th)
    <2>1. ASSUME NEW w PROVE ~Return(th, w)
      BY <1>2 DEF Return, Goto, TypeOK, LocalsTyped
    <2>2. pm' = pm /\ pc[th] = "get_key" /\ pc'[th] \in {"rl_val", "get_val"}
      BY <1>7, <2>1 DEF GetKey, ScanNext, At, Goto, TypeOK, LocalsTyped
    <2>3. pm[th] = NoFrame
      BY <1>1, <2>2 DEF PutLabels, Asserts
    <2> QED
      BY <1>2, <2>2, <2>3 DEF NoFrame
  <1>8. CASE PmTop(th) \/ PmLatest(th) \/ PmPrev(th) \/ PmVal(th)
    BY <1>2, <1>8
    DEF PmTop, PmLatest, PmPrev, LoadedPrev, PmVal, At, Goto, TypeOK, LocalsTyped
  <1>9. CASE PmWrite(th)
    BY <1>2, <1>9 DEF PmWrite, PmReturn, MvAdvance, Return, At, Goto, TypeOK, LocalsTyped
  <1>10. CASE Begin(th) \/ LoadLatest(th) \/ Exit(th) \/ MvKey(th) \/ MvDetach(th)
    BY <1>2, <1>10
    DEF Begin, LoadLatest, Exit, MvKey, MvDetach, At, Goto, TypeOK, LocalsTyped
  <1>11. CASE LoadPrev(th) \/ Reload(th) \/ MvClaim(th) \/ MvDone(th)
    BY <1>2, <1>11
    DEF LoadPrev, Reload, MvClaim, MvDone, Serve, CallPutIfMatch, Return, At, Goto, TypeOK,
        LocalsTyped
  <1>12. CASE MvPrime(th)
    BY <1>2, <1>12
    DEF MvPrime, MvAdvance, CallPutIfMatch, At, Goto, TypeOK, LocalsTyped
  <1> QED
    BY <1>3, <1>4, <1>5, <1>6, <1>7, <1>8, <1>9, <1>10, <1>11, <1>12 DEF Step

LEMMA AtKeyStep ==
  ASSUME TypeOK, NEW th \in Threads, Step(th),
         AtKey(th) => key[pm[th].latest][pm[th].i] = pm[th].key
  PROVE  AtKey(th)' => key'[pm'[th].latest][pm'[th].i] = pm'[th].key
  <1> SUFFICES ASSUME AtKey(th)' PROVE key'[pm'[th].latest][pm'[th].i] = pm'[th].key
    OBVIOUS
  <1>1. /\ pm'[th].latest = pm[th].latest /\ pm'[th].i = pm[th].i /\ pm'[th].key = pm[th].key
        /\ AtSlot(th)
        /\ Claims(th) \/ key[pm[th].latest][pm[th].i] = pm[th].key
    BY AtKeySteps
  <1>2. PICK l \in Tables : l = pm[th].latest
    BY Fields DEF TypeOK
  <1>3. PICK i \in Slots(l) : i = pm[th].i
    BY <1>1, <1>2 DEF TypeOK, FrameInUse
  <1>4. pm[th].key \in Keys /\ pm[th].key # NULL
    <2>1. Putting(th)
      BY <1>1 DEF AtSlot, Putting
    <2> QED
      BY <2>1, CallAssumption DEF TypeOK, FrameInUse
  <1>5. CASE Claims(th)
    <2>1. key' = [key EXCEPT ![l][i] = pm[th].key]
      BY <1>2, <1>3, <1>5 DEF Claims
    <2>2. DOMAIN key = Tables /\ key[l] \in [Slots(l) -> Keys \union {NULL}]
      BY <1>2 DEF TypeOK, TablesTyped
    <2> QED
      BY <1>1, <1>2, <1>3, <2>1, <2>2
  <1>6. CASE key[pm[th].latest][pm[th].i] = pm[th].key
    BY <1>1, <1>2, <1>3, <1>4, <1>6, KeySteps DEF KeyStays
  <1> QED
    BY <1>1, <1>5, <1>6

-----------------------------------------------------------------------------
(* What a step does to its thread's place in the chunk.                    *)

LEMMA ItemSlots ==
  ASSUME TypeOK, NEW th \in Threads, Framed(th), AtItem(th)
  PROVE  /\ HasChunk(th) /\ top[th].prev \in Tables
         /\ \A s \in mv[th].old .. (mv[th].i - 1) : s \in Slots(top[th].prev)
         /\ Moving(th) => mv[th].i \in Slots(top[th].prev)
  <1>1. HasChunk(th)
    BY DEF AtItem, HasChunk
  <1>2. PICK p \in Tables : p = top[th].prev
    BY <1>1, ChunkFacts
  <1>3. PICK o \in Nat, n \in Nat, i \in Nat, m \in Nat, c \in Nat :
           /\ o = mv[th].old /\ n = mv[th].new /\ i = mv[th].i
           /\ m = moved[p] /\ c = Cap[p] /\ n <= m /\ m <= c
    BY <1>1, <1>2, ChunkFacts
  <1>4. i <= n /\ (Moving(th) => i < n)
    <2>1. CASE Moving(th)
      BY <1>3, <2>1 DEF TypeOK, FrameInUse
    <2>2. CASE ~Moving(th)
      BY <1>3, <2>2 DEF Framed, AtItem
    <2> QED
      BY <2>1, <2>2
  <1>5. \A s \in o .. (i - 1) : s \in 0 .. (c - 1)
    BY <1>3, <1>4
  <1>6. Moving(th) => i \in 0 .. (c - 1)
    BY <1>3, <1>4
  <1> QED
    BY <1>1, <1>2, <1>3, <1>5, <1>6 DEF Slots

Leaves(th) == ~AtItem(th)'

Stays(th) ==
    /\ AtItem(th) /\ top'[th].prev = top[th].prev /\ (Moving(th)' <=> Moving(th))
    /\ mv'[th].old = mv[th].old /\ mv'[th].i = mv[th].i /\ mv'[th].new = mv[th].new
    /\ pm'[th].mover <=> pm[th].mover
    /\ pm'[th].mover => pm'[th].key = pm[th].key /\ pm'[th].val = pm[th].val

\* The key it has loaded is that of its slot.
HasKey(th) == pc'[th] = "mv_prime" => mv'[th].k = key[top[th].prev][mv[th].i]

\* put_if_match returns to the mover.
Places(th) ==
    /\ PmWrite(th) /\ pm[th].mover /\ MvAdvance(th)
    /\ pm'[th] = NoFrame /\ top'[th] = top[th]

LEMMA PlaceLeaves ==
  ASSUME NEW th \in Threads, pm'[th] = NoFrame,
         pc'[th] \notin {"mv_key", "mv_prime", "mv_done"}
  PROVE  Leaves(th)
  BY DEF Leaves, AtItem, Moving, NoFrame

LEMMA ReturnLeaves ==
  ASSUME TypeOK, NEW th \in Threads, NEW w, Return(th, w)
  PROVE  Leaves(th)
  <1>1. pc'[th] = "exit" /\ pm'[th] = NoFrame
    BY DEF TypeOK, LocalsTyped, Return, Goto
  <1> QED
    BY <1>1, PlaceLeaves

LEMMA ServeLeaves ==
  ASSUME TypeOK, NEW th \in Threads, pm[th] = NoFrame, NEW l, NEW p, Serve(th, l, p)
  PROVE  Leaves(th)
  <1>1. CASE CallPutIfMatch(th, l, p, call[th].key, call[th].val, FALSE)
    BY <1>1 DEF TypeOK, LocalsTyped, CallPutIfMatch, Goto, Leaves, AtItem, Moving
  <1>2. CASE (Goto(th, "get_val") \/ Goto(th, "load_prev")) /\ UNCHANGED pm
    <2>1. pc'[th] \in {"get_val", "load_prev"} /\ pm'[th] = NoFrame
      BY <1>2 DEF TypeOK, LocalsTyped, Goto
    <2> QED
      BY <2>1, PlaceLeaves
  <1> QED
    BY <1>1, <1>2 DEF Serve

LEMMA InnerItems ==
  ASSUME TypeOK, NEW th \in Threads, pc[th] \in Inner, pc'[th] \in Inner,
         top'[th] = top[th], mv'[th] = mv[th],
         pm'[th].mover = pm[th].mover, pm'[th].key = pm[th].key, pm'[th].val = pm[th].val
  PROVE  (Stays(th) /\ HasKey(th)) \/ Leaves(th)
  <1>1. /\ pc[th] \notin {"mv_key", "mv_prime", "mv_done"}
        /\ pc'[th] \notin {"mv_key", "mv_prime", "mv_done"}
    BY DEF Inner, PutLabels
  <1> QED
    BY <1>1 DEF Stays, HasKey, Leaves, AtItem, Moving

\* Outside put_if_match and its lookup the thread has no frame of it.
LEMMA NoFrameAt ==
  ASSUME TypeOK, NEW th \in Threads, pc[th] \notin Inner \union Asserts
  PROVE  pm[th] = NoFrame
  BY DEF TypeOK, FrameInUse, Inner, PutLabels, Asserts

LEMMA ItemSteps ==
  ASSUME TypeOK, NEW th \in Threads, Framed(th), Relocates(th), Step(th)
  PROVE  Leaves(th) \/ (Stays(th) /\ HasKey(th)) \/ Takes(th) \/ MvPrime(th) \/ Places(th)
  <1>1. CASE Begin(th) \/ LoadLatest(th) \/ Exit(th) \/ MvDetach(th)
    <2>1. /\ pc[th] \in Idle \union {"mv_detach"} /\ pm' = pm
          /\ pc'[th] \in Idle \union {"load_prev"}
      BY <1>1
      DEF Begin, LoadLatest, Exit, MvDetach, At, Goto, Idle, TypeOK, LocalsTyped
    <2>2. pm'[th] = NoFrame
      BY <2>1, NoFrameAt DEF Idle, Inner, PutLabels, Asserts
    <2> QED
      BY <2>1, <2>2, PlaceLeaves DEF Idle
  <1>2. CASE LoadPrev(th) \/ Reload(th) \/ MvDone(th)
    <2>1. pc[th] \in {"load_prev", "reload", "mv_done"}
      BY <1>2 DEF LoadPrev, Reload, MvDone, At
    <2>2. pm[th] = NoFrame
      BY <2>1, NoFrameAt DEF Inner, PutLabels, Asserts
    <2>3. ASSUME Goto(th, "mv_claim") \/ Goto(th, "mv_detach"), pm' = pm PROVE Leaves(th)
      BY <2>2, <2>3, PlaceLeaves DEF Goto, TypeOK, LocalsTyped
    <2> QED
      BY <1>2, <2>2, <2>3, ReturnLeaves, ServeLeaves DEF LoadPrev, Reload, MvDone
  <1>3. CASE MvClaim(th)
    <2>1. pm[th] = NoFrame
      BY <1>3, NoFrameAt DEF MvClaim, At, Inner, PutLabels, Asserts
    <2> QED
      BY <1>3, <2>1, ClaimSteps, ServeLeaves
  <1>4. CASE MvKey(th)
    <2>1. /\ mv'[th] = [mv[th] EXCEPT !.k = key[top[th].prev][mv[th].i]]
          /\ mv[th] \in MoveType
      BY <1>4 DEF MvKey, TypeOK, LocalsTyped
    <2>2. /\ mv'[th].old = mv[th].old /\ mv'[th].i = mv[th].i /\ mv'[th].new = mv[th].new
          /\ mv'[th].k = key[top[th].prev][mv[th].i]
      BY <2>1 DEF MoveType
    <2>3. pc[th] = "mv_key" /\ pc'[th] = "mv_prime" /\ top' = top /\ pm' = pm
      BY <1>4 DEF MvKey, At, Goto, TypeOK, LocalsTyped, tables
    <2> QED
      BY <2>2, <2>3 DEF Stays, HasKey, AtItem, Moving
  <1>5. CASE PmTop(th) \/ PmLatest(th) \/ PmPrev(th) \/ PmVal(th)
    <2>1. pc[th] \in Inner /\ pc'[th] \in Inner /\ top' = top /\ mv' = mv
      BY <1>5
      DEF PmTop, PmLatest, PmPrev, LoadedPrev, PmVal, At, Goto, Inner, PutLabels, TypeOK,
          LocalsTyped, tables
    <2>2. \/ pm'[th] = [pm[th] EXCEPT !.latest = pm'[th].latest]
          \/ pm'[th] = [pm[th] EXCEPT !.latest = pm'[th].latest, !.prev = pm'[th].prev]
          \/ pm'[th] = [pm[th] EXCEPT !.prev = pm'[th].prev]
          \/ pm'[th] = [pm[th] EXCEPT !.i = pm'[th].i]
          \/ pm'[th] = [pm[th] EXCEPT !.v = pm'[th].v]
      BY <1>5
      DEF PmTop, PmLatest, PmPrev, LoadedPrev, PmVal, TypeOK, LocalsTyped, FrameType
    <2>3. pm'[th].mover = pm[th].mover /\ pm'[th].key = pm[th].key /\ pm'[th].val = pm[th].val
      BY <2>2 DEF TypeOK, LocalsTyped, FrameType
    <2> QED
      BY <2>1, <2>3, InnerItems
  <1>6. CASE PmCount(th) \/ PmBarrier(th)
    <2>1. pc[th] \in Inner /\ pc'[th] \in Inner /\ top' = top /\ mv' = mv /\ pm' = pm
      BY <1>6
      DEF PmCount, PmBarrier, AfterBarrier, At, Goto, Inner, PutLabels, TypeOK, LocalsTyped
    <2> QED
      BY <2>1, InnerItems
  <1>7. CASE PmAdopt(th)
    <2>1. pc[th] \in Inner /\ pc'[th] \in Inner /\ top' = top /\ mv' = mv
      BY <1>7 DEF PmAdopt, AfterBarrier, At, Goto, Inner, PutLabels, TypeOK, LocalsTyped
    <2>2. pm'[th] = pm[th] \/ \E v : pm'[th] = [pm[th] EXCEPT !.v = v]
      BY <1>7 DEF PmAdopt, TypeOK, LocalsTyped
    <2>3. pm'[th].mover = pm[th].mover /\ pm'[th].key = pm[th].key /\ pm'[th].val = pm[th].val
      BY <2>2 DEF TypeOK, LocalsTyped, FrameType
    <2> QED
      BY <2>1, <2>3, InnerItems
  <1>8. CASE PmKey(th)
    <2>1. CASE pm[th].val = TOMBSTONE /\ PmReturn(th, Empty)
      BY <2>1, ReturnLeaves DEF PmReturn, Relocates
    <2>2. CASE /\ pm'[th] = pm[th] \/ \E i : pm'[th] = [pm[th] EXCEPT !.i = i]
               /\ pc'[th] \in Inner /\ top' = top /\ mv' = mv
      <3>1. pc[th] \in Inner
        BY <1>8 DEF PmKey, At, Inner, PutLabels
      <3>2. pm'[th].mover = pm[th].mover /\ pm'[th].key = pm[th].key /\ pm'[th].val = pm[th].val
        BY <2>2 DEF TypeOK, LocalsTyped, FrameType
      <3> QED
        BY <2>2, <3>1, <3>2, InnerItems
    <2> QED
      BY <1>8, <2>1, <2>2 DEF PmKey, Goto, Inner, PutLabels, TypeOK, LocalsTyped
  <1>9. CASE PmWrite(th)
    <2>1. ASSUME NEW w, PmReturn(th, w) PROVE Leaves(th) \/ Places(th)
      BY <1>9, <2>1, ReturnLeaves DEF PmReturn, Places, TypeOK, LocalsTyped
    <2>2. CASE /\ Goto(th, "pm_top") /\ pm' = [pm EXCEPT ![th].v = Empty]
               /\ top' = top /\ mv' = mv
      <3>1. pc[th] \in Inner /\ pc'[th] \in Inner
        BY <1>9, <2>2 DEF PmWrite, At, Goto, Inner, PutLabels, TypeOK, LocalsTyped
      <3>2. pm'[th] = [pm[th] EXCEPT !.v = Empty]
        BY <2>2 DEF TypeOK, LocalsTyped
      <3>3. pm'[th].mover = pm[th].mover /\ pm'[th].key = pm[th].key /\ pm'[th].val = pm[th].val
        BY <3>2 DEF TypeOK, LocalsTyped, FrameType
      <3> QED
        BY <2>2, <3>1, <3>3, InnerItems
    <2> QED
      BY <1>9, <2>1, <2>2 DEF PmWrite
  <1>10. CASE ScanVal(th) \/ RlKey(th) \/ GetKey(th)
    <2>1. CASE pc'[th] \in Inner /\ top' = top /\ mv' = mv /\ pm' = pm
      <3>1. pc[th] \in Inner
        BY <1>10 DEF ScanVal, RlKey, GetKey, At, Inner
      <3> QED
        BY <2>1, <3>1, InnerItems
    <2>2. ASSUME NEW w, Return(th, w) PROVE Leaves(th)
      BY <2>2, ReturnLeaves
    <2> QED
      BY <1>10, <2>1, <2>2
      DEF ScanVal, RlKey, RlReturn, GetKey, ScanNext, Goto, Inner, PutLabels, TypeOK, LocalsTyped
  <1> QED
    BY <1>1, <1>2, <1>3, <1>4, <1>5, <1>6, <1>7, <1>8, <1>9, <1>10 DEF Step

-----------------------------------------------------------------------------
(* The items of a migration.                                               *)

\* What put_if_match leaves in the slot when it returns to the mover.
LEMMA PlacesArrives ==
  ASSUME TypeOK, NEW th \in Threads, Framed(th), Settled(th), Relocates(th), Places(th),
         NEW p, p = top[th].prev, NEW k, k = pm[th].key
  PROVE  key' = key /\ Arrived(p, k)'
  <1>1. pc[th] = "pm_write" /\ key' = key
    BY DEF Places, PmWrite, At
  <1>2. PICK l \in Tables : l = pm[th].latest
    BY Fields DEF TypeOK
  <1>3. PICK i \in Slots(l) : i = pm[th].i
    BY <1>1, <1>2 DEF TypeOK, FrameInUse, AtSlot, PutLabels
  <1>4. key[l][i] = k
    BY <1>1, <1>2, <1>3 DEF Relocates, AtKey, AtSlot, PutLabels
  <1>5. val'[l][i] # Empty
    <2>1. Plain(pm[th].val) # Empty
      BY <1>1 DEF TypeOK, FrameInUse, Putting, PutLabels, Plain, Empty
    <2>2. pm[th].v # Empty => val[l][i] # Empty
      BY <1>1, <1>2, <1>3 DEF Settled, AtSlot, PutLabels
    <2>3. pc'[th] # "pm_top"
      BY DEF Places, MvAdvance, Goto, TypeOK, LocalsTyped
    <2>4. \/ pm[th].v = Plain(pm[th].val) /\ val' = val
          \/ val' = [val EXCEPT ![l][i] = Plain(pm[th].val)]
          \/ val[l][i] # pm[th].v /\ val' = val
      BY <1>2, <1>3, <2>3 DEF Places, PmWrite, CasWins, Goto, TypeOK, LocalsTyped
    <2>5. DOMAIN val = Tables /\ val[l] \in [Slots(l) -> Word]
      BY DEF TypeOK, TablesTyped
    <2> QED
      BY <2>1, <2>2, <2>4, <2>5
  <1>6. l > p
    <2>1. HasChunk(th)
      BY DEF Places, HasChunk, Moving
    <2>2. top[th].prev # NULL /\ top[th].prev = top[th].latest - 1 /\ top[th].latest <= l
      BY <1>2, <2>1 DEF Framed, Places
    <2>3. l \in Nat /\ top[th].latest \in Nat
      BY <1>2, Fields DEF TypeOK, Tables
    <2> QED
      BY <2>2, <2>3
  <1> QED
    BY <1>1, <1>3, <1>4, <1>5, <1>6 DEF Arrived

\* The slot that the mover freezes was not frozen before.
LEMMA PrimeItem ==
  ASSUME TypeOK, NEW th \in Threads, Framed(th), SlotsSound, MvPrime(th)
  PROVE  LET p == top[th].prev
             i == mv[th].i
             v == val[p][i].v
         IN  /\ p \in Tables /\ i \in Slots(p) /\ key' = key /\ top' = top
             /\ pm[th] = NoFrame /\ pc[th] = "mv_prime"
             /\ \/ /\ v \in {NULL, TOMBSTONE}
                   /\ val'[p][i].prime /\ val'[p][i].v = NULL
                   /\ MvAdvance(th) /\ pm' = pm
                \/ /\ v \notin {NULL, TOMBSTONE} /\ mv[th].k # NULL
                   /\ val'[p][i].prime
                   /\ pc'[th] = "pm_top" /\ mv' = mv
                   /\ pm'[th].mover /\ pm'[th].key = mv[th].k /\ pm'[th].val = v
                \/ Leaves(th)
  <1>1. pc[th] = "mv_prime" /\ Moving(th)
    BY DEF MvPrime, At, Moving
  <1>2. pm[th] = NoFrame
    BY <1>1, MovingFacts
  <1>3. PICK p \in Tables : p = top[th].prev
    BY <1>1, MovingFacts
  <1>4. PICK i \in Slots(p) : i = mv[th].i
    BY <1>1, <1>3, MovingFacts
  <1>5. val[p] \in [Slots(p) -> Word] /\ DOMAIN val = Tables
    BY DEF TypeOK, TablesTyped
  <1>6. ~val[p][i].prime
    <2>1. i \in mv[th].i .. (mv[th].new - 1)
      BY <1>1, <1>4, MovingFacts
    <2>2. Todo(th, p, i)
      BY <1>1, <1>2, <1>3, <2>1 DEF Todo, NoFrame
    <2> QED
      BY <2>2 DEF SlotsSound
  <1>7. PICK w \in Word : w = val[p][i]
    BY <1>5
  <1>8. val'[p][i] = Frozen(w)
    BY <1>3, <1>4, <1>5, <1>7 DEF MvPrime
  <1>9. Frozen(w).prime /\ Frozen(w).v = IF w.v = TOMBSTONE THEN NULL ELSE w.v
    BY <1>6, <1>7 DEF Frozen
  <1>10. key' = key /\ top' = top
    BY DEF MvPrime
  <1>11. CASE w.v \in {NULL, TOMBSTONE}
    <2>1. MvAdvance(th) /\ pm' = pm
      BY <1>3, <1>4, <1>7, <1>11 DEF MvPrime
    <2> QED
      BY <1>1, <1>2, <1>3, <1>4, <1>7, <1>8, <1>9, <1>10, <1>11, <2>1
  <1>12. CASE w.v \notin {NULL, TOMBSTONE} /\ mv[th].k # NULL
    <2>1. CallPutIfMatch(th, top[th].latest, NULL, mv[th].k, w.v, TRUE) /\ mv' = mv
      BY <1>3, <1>4, <1>6, <1>7, <1>12 DEF MvPrime
    <2>2. pc'[th] = "pm_top"
      BY <2>1 DEF CallPutIfMatch, Goto, TypeOK, LocalsTyped
    <2>3. pm'[th].mover /\ pm'[th].key = mv[th].k /\ pm'[th].val = w.v
      BY <2>1 DEF CallPutIfMatch, TypeOK, LocalsTyped
    <2> QED
      BY <1>1, <1>2, <1>3, <1>4, <1>7, <1>8, <1>9, <1>10, <1>12, <2>1, <2>2, <2>3
  <1>13. CASE w.v \notin {NULL, TOMBSTONE} /\ mv[th].k = NULL
    <2>1. Goto(th, "assert(key)") /\ pm' = pm
      BY <1>3, <1>4, <1>6, <1>7, <1>13 DEF MvPrime
    <2>2. pc'[th] = "assert(key)" /\ pm'[th] = NoFrame
      BY <1>2, <2>1 DEF Goto, TypeOK, LocalsTyped
    <2>3. Leaves(th)
      BY <2>2, PlaceLeaves
    <2> QED
      BY <1>1, <1>2, <1>3, <1>4, <1>10, <2>3
  <1> QED
    BY <1>11, <1>12, <1>13

\* Slots that were moved stay so, and their keys stay.
LEMMA SlotStays ==
  ASSUME TypeOK, NEW th \in Threads, Settled(th), Step(th), NEW p \in Tables, NEW s \in Slots(p)
  PROVE  /\ Done(p, s) => Done(p, s)'
         /\ val[p][s].prime => val'[p][s] = val[p][s]
         /\ key[p][s] # NULL => key'[p][s] = key[p][s]
  <1>1. KeyStays /\ ValGrows
    BY KeySteps, ValSteps
  <1>2. key[p][s] \in Keys \union {NULL}
    BY DEF TypeOK, TablesTyped
  <1>3. \A k \in Keys : k # NULL
    BY CallAssumption
  <1>4. Done(p, s) => Done(p, s)'
    BY <1>1, <1>2, <1>3, DoneStays
  <1> QED
    BY <1>1, <1>4 DEF KeyStays, ValGrows

\* A thread that does not move on, because it is another one's turn or
\* because it is inside put_if_match, keeps what it knows of its slots.
LEMMA KeepsItems ==
  ASSUME TypeOK, NEW th \in Threads, Settled(th), Step(th),
         NEW t2 \in Threads, Framed(t2), Relocates(t2), Stays(t2),
         NEW p, p = top[t2].prev
  PROVE  /\ \A s \in mv'[t2].old .. (mv'[t2].i - 1) : Done(p, s)'
         /\ pm'[t2].mover =>
               /\ val'[p][mv'[t2].i].prime /\ key'[p][mv'[t2].i] = pm'[t2].key
               /\ pm'[t2].val \notin {NULL, TOMBSTONE}
  <1>1. p \in Tables
    BY ItemSlots DEF Stays
  <1>2. ASSUME NEW s \in mv'[t2].old .. (mv'[t2].i - 1) PROVE Done(p, s)'
    <2>1. s \in Slots(p) /\ Done(p, s)
      BY <1>1, <1>2, ItemSlots DEF Stays, Relocates
    <2> QED
      BY <1>1, <2>1, SlotStays
  <1>3. ASSUME pm'[t2].mover
        PROVE  /\ val'[p][mv'[t2].i].prime /\ key'[p][mv'[t2].i] = pm'[t2].key
               /\ pm'[t2].val \notin {NULL, TOMBSTONE}
    <2>1. /\ pm[t2].mover /\ pm'[t2].key = pm[t2].key /\ pm'[t2].val = pm[t2].val
          /\ mv'[t2].i = mv[t2].i
      BY <1>3 DEF Stays
    <2>2. PICK i \in Slots(p) : i = mv[t2].i
      BY <1>1, <2>1, ItemSlots DEF Moving, Stays
    <2>3. val[p][i].prime /\ key[p][i] = pm[t2].key /\ pm[t2].val \notin {NULL, TOMBSTONE}
      BY <1>1, <2>1, <2>2 DEF Relocates
    <2>4. pm[t2].key # NULL
      BY <2>1 DEF Framed, InPutIfMatch
    <2>5. val'[p][i] = val[p][i] /\ key'[p][i] = key[p][i]
      BY <1>1, <2>2, <2>3, <2>4, SlotStays
    <2> QED
      BY <2>1, <2>2, <2>3, <2>5
  <1> QED
    BY <1>2, <1>3

\* The chunk's slots before the next one: those before this one, and this one.
LEMMA NextItem ==
  ASSUME TypeOK, NEW th \in Threads, Moving(th), MvAdvance(th), pm'[th] = NoFrame
  PROVE  /\ \A s \in mv'[th].old .. (mv'[th].i - 1) :
               s \in mv[th].old .. (mv[th].i - 1) \/ s = mv[th].i
         /\ \A s \in mv'[th].i .. (mv'[th].new - 1) :
               s \in mv[th].i .. (mv[th].new - 1) /\ s # mv[th].i
         /\ pc'[th] \in {"mv_key", "mv_done"}
  <1>1. /\ mv'[th] = Chunk(mv[th].old, mv[th].i + 1, mv[th].new)
        /\ pc'[th] \in {"mv_key", "mv_done"}
    BY DEF TypeOK, LocalsTyped, MvAdvance, Goto
  <1>2. PICK o \in Nat, i \in Nat, n \in Nat : o = mv[th].old /\ i = mv[th].i /\ n = mv[th].new
    BY Fields DEF TypeOK
  <1>3. mv'[th].old = o /\ mv'[th].i = i + 1 /\ mv'[th].new = n
    BY <1>1, <1>2 DEF Chunk
  <1>4. \A s \in o .. ((i + 1) - 1) : s \in o .. (i - 1) \/ s = i
    BY <1>2
  <1>5. \A s \in (i + 1) .. (n - 1) : s \in i .. (n - 1) /\ s # i
    BY <1>2
  <1> QED
    BY <1>1, <1>2, <1>3, <1>4, <1>5

LEMMA TakesNoFrame ==
  ASSUME TypeOK, NEW th \in Threads, Step(th), Takes(th)
  PROVE  pm'[th] = NoFrame
  <1>1. pc[th] = "mv_claim" /\ pc'[th] = "mv_key"
    BY DEF Takes
  <1>2. UNCHANGED pm
    BY <1>1
    DEF Step, Begin, LoadLatest, LoadPrev, Reload, Exit, MvClaim, MvKey, MvPrime, MvDone,
        MvDetach, PmTop, PmLatest, PmPrev, PmVal, PmKey, PmCount, PmBarrier, PmAdopt, PmWrite,
        ScanVal, RlKey, GetKey, At, Serve, CallPutIfMatch, Goto, TypeOK, LocalsTyped
  <1>3. pm[th] = NoFrame
    BY <1>1, NoFrameAt DEF Inner, PutLabels, Asserts
  <1> QED
    BY <1>2, <1>3

LEMMA ThreadRelocates ==
  ASSUME TypeOK, SlotsSound, NEW th \in Threads,
         Framed(th), Settled(th), Relocates(th), Step(th)
  PROVE  Relocates(th)'
  <1> DEFINE R(t) == /\ AtItem(th)' => \A s \in mv'[th].old .. (mv'[th].i - 1) : Done(t, s)'
                     /\ pm'[th].mover =>
                           /\ val'[t][mv'[th].i].prime /\ key'[t][mv'[th].i] = pm'[th].key
                           /\ pm'[th].val \notin {NULL, TOMBSTONE}
                     /\ pc'[th] = "mv_prime" /\ mv'[th].k # NULL =>
                           key'[t][mv'[th].i] = mv'[th].k
  <1>1. AtKey(th)' => key'[pm'[th].latest][pm'[th].i] = pm'[th].key
    BY AtKeyStep DEF Relocates
  <1>2. ASSUME NEW t, t = top'[th].prev, R(t) PROVE Relocates(th)'
    BY <1>1, <1>2 DEF Relocates
  <1>3. CASE Leaves(th)
    <2>1. \A t : R(t)
      BY <1>3 DEF Leaves, AtItem, Moving
    <2> HIDE DEF R
    <2> QED
      BY <1>2, <2>1
  <1>4. CASE Stays(th) /\ HasKey(th)
    <2>1. PICK p \in Tables : p = top[th].prev /\ p = top'[th].prev
      BY <1>4, ItemSlots DEF Stays
    <2>2. ASSUME pc'[th] = "mv_prime", mv'[th].k # NULL PROVE key'[p][mv'[th].i] = mv'[th].k
      <3>1. Moving(th) /\ mv'[th].i = mv[th].i /\ mv'[th].k = key[p][mv[th].i]
        BY <1>4, <2>1, <2>2 DEF Stays, HasKey, Moving
      <3>2. PICK i \in Slots(p) : i = mv[th].i
        BY <1>4, <2>1, <3>1, ItemSlots DEF Stays
      <3> QED
        BY <2>1, <2>2, <3>1, <3>2, SlotStays
    <2>3. R(p)
      BY <1>4, <2>1, <2>2, KeepsItems
    <2> HIDE DEF R
    <2> QED
      BY <1>2, <2>1, <2>3
  <1>5. CASE Takes(th)
    <2>1. /\ pc[th] = "mv_claim" /\ pc'[th] = "mv_key"
          /\ \E m \in Nat, n \in Nat : mv'[th] = Chunk(m, m, n)
      BY <1>5 DEF Takes, TypeOK, TablesTyped
    <2>2. ~pm'[th].mover
      BY <1>5, TakesNoFrame DEF NoFrame
    <2>3. PICK m \in Nat : mv'[th].old = m /\ mv'[th].i = m
      BY <2>1 DEF Chunk
    <2>4. m .. (m - 1) = {}
      OBVIOUS
    <2>5. \A t : R(t)
      BY <2>1, <2>2, <2>3, <2>4
    <2> HIDE DEF R
    <2> QED
      BY <1>2, <2>5
  <1>6. CASE MvPrime(th)
    <2>1. PICK p \in Tables : p = top[th].prev
      BY <1>6, PrimeItem
    <2>2. PICK i \in Slots(p) : i = mv[th].i
      BY <1>6, <2>1, PrimeItem
    <2>3. top'[th].prev = p /\ key' = key /\ pc[th] = "mv_prime" /\ Moving(th) /\ AtItem(th)
          /\ pm[th] = NoFrame
      BY <1>6, <2>1, PrimeItem DEF Moving, AtItem
    <2>4. ASSUME NEW s \in mv[th].old .. (mv[th].i - 1) PROVE Done(p, s)'
      <3>1. s \in Slots(p) /\ Done(p, s)
        BY <2>1, <2>3, <2>4, ItemSlots DEF Relocates
      <3> QED
        BY <3>1, SlotStays
    <2>5. CASE /\ val'[p][i].prime /\ val'[p][i].v = NULL
               /\ MvAdvance(th) /\ pm' = pm
      <3>1. Done(p, i)'
        BY <2>5 DEF Done
      <3>2. pm'[th] = NoFrame /\ pc'[th] \in {"mv_key", "mv_done"}
        BY <2>3, <2>5, NextItem
      <3>3. \A s \in mv'[th].old .. (mv'[th].i - 1) : Done(p, s)'
        BY <2>2, <2>3, <2>4, <2>5, <3>1, NextItem
      <3>4. R(p)
        BY <3>2, <3>3 DEF NoFrame
      <3> HIDE DEF R
      <3> QED
        BY <1>2, <2>3, <3>4
    <2>6. CASE /\ val[p][i].v \notin {NULL, TOMBSTONE} /\ mv[th].k # NULL
               /\ val'[p][i].prime
               /\ pc'[th] = "pm_top" /\ mv' = mv
               /\ pm'[th].mover /\ pm'[th].key = mv[th].k /\ pm'[th].val = val[p][i].v
      <3>1. key[p][i] = mv[th].k
        BY <2>1, <2>2, <2>3, <2>6 DEF Relocates
      <3>2. R(p)
        BY <2>2, <2>3, <2>4, <2>6, <3>1
      <3> HIDE DEF R
      <3> QED
        BY <1>2, <2>3, <3>2
    <2> QED
      BY <1>3, <1>6, <2>1, <2>2, <2>5, <2>6, PrimeItem
  <1>7. CASE Places(th)
    <2>1. Moving(th) /\ AtItem(th) /\ pm[th].mover
      BY <1>7 DEF Places, Moving, AtItem
    <2>2. PICK p \in Tables : p = top[th].prev
      BY <2>1, ItemSlots
    <2>3. PICK i \in Slots(p) : i = mv[th].i
      BY <2>1, <2>2, ItemSlots
    <2>4. top'[th].prev = p
      BY <1>7, <2>2 DEF Places
    <2>5. PICK k : k = pm[th].key
      OBVIOUS
    <2>6. val[p][i].prime /\ key[p][i] = k /\ k # NULL
      BY <2>1, <2>2, <2>3, <2>5 DEF Relocates, Framed, InPutIfMatch
    <2>7. val'[p][i].prime /\ key'[p][i] = k /\ Arrived(p, k)'
      BY <1>7, <2>2, <2>5, <2>6, SlotStays, PlacesArrives
    <2>8. Done(p, i)'
      BY <2>6, <2>7 DEF Done
    <2>9. ASSUME NEW s \in mv[th].old .. (mv[th].i - 1) PROVE Done(p, s)'
      <3>1. s \in Slots(p) /\ Done(p, s)
        BY <2>1, <2>2, <2>9, ItemSlots DEF Relocates
      <3> QED
        BY <3>1, SlotStays
    <2>10. MvAdvance(th) /\ pm'[th] = NoFrame
      BY <1>7 DEF Places
    <2>11. /\ pc'[th] \in {"mv_key", "mv_done"}
           /\ \A s \in mv'[th].old .. (mv'[th].i - 1) : Done(p, s)'
      BY <2>1, <2>3, <2>8, <2>9, <2>10, NextItem
    <2>12. R(p)
      BY <2>10, <2>11 DEF NoFrame
    <2> HIDE DEF R
    <2> QED
      BY <1>2, <2>4, <2>12
  <1> QED
    BY <1>3, <1>4, <1>5, <1>6, <1>7, ItemSteps

LEMMA OthersRelocate ==
  ASSUME TypeOK, NEW th \in Threads, Settled(th), Step(th),
         NEW t2 \in Threads \ {th}, Framed(t2), Relocates(t2)
  PROVE  Relocates(t2)'
  <1>1. /\ pc'[t2] = pc[t2] /\ top'[t2] = top[t2] /\ mv'[t2] = mv[t2] /\ pm'[t2] = pm[t2]
    BY EveryStepTyped DEF TypedStep, LocalStep, SameLocals
  <1>2. PICK p : p = top[t2].prev
    OBVIOUS
  <1>3. ASSUME pc[t2] = "mv_prime", mv[t2].k # NULL PROVE key'[p][mv[t2].i] = mv[t2].k
    <2>1. p \in Tables /\ mv[t2].i \in Slots(p) /\ key[p][mv[t2].i] = mv[t2].k
      BY <1>2, <1>3, MovingFacts DEF Relocates
    <2> QED
      BY <1>3, <2>1, SlotStays
  <1>4. ASSUME AtKey(t2) PROVE key'[pm[t2].latest][pm[t2].i] = pm[t2].key
    <2>1. PICK l \in Tables : l = pm[t2].latest
      BY Fields DEF TypeOK
    <2>2. PICK i \in Slots(l) : i = pm[t2].i
      BY <1>4, <2>1 DEF AtKey, TypeOK, FrameInUse
    <2>3. key[l][i] = pm[t2].key /\ pm[t2].key # NULL
      <3>1. Putting(t2)
        BY <1>4 DEF AtKey, AtSlot, Putting
      <3> QED
        BY <1>4, <2>1, <2>2, <3>1, CallAssumption DEF Relocates, TypeOK, FrameInUse
    <2> QED
      BY <2>1, <2>2, <2>3, SlotStays
  <1>5. CASE ~AtItem(t2)
    <2>1. ~AtItem(t2)'
      BY <1>1, <1>5 DEF AtItem, Moving
    <2>2. ~pm[t2].mover /\ pc[t2] # "mv_prime"
      BY <1>5 DEF AtItem, Moving
    <2> QED
      BY <1>1, <1>4, <2>1, <2>2 DEF Relocates, AtKey, AtSlot, InPutIfMatch
  <1>6. CASE AtItem(t2)
    <2>1. /\ \A s \in mv'[t2].old .. (mv'[t2].i - 1) : Done(p, s)'
          /\ pm'[t2].mover =>
               /\ val'[p][mv'[t2].i].prime /\ key'[p][mv'[t2].i] = pm'[t2].key
               /\ pm'[t2].val \notin {NULL, TOMBSTONE}
      <3>1. Stays(t2)
        BY <1>1, <1>6 DEF Stays, AtItem, Moving
      <3> QED
        BY <1>2, <3>1, KeepsItems
    <2> QED
      BY <1>1, <1>2, <1>3, <1>4, <2>1 DEF Relocates, AtKey, AtSlot, InPutIfMatch
  <1> QED
    BY <1>5, <1>6

LEMMA TodoSteps ==
  ASSUME TypeOK, SlotsSound, NEW th \in Threads, Framed(th), Relocates(th), Step(th),
         NEW p \in Tables, NEW s \in Slots(p), Todo(th, p, s)'
  PROVE  \/ Todo(th, p, s) /\ ~(MvPrime(th) /\ s = mv[th].i)
         \/ Takes(th) /\ s >= moved[p]
  <1>1. Moving(th)' /\ AtItem(th)' /\ ~Leaves(th)
    BY DEF Todo, AtItem, Leaves
  <1>2. CASE MvPrime(th)
    <2>1. top' = top /\ pm[th] = NoFrame /\ Moving(th)
      BY <1>2, PrimeItem DEF Moving
    <2>2. ASSUME s \in mv[th].i .. (mv[th].new - 1), s # mv[th].i PROVE Todo(th, p, s)
      BY <2>1, <2>2 DEF Todo
    <2>3. CASE MvAdvance(th) /\ pm' = pm
      BY <2>1, <2>2, <2>3, NextItem DEF Todo
    <2>4. CASE mv' = mv /\ pm'[th].mover
      BY <2>1, <2>2, <2>4 DEF Todo
    <2> QED
      BY <1>1, <1>2, <2>3, <2>4, PrimeItem
  <1>3. CASE Stays(th) /\ ~MvPrime(th)
    BY <1>3 DEF Stays, Todo
  <1>4. CASE Takes(th)
    <2>1. mv'[th].i = moved[p] /\ s \in mv'[th].i .. (mv'[th].new - 1)
      BY <1>4 DEF Takes, Todo, Chunk
    <2>2. moved[p] \in Nat /\ s \in Nat
      BY DEF TypeOK, TablesTyped, Slots
    <2> QED
      BY <1>4, <2>1, <2>2
  <1>5. CASE Places(th) /\ ~MvPrime(th)
    <2>1. Moving(th) /\ MvAdvance(th) /\ pm'[th] = NoFrame /\ top'[th] = top[th]
      BY <1>5 DEF Places, Moving
    <2>2. s \in mv[th].i .. (mv[th].new - 1) /\ s # mv[th].i
      BY <2>1, NextItem DEF Todo
    <2> QED
      BY <1>5, <2>1, <2>2 DEF Todo
  <1> QED
    BY <1>1, <1>2, <1>3, <1>4, <1>5, ItemSteps

LEMMA TodoInChunk ==
  ASSUME TypeOK, NEW th \in Threads, NEW p \in Tables, NEW s \in Slots(p), Todo(th, p, s)
  PROVE  InChunk(th, p, s)
  <1>1. PICK o \in Nat, i \in Nat, n \in Nat :
           o = mv[th].old /\ i = mv[th].i /\ n = mv[th].new /\ o <= i
    BY Fields DEF Todo, TypeOK, FrameInUse
  <1>2. s \in i .. (n - 1) => s \in o .. (n - 1)
    BY <1>1
  <1> QED
    BY <1>1, <1>2 DEF Todo, InChunk

\* Only the thread whose turn it is freezes a slot, when it comes to it.
LEMMA FreezesInTurn ==
  ASSUME TypeOK, SlotsSound, Chunked, \A t2 \in Threads : Framed(t2),
         NEW th \in Threads, Settled(th), Relocates(th), Step(th),
         NEW p \in Tables, NEW s \in Slots(p),
         s >= moved'[p] \/ (\E t2 \in Threads : Todo(t2, p, s)')
  PROVE  ~val'[p][s].prime
  <1>1. moved[p] \in Nat /\ moved'[p] \in Nat /\ s \in Nat
    BY EveryStepTyped DEF TypedStep, TypeOK, TablesTyped, Slots
  <1>2. moved[p] <= moved'[p]
    <2>1. CASE moved' = moved
      BY <1>1, <2>1
    <2>2. CASE Takes(th)
      BY <1>1, <2>2 DEF Takes, TypeOK, TablesTyped
    <2> QED
      BY <2>1, <2>2, ChunkSteps DEF Holds, Gives, chunks
  <1>3. ASSUME NEW t2 \in Threads \ {th}, Todo(t2, p, s)' PROVE Todo(t2, p, s)
    BY <1>3, EveryStepTyped DEF TypedStep, LocalStep, SameLocals, Todo, Moving
  <1>4. ~val[p][s].prime
    <2>1. CASE s >= moved'[p]
      <3>1. s >= moved[p]
        BY <1>1, <1>2, <2>1
      <3> QED
        BY <3>1 DEF SlotsSound
    <2>2. CASE Todo(th, p, s)'
      BY <2>2, TodoSteps DEF SlotsSound
    <2>3. ASSUME NEW t2 \in Threads \ {th}, Todo(t2, p, s)' PROVE ~val[p][s].prime
      BY <1>3, <2>3 DEF SlotsSound
    <2> QED
      BY <2>1, <2>2, <2>3
  <1>5. ASSUME val'[p][s].prime PROVE FALSE
    <2>1. MvPrime(th) /\ p = top[th].prev /\ s = mv[th].i
      BY <1>4, <1>5, PrimeSteps
    <2>2. pc[th] = "mv_prime" /\ moved' = moved /\ Moving(th) /\ HasChunk(th) /\ pm[th] = NoFrame
      BY <2>1, MovingFacts DEF MvPrime, At, chunks, Moving, HasChunk
    <2>3. Todo(th, p, s)
      <3>1. s \in mv[th].i .. (mv[th].new - 1)
        BY <1>1, <2>1, <2>2, MovingFacts
      <3> QED
        BY <2>1, <2>2, <3>1 DEF Todo, NoFrame
    <2>4. ~(s >= moved'[p])
      <3>1. PICK n \in Nat : n = mv[th].new /\ s < n /\ n <= moved[p]
        BY <2>1, <2>2, MovingFacts, ChunkFacts
      <3> QED
        BY <1>1, <2>2, <3>1
    <2>5. PICK t2 \in Threads : Todo(t2, p, s)'
      BY <2>4
    <2>6. t2 = th
      <3>1. CASE t2 # th
        BY <1>3, <2>3, <2>5, <3>1, TodoInChunk DEF Chunked
      <3> QED
        BY <3>1
    <2>7. ~Takes(th)
      BY <2>2 DEF Takes
    <2> QED
      BY <2>1, <2>5, <2>6, <2>7, TodoSteps
  <1> QED
    BY <1>5

LEMMA SlotsSoundStep ==
  ASSUME TypeOK, SlotsSound, Chunked, \A t2 \in Threads : Framed(t2),
         NEW th \in Threads, Settled(th), Relocates(th), Step(th)
  PROVE  SlotsSound'
  <1>1. ASSUME NEW p \in Tables, NEW s \in Accounted(p)' PROVE Done(p, s)'
    <2>1. ASSUME s \in Accounted(p) PROVE Done(p, s)'
      <3>1. s \in Slots(p)
        <4>1. moved[p] \in Nat /\ Cap[p] \in Nat /\ moved[p] <= Cap[p]
          BY SizeAssumption DEF TypeOK, TablesTyped
        <4>2. s \in 0 .. (moved[p] - 1)
          BY <2>1 DEF Accounted
        <4> QED
          BY <4>1, <4>2 DEF Slots
      <3> QED
        BY <2>1, <3>1, SlotStays DEF SlotsSound
    <2>2. CASE Holds(th)
      BY <1>1, <2>1, <2>2, HoldsChunked
    <2>3. CASE Takes(th)
      BY <1>1, <2>1, <2>3, TakesChunked
    <2>4. CASE Gives(th)
      <3>1. HasChunk(th) /\ AtItem(th) /\ pc[th] = "mv_done"
        BY <2>4 DEF Gives, HasChunk, AtItem
      <3>2. PICK q \in Tables : q = top[th].prev
        BY <3>1, ChunkFacts
      <3>3. CASE p # q
        BY <1>1, <2>1, <2>4, <3>2, <3>3, GivesChunked
      <3>4. CASE p = q /\ s \in mv[th].old .. (mv[th].new - 1)
        <4>1. mv[th].i = mv[th].new
          BY <3>1 DEF Framed
        <4>2. s \in Slots(p) /\ Done(p, s)
          BY <3>1, <3>2, <3>4, <4>1, ItemSlots DEF Relocates
        <4> QED
          BY <4>2, SlotStays
      <3>5. CASE p = q /\ s \notin mv[th].old .. (mv[th].new - 1)
        BY <1>1, <2>1, <2>4, <3>2, <3>5, GivesChunked
      <3> QED
        BY <3>3, <3>4, <3>5
    <2> QED
      BY <2>2, <2>3, <2>4, ChunkSteps
  <1>2. ASSUME NEW p \in Tables, NEW s \in Slots(p),
               s >= moved'[p] \/ (\E t2 \in Threads : Todo(t2, p, s)')
        PROVE  ~val'[p][s].prime
    BY <1>2, FreezesInTurn
  <1> QED
    BY <1>1, <1>2 DEF SlotsSound

LEMMA InitItems == Init => ItemsSound
  <1> SUFFICES ASSUME Init PROVE ItemsSound
    OBVIOUS
  <1>1. \A th \in Threads : pc[th] = "idle" /\ pm[th] = NoFrame /\ ~AtItem(th) /\ ~Moving(th)
    BY DEF Init, AtItem, Moving, NoFrame
  <1>2. \A p \in Tables : Accounted(p) = {}
    <2>1. 0 .. (0 - 1) = {}
      OBVIOUS
    <2> QED
      BY <2>1 DEF Init, Accounted
  <1>3. \A p \in Tables : \A s \in Slots(p) : ~val[p][s].prime
    BY DEF Init, Empty, Plain
  <1>4. \A th \in Threads : Relocates(th)
    BY <1>1 DEF Relocates, AtKey, AtSlot, InPutIfMatch, PutLabels, NoFrame
  <1> QED
    BY <1>1, <1>2, <1>3, <1>4 DEF ItemsSound, SlotsSound

LEMMA NextItems ==
  ASSUME TypeOK, AllSettled, MoveSound, ItemsSound, [Next]_vars
  PROVE  ItemsSound'
  <1>1. ASSUME UNCHANGED vars PROVE ItemsSound'
    BY <1>1
    DEF vars, tables, chain, slots, chunks, ItemsSound, SlotsSound, Relocates, Done, Arrived, Todo,
        Accounted, InChunk, AtItem, AtKey, AtSlot, Moving, InPutIfMatch
  <1>2. ASSUME NEW th \in Threads, Step(th) PROVE ItemsSound'
    <2>1. SlotsSound'
      BY <1>2, SlotsSoundStep DEF ItemsSound, MoveSound, AllSettled
    <2>2. Relocates(th)'
      BY <1>2, ThreadRelocates DEF ItemsSound, MoveSound, AllSettled
    <2>3. \A t2 \in Threads \ {th} : Relocates(t2)'
      BY <1>2, OthersRelocate DEF ItemsSound, MoveSound, AllSettled
    <2> QED
      BY <2>1, <2>2, <2>3 DEF ItemsSound
  <1> QED
    BY <1>1, <1>2 DEF Next

LEMMA ItemsAlways == Spec => [](TypeOK /\ AllSettled /\ MoveSound /\ ItemsSound)
  BY InitItems, NextItems, MoveAlways, SettledAlways, PTL DEF Spec

\* When the count is complete, every slot was moved in a chunk that is done.
LEMMA AllAccounted ==
  ASSUME TypeOK, MoveSound, NEW p \in Tables, move_done[p] = Cap[p]
  PROVE  Accounted(p) = Slots(p)
  <1>1. PICK c \in Nat \ {0} : c = Cap[p] /\ moved[p] <= c /\ moved[p] \in Nat
    BY SizeAssumption DEF TypeOK, TablesTyped
  <1>2. Cardinality(Accounted(p)) = c
    BY <1>1 DEF MoveSound, Chunked
  <1>3. Slots(p) = 0 .. (c - 1)
    BY <1>1 DEF Slots
  <1>4. IsFiniteSet(Slots(p)) /\ Cardinality(Slots(p)) = c
    <2>1. 0 \in Int /\ c - 1 \in Int /\ ~(0 > c - 1) /\ (c - 1) - 0 + 1 = c
      BY <1>1
    <2>2. IsFiniteSet(0 .. (c - 1)) /\ Cardinality(0 .. (c - 1)) = c
      BY <2>1, FS_Interval
    <2> QED
      BY <1>3, <2>2
  <1>5. Accounted(p) \subseteq Slots(p)
    <2>1. \A s \in 0 .. (moved[p] - 1) : s \in 0 .. (c - 1)
      BY <1>1
    <2> QED
      BY <1>3, <2>1 DEF Accounted
  <1> QED
    BY <1>2, <1>4, <1>5, FS_Subset

LEMMA RetiredDone ==
  ASSUME TypeOK, MoveSound, ItemsSound, NEW p \in retired, NEW s \in Slots(p)
  PROVE  p \in Tables /\ Done(p, s)
  <1>1. p \in Tables
    BY DEF TypeOK, TablesTyped
  <1>2. Accounted(p) = Slots(p)
    BY <1>1, AllAccounted DEF MoveSound, Chunked
  <1> QED
    BY <1>1, <1>2 DEF ItemsSound, SlotsSound

\* When a table is handed to the freeing thread all its slots are frozen, and
\* every key that still had a value there has one in a newer table: no chunk
\* was counted as moved before its last item had arrived.
THEOREM RetiredIsMigrated == Spec => []RetiredMigrated
  <1>1. TypeOK /\ MoveSound /\ ItemsSound => RetiredMigrated
    BY RetiredDone DEF RetiredMigrated, Done, Arrived
  <1> QED
    BY <1>1, ItemsAlways, PTL

-----------------------------------------------------------------------------
(***************************************************************************)
(* The map that nobody removes from is a set of keys that only grows, for  *)
(* any number of threads, keys, tables and slots, as long as no resize     *)
(* begins while an older table is still being moved.                       *)
(***************************************************************************)

\* No client removes a key.
NothingRemoved == \A th \in Threads : \A c \in Calls[th] : c.op # "remove"

\* assert(prev->prev == NULL) of put_if_match, at all times and for all tables.
NoNesting == \A t \in Tables : prev[t] # NULL => prev[prev[t]] = NULL

-----------------------------------------------------------------------------
(***************************************************************************)
(* The keys that have a value, in whichever table, are the visible ones.   *)
(***************************************************************************)
Present(k) == \E t \in Tables : \E s \in Slots(t) : key[t][s] = k /\ val[t][s].v # NULL

\* One table, or two while the older one is being moved, are not retired.
Tidy == retired = 1 .. (latest - 1) \/ retired = 1 .. (latest - 2)

\* Nothing was moved from the latest table, and later ones are not in use.
Fresh ==
    \A t \in Tables :
        /\ t >= latest => moved[t] = 0
        /\ t > latest => \A s \in Slots(t) : key[t][s] = NULL

Valued ==
    \A t \in Tables : \A s \in Slots(t) :
        /\ val[t][s].v # TOMBSTONE
        /\ val[t][s].v # NULL => key[t][s] # NULL

\* What a retired table had is in one of the others.
Placed ==
    \A t \in retired : \A s \in Slots(t) : val[t][s].v # NULL =>
        \E u \in Tables \ retired : u <= latest /\ \E r \in Slots(u) :
            key[u][r] = key[t][s] /\ val[u][r].v # NULL

Honest(th) ==
    /\ scan[th].v.v # TOMBSTONE /\ call[th].op # "remove"
    /\ Putting(th) /\ ~pm[th].mover => pm[th].key = call[th].key
    /\ pm[th].mover => val[top[th].prev][mv[th].i].v # NULL
    /\ AtSlot(th) /\ pc[th] # "pm_val" /\ pm[th].v.v # NULL =>
          val[pm[th].latest][pm[th].i].v # NULL
    /\ pc[th] = "exit" /\ call[th].op = "put" => Present(call[th].key)

InternSound == Tidy /\ Fresh /\ Valued /\ Placed /\ \A th \in Threads : Honest(th)

\* What the theorems about migration have shown.
Migrates == TypeOK /\ AllSettled /\ MoveSound /\ ItemsSound

Shown == \A k \in Keys : k \in Visible <=> Present(k)

LEMMA ReachableIs ==
  ASSUME TypeOK, Linked, Tidy, NEW t \in Tables, t <= latest, t \notin retired
  PROVE  t \in Reachable
  <1>1. latest \in Nat /\ t \in Nat /\ 1 <= t /\ latest <= MaxTables
    BY DEF TypeOK, TablesTyped, Tables
  <1>2. ASSUME NEW u \in (t + 1) .. latest PROVE prev[u] = u - 1
    <2>1. u \in Nat /\ t < u /\ u <= latest /\ 1 < u /\ u \in Tables
      BY <1>1, SizeAssumption DEF Tables
    <2>2. u - 1 \notin retired
      <3>1. CASE retired = 1 .. (latest - 1)
        BY <1>1, <2>1, <3>1
      <3>2. CASE retired = 1 .. (latest - 2)
        BY <1>1, <2>1, <3>2
      <3> QED
        BY <3>1, <3>2 DEF Tidy
    <2> QED
      BY <2>1, <2>2 DEF Linked
  <1> QED
    BY <1>2 DEF Reachable

LEMMA PresentIsShown == Migrates /\ InternSound => Shown
  <1> SUFFICES ASSUME Migrates, InternSound, NEW k \in Keys
               PROVE  k \in Visible <=> Present(k)
    BY DEF Shown
  <1>1. k \in Visible => Present(k)
    BY DEF Visible, Reachable, Present
  <1>2. ASSUME NEW t \in Tables, NEW s \in Slots(t), t \notin retired, t <= latest,
               key[t][s] = k, val[t][s].v # NULL
        PROVE  k \in Visible
    <2>1. t \in Reachable
      BY <1>2, ReachableIs DEF Migrates, MoveSound, InternSound
    <2> QED
      BY <1>2, <2>1 DEF Visible
  <1>3. ASSUME NEW t \in Tables, NEW s \in Slots(t), key[t][s] = k, val[t][s].v # NULL
        PROVE  k \in Visible
    <2>1. CASE t \in retired
      <3>1. PICK u \in Tables \ retired :
               u <= latest /\ \E r \in Slots(u) : key[u][r] = key[t][s] /\ val[u][r].v # NULL
        BY <1>3, <2>1 DEF InternSound, Placed
      <3> QED
        BY <1>2, <1>3, <3>1
    <2>2. CASE t \notin retired
      <3>1. k # NULL /\ t \in Nat /\ latest \in Nat
        BY CallAssumption DEF Migrates, TypeOK, TablesTyped, Tables
      <3>2. t <= latest
        BY <1>3, <3>1 DEF InternSound, Fresh
      <3> QED
        BY <1>2, <1>3, <2>2, <3>2
    <2> QED
      BY <2>1, <2>2
  <1> QED
    BY <1>1, <1>3 DEF Present

-----------------------------------------------------------------------------
(* The tables.                                                             *)

LEMMA TidyStep ==
  ASSUME Migrates, Tidy, NoNesting', NEW th \in Threads, Step(th)
  PROVE  Tidy'
  <1>1. latest \in Nat /\ 1 <= latest /\ latest <= MaxTables /\ Linked /\ Framed(th)
    BY DEF Migrates, TypeOK, TablesTyped, Tables, MoveSound
  <1>2. CASE UNCHANGED chain
    BY <1>2 DEF chain, Tidy
  <1>3. CASE Grows(th)
    <2>1. /\ latest' = latest + 1 /\ retired' = retired /\ latest < MaxTables
          /\ prev' = [prev EXCEPT ![latest + 1] = latest]
      BY <1>3 DEF Grows
    <2>2. CASE retired = 1 .. (latest - 1)
      BY <1>1, <2>1, <2>2 DEF Tidy
    <2>3. CASE retired = 1 .. (latest - 2) /\ retired # 1 .. (latest - 1)
      <3>1. 1 < latest /\ latest - 1 \notin retired
        BY <1>1, <2>3
      <3>2. latest \in Tables /\ latest + 1 \in Tables /\ latest # latest + 1
        BY <1>1, <2>1, SizeAssumption DEF Tables
      <3>3. prev[latest] = latest - 1
        BY <1>1, <3>1, <3>2 DEF Linked
      <3>4. prev'[latest + 1] = latest /\ prev'[latest] = latest - 1
        BY <2>1, <3>2, <3>3 DEF Migrates, TypeOK, TablesTyped
      <3>5. latest # NULL /\ latest - 1 # NULL
        <4>1. latest - 1 \in Tables
          BY <1>1, <3>1, SizeAssumption DEF Tables
        <4> QED
          BY <3>2, <4>1, CallAssumption
      <3> QED
        BY <3>2, <3>4, <3>5 DEF NoNesting
    <2> QED
      BY <2>2, <2>3 DEF Tidy
  <1>4. CASE MvDetach(th)
    <2>1. PICK p \in Tables : p = top[th].prev
      BY <1>4 DEF MvDetach, At, Migrates, TypeOK, FrameInUse
    <2>2. /\ latest' = latest /\ retired' = retired \union {p} /\ p \notin retired
          /\ p = top[th].latest - 1 /\ top[th].latest <= latest
      BY <1>1, <1>4, <2>1, CallAssumption DEF MvDetach, At, Framed
    <2>3. p \in Nat /\ 1 <= p /\ p <= latest - 1
      <3>1. top[th].latest \in Nat /\ p \in Nat /\ 1 <= p
        BY <2>1, Fields DEF Migrates, TypeOK, Tables
      <3> QED
        BY <1>1, <2>2, <3>1
    <2>4. retired = 1 .. (latest - 2) /\ p = latest - 1
      BY <1>1, <2>2, <2>3 DEF Tidy
    <2>5. (1 .. (latest - 2)) \union {latest - 1} = 1 .. (latest - 1)
      BY <1>1, <2>3
    <2> QED
      BY <2>2, <2>4, <2>5 DEF Tidy
  <1> QED
    BY <1>2, <1>3, <1>4, <1>1, LinkSteps DEF Migrates

LEMMA FreshStep ==
  ASSUME Migrates, Fresh, NEW th \in Threads, Step(th)
  PROVE  Fresh'
  <1>1. /\ TypeOK /\ Linked /\ Framed(th) /\ latest \in Nat /\ latest' \in Nat
        /\ \A t \in Tables : t \in Nat
    <2>1. TypeOK /\ Linked /\ Framed(th)
      BY DEF Migrates, MoveSound
    <2>2. TypeOK'
      BY <2>1, EveryStepTyped DEF TypedStep
    <2> QED
      BY <2>1, <2>2 DEF TypeOK, TablesTyped, Tables
  <1>2. latest <= latest'
    BY <1>1, LinkedStep
  <1>3. ASSUME NEW t \in Tables, t >= latest' PROVE moved'[t] = 0
    <2>1. t >= latest
      BY <1>1, <1>2, <1>3
    <2>2. CASE moved' = moved
      BY <2>1, <2>2 DEF Fresh
    <2>3. CASE Takes(th)
      <3>1. PICK p \in Tables : p = top[th].prev
        BY <2>3 DEF Takes
      <3>2. p = top[th].latest - 1 /\ top[th].latest <= latest /\ top[th].latest \in Nat
        BY <1>1, <3>1, Fields, CallAssumption DEF Framed, TypeOK, Tables
      <3>3. p # t
        BY <1>1, <2>1, <3>2
      <3>4. moved'[t] = moved[t]
        BY <1>1, <2>3, <3>1, <3>3 DEF Takes, TypeOK, TablesTyped
      <3> QED
        BY <2>1, <3>4 DEF Fresh
    <2> QED
      BY <1>1, <2>2, <2>3, ChunkSteps DEF Holds, Gives, chunks
  <1>4. ASSUME NEW t \in Tables, t > latest', NEW s \in Slots(t) PROVE key'[t][s] = NULL
    <2>1. t > latest
      BY <1>1, <1>2, <1>4
    <2>2. CASE key' = key
      BY <2>1, <2>2 DEF Fresh
    <2>3. CASE Claims(th)
      <3>1. PICK l \in Tables : l = pm[th].latest /\ l <= latest
        BY <1>1, Fields DEF TypeOK, Framed
      <3>2. l # t
        BY <1>1, <2>1, <3>1
      <3>3. key'[t] = key[t]
        BY <1>1, <2>3, <3>1, <3>2 DEF Claims, TypeOK, TablesTyped
      <3> QED
        BY <2>1, <3>3 DEF Fresh
    <2> QED
      BY <1>1, <2>2, <2>3, KeyWrites
  <1> QED
    BY <1>3, <1>4 DEF Fresh

-----------------------------------------------------------------------------
(* The values.                                                             *)

\* At the slot of its key, a put has a value to write, and no tombstone.
LEMMA PuttingVal ==
  ASSUME NothingRemoved, TypeOK, NEW th \in Threads, Settled(th), Relocates(th), Honest(th),
         Putting(th)
  PROVE  pm[th].val \notin {NULL, TOMBSTONE}
  <1>1. CASE pm[th].mover
    BY <1>1 DEF Relocates
  <1>2. CASE ~pm[th].mover
    <2>1. call[th].op = "put" /\ pm[th].val = call[th].val /\ call[th].val \in Values
      BY <1>2 DEF Settled, Honest
    <2> QED
      BY <2>1, CallAssumption
  <1> QED
    BY <1>1, <1>2

\* A slot's value changes only where a thread has its key.
LEMMA ValueSteps ==
  ASSUME NothingRemoved, TypeOK, Valued, NEW th \in Threads, Settled(th), Relocates(th),
         Honest(th), Step(th), NEW t \in Tables, NEW s \in Slots(t)
  PROVE  \/ val'[t][s].v = val[t][s].v
         \/ /\ AtKey(th) /\ t = pm[th].latest /\ s = pm[th].i /\ key' = key
            /\ val'[t][s].v # TOMBSTONE /\ (val[t][s].v # NULL => val'[t][s].v # NULL)
            /\ pc[th] \in {"pm_adopt", "pm_write"}
  <1>1. DOMAIN val = Tables /\ \A u \in Tables : val[u] \in [Slots(u) -> Word]
    BY DEF TypeOK, TablesTyped
  <1>2. CASE val' = val
    BY <1>2
  <1>3. CASE MvPrime(th)
    <2>1. val' = [val EXCEPT ![top[th].prev][mv[th].i] = Frozen(val[top[th].prev][mv[th].i])]
      BY <1>3 DEF MvPrime
    <2>2. Frozen(val[t][s]).v = val[t][s].v
      BY DEF Frozen, Valued
    <2> QED
      BY <1>1, <2>1, <2>2
  <1>4. CASE PmAdopt(th)
    <2>1. pc[th] = "pm_adopt" /\ AtKey(th) /\ key' = key
      BY <1>4 DEF PmAdopt, At, AtKey, AtSlot, PutLabels
    <2>2. PICK l \in Tables : l = pm[th].latest
      BY Fields DEF TypeOK
    <2>3. PICK i \in Slots(l) : i = pm[th].i
      BY <2>1, <2>2 DEF AtKey, TypeOK, FrameInUse
    <2>4. PICK w : /\ val' = val \/ val' = [val EXCEPT ![l][i] = w]
                   /\ w = val[l][i] \/ (val[l][i] = Empty /\ w = Plain(scan[th].v.v))
      BY <1>4, <2>2, <2>3 DEF PmAdopt
    <2>5. Empty.v = NULL /\ Plain(scan[th].v.v).v # TOMBSTONE
      BY DEF Empty, Plain, Honest
    <2>6. CASE t = l /\ s = i
      BY <1>1, <2>1, <2>2, <2>3, <2>4, <2>5, <2>6
    <2>7. CASE ~(t = l /\ s = i)
      BY <1>1, <2>4, <2>7
    <2> QED
      BY <2>6, <2>7
  <1>5. CASE PmWrite(th)
    <2>1. pc[th] = "pm_write" /\ AtKey(th) /\ key' = key /\ Putting(th)
      BY <1>5 DEF PmWrite, At, AtKey, AtSlot, Putting, PutLabels
    <2>2. PICK l \in Tables : l = pm[th].latest
      BY Fields DEF TypeOK
    <2>3. PICK i \in Slots(l) : i = pm[th].i
      BY <2>1, <2>2 DEF AtKey, TypeOK, FrameInUse
    <2>4. val' = val \/ val' = [val EXCEPT ![l][i] = Plain(pm[th].val)]
      BY <1>5, <2>2, <2>3 DEF PmWrite
    <2>5. Plain(pm[th].val).v \notin {NULL, TOMBSTONE}
      BY <2>1, PuttingVal DEF Plain
    <2>6. CASE t = l /\ s = i
      BY <1>1, <2>1, <2>2, <2>3, <2>4, <2>5, <2>6
    <2>7. CASE ~(t = l /\ s = i)
      BY <1>1, <2>4, <2>7
    <2> QED
      BY <2>6, <2>7
  <1> QED
    BY <1>2, <1>3, <1>4, <1>5
    DEF Step, tables, slots, Begin, LoadLatest, LoadPrev, Reload, Exit, MvClaim, MvKey,
        MvDone, MvDetach, PmTop, PmLatest, PmPrev, LoadedPrev, PmVal, PmKey, PmCount, PmBarrier,
        ScanVal, RlKey, GetKey

\* A slot with a value keeps a value, and its key.
LEMMA ValueStays ==
  ASSUME NothingRemoved, TypeOK, Valued, NEW th \in Threads, Settled(th), Relocates(th),
         Honest(th), Step(th), NEW t \in Tables, NEW s \in Slots(t), val[t][s].v # NULL
  PROVE  val'[t][s].v # NULL /\ key'[t][s] = key[t][s] /\ key[t][s] # NULL
  <1>1. key[t][s] # NULL
    BY DEF Valued
  <1> QED
    BY <1>1, ValueSteps, KeySteps DEF KeyStays

LEMMA PresentStays ==
  ASSUME NothingRemoved, TypeOK, Valued, NEW th \in Threads, Settled(th), Relocates(th),
         Honest(th), Step(th), NEW k, Present(k)
  PROVE  Present(k)'
  <1>1. PICK t \in Tables : \E s \in Slots(t) : key[t][s] = k /\ val[t][s].v # NULL
    BY DEF Present
  <1>2. PICK s \in Slots(t) : key[t][s] = k /\ val[t][s].v # NULL
    BY <1>1
  <1>3. key'[t][s] = k /\ val'[t][s].v # NULL
    BY <1>2, ValueStays
  <1> QED
    BY <1>3 DEF Present

\* Only a client that puts a key makes it present.
LEMMA PresentGrows ==
  ASSUME NothingRemoved, TypeOK, Valued, NEW th \in Threads, Framed(th), Settled(th),
         Relocates(th), Honest(th), Step(th), NEW k, Present(k)', ~Present(k)
  PROVE  AtKey(th) /\ k = pm[th].key /\ ~pm[th].mover /\ pc[th] \in {"pm_adopt", "pm_write"}
  <1>1. PICK t \in Tables : \E s \in Slots(t) : key'[t][s] = k /\ val'[t][s].v # NULL
    BY DEF Present
  <1>2. PICK s \in Slots(t) : key'[t][s] = k /\ val'[t][s].v # NULL
    BY <1>1
  <1>3. val[t][s].v = NULL
    BY <1>2, ValueStays DEF Present
  <1>4. /\ AtKey(th) /\ t = pm[th].latest /\ s = pm[th].i /\ key' = key
        /\ pc[th] \in {"pm_adopt", "pm_write"}
    BY <1>2, <1>3, ValueSteps
  <1>5. k = pm[th].key
    BY <1>2, <1>4 DEF Relocates
  <1>6. ASSUME pm[th].mover PROVE FALSE
    <2>1. PICK p \in Tables : p = top[th].prev
      BY <1>6, ItemSlots DEF AtItem, Moving
    <2>2. PICK i \in Slots(p) : i = mv[th].i
      BY <1>6, <2>1, ItemSlots DEF AtItem, Moving
    <2>3. key[p][i] = k /\ val[p][i].v # NULL
      BY <1>5, <1>6, <2>1, <2>2 DEF Relocates, Honest
    <2> QED
      BY <2>3 DEF Present
  <1> QED
    BY <1>4, <1>5, <1>6

LEMMA ValuedStep ==
  ASSUME NothingRemoved, TypeOK, Valued, NEW th \in Threads, Settled(th), Relocates(th),
         Honest(th), Step(th)
  PROVE  Valued'
  <1> SUFFICES ASSUME NEW t \in Tables, NEW s \in Slots(t)
               PROVE  /\ val'[t][s].v # TOMBSTONE
                      /\ val'[t][s].v # NULL => key'[t][s] # NULL
    BY DEF Valued
  <1>1. CASE val'[t][s].v = val[t][s].v
    BY <1>1, KeySteps DEF Valued, KeyStays
  <1>2. CASE /\ AtKey(th) /\ t = pm[th].latest /\ s = pm[th].i /\ key' = key
             /\ val'[t][s].v # TOMBSTONE
    <2>1. Putting(th)
      BY <1>2 DEF AtKey, AtSlot, Putting
    <2>2. key[t][s] = pm[th].key /\ pm[th].key # NULL
      BY <1>2, <2>1, CallAssumption DEF Relocates, TypeOK, FrameInUse
    <2> QED
      BY <1>2, <2>2
  <1> QED
    BY <1>1, <1>2, ValueSteps

LEMMA PlacedStep ==
  ASSUME NothingRemoved, Migrates, InternSound, Tidy', NEW th \in Threads, Step(th)
  PROVE  Placed'
  <1>1. /\ TypeOK /\ Valued /\ Settled(th) /\ Relocates(th) /\ Honest(th) /\ Framed(th)
        /\ Linked /\ latest \in Nat /\ latest' \in Nat /\ \A t \in Tables : t \in Nat
    <2>1. TypeOK'
      BY EveryStepTyped DEF TypedStep, Migrates
    <2> QED
      BY <2>1
      DEF Migrates, InternSound, AllSettled, MoveSound, ItemsSound, TypeOK, TablesTyped, Tables
  <1>2. latest <= latest'
    BY <1>1, LinkedStep
  \* What a table has when it is retired is in the latest one.
  <1>3. ASSUME NEW p \in retired', p \notin retired, NEW s \in Slots(p), val[p][s].v # NULL
        PROVE  \E u \in Tables \ retired' : u <= latest' /\ \E r \in Slots(u) :
                  key'[u][r] = key[p][s] /\ val'[u][r].v # NULL
    <2>1. MvDetach(th)
      BY <1>1, <1>3, LinkSteps DEF chain, Grows
    <2>2. /\ p = top[th].prev /\ pc[th] = "mv_detach" /\ latest' = latest
          /\ retired' = retired \union {p} /\ key' = key /\ val' = val
      BY <1>3, <2>1 DEF MvDetach, At, slots
    <2>3. p \in Tables /\ move_done[p] = Cap[p]
      BY <1>1, <2>2 DEF TypeOK, FrameInUse, Framed
    <2>4. s \in Accounted(p)
      BY <1>1, <2>3, AllAccounted DEF Migrates
    <2>5. Done(p, s)
      BY <2>3, <2>4 DEF Migrates, ItemsSound, SlotsSound
    <2>6. PICK u \in Tables : u > p /\ \E r \in Slots(u) :
                                 key[u][r] = key[p][s] /\ val[u][r] # Empty
      BY <1>3, <2>5 DEF Done, Arrived
    <2>7. PICK r \in Slots(u) : key[u][r] = key[p][s] /\ val[u][r] # Empty
      BY <2>6
    <2>8. key[p][s] # NULL
      BY <1>3, <2>5 DEF Done
    <2>9. u <= latest
      <3>1. ~(u > latest)
        BY <2>7, <2>8 DEF InternSound, Fresh
      <3> QED
        BY <1>1, <3>1
    <2>10. p = latest - 1
      <3>1. p = top[th].latest - 1 /\ top[th].latest <= latest /\ top[th].latest \in Nat /\ 1 <= p
        BY <1>1, <2>2, <2>3, Fields, CallAssumption DEF Framed, TypeOK, Tables
      <3>2. p <= latest - 1
        BY <1>1, <3>1
      <3>3. p \notin 1 .. (latest - 2)
        BY <1>1, <1>3, <3>1, <3>2 DEF InternSound, Tidy
      <3> QED
        BY <1>1, <2>3, <3>1, <3>2, <3>3
    <2>11. u = latest
      BY <1>1, <2>6, <2>9, <2>10
    <2>12. ~val[u][r].prime
      <3>1. moved[u] = 0 /\ r \in Nat
        BY <1>1, <2>11 DEF InternSound, Fresh, Slots
      <3>2. r >= moved[u]
        BY <3>1
      <3> QED
        BY <3>2 DEF Migrates, ItemsSound, SlotsSound
    <2>13. val[u][r].v # NULL
      <3>1. val[u][r] \in Word
        BY <1>1 DEF TypeOK, TablesTyped
      <3> QED
        BY <2>7, <2>12, <3>1 DEF Word, Empty, Plain
    <2>14. u \notin retired'
      <3>1. retired' \subseteq 1 .. (latest' - 1)
        BY <1>1 DEF Tidy
      <3> QED
        BY <1>1, <2>2, <2>11, <3>1
    <2> QED
      BY <2>2, <2>7, <2>9, <2>13, <2>14
  <1>4. ASSUME NEW t \in retired', NEW s \in Slots(t), val'[t][s].v # NULL
        PROVE  \E u \in Tables \ retired' : u <= latest' /\ \E r \in Slots(u) :
                  key'[u][r] = key'[t][s] /\ val'[u][r].v # NULL
    <2>1. CASE t \notin retired
      <3>1. MvDetach(th)
        BY <1>1, <1>4, <2>1, LinkSteps DEF chain, Grows
      <3>2. key' = key /\ val' = val
        BY <3>1 DEF MvDetach, slots
      <3> QED
        BY <1>3, <1>4, <2>1, <3>2
    <2>2. CASE t \in retired
      <3>1. t \in Tables /\ val[t][s].prime
        BY <1>4, <2>2, RetiredDone DEF Migrates, Done
      <3>2. val[t][s].v # NULL
        BY <1>1, <1>4, <3>1, SlotStays
      <3>3. key'[t][s] = key[t][s]
        BY <1>1, <3>1, <3>2, ValueStays
      <3>4. PICK u \in Tables \ retired :
               u <= latest /\ \E r \in Slots(u) : key[u][r] = key[t][s] /\ val[u][r].v # NULL
        BY <2>2, <3>2 DEF InternSound, Placed
      <3>5. PICK r \in Slots(u) : key[u][r] = key[t][s] /\ val[u][r].v # NULL
        BY <3>4
      <3>6. key'[u][r] = key[t][s] /\ val'[u][r].v # NULL
        BY <1>1, <3>5, ValueStays
      <3>7. u <= latest'
        BY <1>1, <1>2, <3>4
      <3>8. CASE u \notin retired'
        BY <3>3, <3>6, <3>7, <3>8
      <3>9. CASE u \in retired'
        BY <1>3, <3>3, <3>4, <3>5, <3>9
      <3> QED
        BY <3>8, <3>9
    <2> QED
      BY <2>1, <2>2
  <1> QED
    BY <1>4 DEF Placed

-----------------------------------------------------------------------------
(* What a thread knows of its call, its key and the value it has seen.     *)

LEMMA CallSteps ==
  ASSUME NothingRemoved, TypeOK, NEW th \in Threads, call[th].op # "remove", Step(th)
  PROVE  call'[th].op # "remove"
  <1>1. CASE Begin(th)
    BY <1>1 DEF Begin, NothingRemoved, TypeOK, LocalsTyped
  <1>2. CASE Exit(th)
    BY <1>2 DEF Exit, NoCall, TypeOK, LocalsTyped
  <1>3. CASE call' = call
    BY <1>3
  <1> QED
    BY <1>1, <1>2, <1>3
    DEF Step, LoadLatest, LoadPrev, Reload, MvClaim, MvKey, MvPrime, MvDone, MvDetach, PmTop,
        PmLatest, PmPrev, PmVal, PmKey, PmCount, PmBarrier, PmAdopt, PmWrite, ScanVal, RlKey, GetKey

\* A lookup returns what was in a slot, or nothing.
LEMMA LookupSteps ==
  ASSUME TypeOK, Valued, NEW th \in Threads, scan[th].v.v # TOMBSTONE, Step(th)
  PROVE  scan'[th].v.v # TOMBSTONE
  <1>1. NULL # TOMBSTONE /\ scan[th] \in ScanType /\ Empty.v = NULL /\ NoScan.v = Empty
    BY CallAssumption DEF TypeOK, LocalsTyped, Empty, Plain, NoScan
  <1>2. ASSUME NEW w, Return(th, w) PROVE scan'[th].v.v # TOMBSTONE
    BY <1>1, <1>2 DEF Return, TypeOK, LocalsTyped
  <1>10. ASSUME NEW t, NEW k, NEW h, scan' = [scan EXCEPT ![th] = Probe(t, k, h)]
         PROVE  scan'[th].v.v # TOMBSTONE
    <2>1. scan'[th] = Probe(t, k, h)
      BY <1>10 DEF TypeOK, LocalsTyped
    <2>2. Probe(t, k, h).v = Empty
      BY DEF Probe
    <2> QED
      BY <1>1, <2>1, <2>2
  <1>3. ASSUME NEW l, NEW p, Serve(th, l, p) PROVE scan'[th].v.v # TOMBSTONE
    <2>1. scan' = scan \/ scan' = [scan EXCEPT ![th] = Probe(l, call[th].key, call[th].key)]
      BY <1>3 DEF Serve
    <2> QED
      BY <1>10, <2>1
  <1>4. CASE ScanVal(th)
    <2>1. Scanning(th)
      BY <1>4 DEF ScanVal, At, Scanning
    <2>2. PICK t \in Tables : t = scan[th].table
      BY <2>1, ScanningFacts
    <2>3. PICK s \in Slots(t) : s = scan[th].i
      BY <2>1, <2>2, ScanningFacts
    <2>4. scan'[th] = [scan[th] EXCEPT !.v = val[t][s]]
      BY <1>4, <2>2, <2>3 DEF ScanVal, TypeOK, LocalsTyped
    <2>5. scan'[th].v = val[t][s]
      BY <1>1, <2>4 DEF ScanType
    <2> QED
      BY <2>5 DEF Valued
  <1>5. CASE RlKey(th) \/ GetKey(th)
    <2>1. ASSUME NEW i, scan' = [scan EXCEPT ![th].i = i] PROVE scan'[th].v = scan[th].v
      <3>1. scan'[th] = [scan[th] EXCEPT !.i = i]
        BY <2>1 DEF TypeOK, LocalsTyped
      <3> QED
        BY <1>1, <3>1 DEF ScanType
    <2>2. ASSUME NEW w, scan' = [scan EXCEPT ![th].v = w] PROVE scan'[th].v = w
      <3>1. scan'[th] = [scan[th] EXCEPT !.v = w]
        BY <2>2 DEF TypeOK, LocalsTyped
      <3> QED
        BY <1>1, <3>1 DEF ScanType
    <2>3. ASSUME NEW w, RlReturn(th, w), w.v # TOMBSTONE PROVE scan'[th].v.v # TOMBSTONE
      BY <1>2, <2>2, <2>3 DEF RlReturn
    <2> QED
      BY <1>1, <1>2, <1>5, <1>10, <2>1, <2>3 DEF RlKey, GetKey, ScanNext
  <1>6. CASE PmBarrier(th) \/ PmAdopt(th)
    <2>1. \/ scan' = scan \/ scan' = [scan EXCEPT ![th] = NoScan]
          \/ scan' = [scan EXCEPT ![th] = Probe(pm[th].prev, Sought(pm[th].val), pm[th].key)]
      BY <1>6 DEF PmBarrier, PmAdopt
    <2>2. CASE scan' = [scan EXCEPT ![th] = NoScan]
      <3>1. scan'[th] = NoScan
        BY <2>2 DEF TypeOK, LocalsTyped
      <3> QED
        BY <1>1, <3>1
    <2> QED
      BY <1>10, <2>1, <2>2
  <1>7. CASE PmKey(th) \/ PmWrite(th)
    BY <1>2, <1>7 DEF PmKey, PmWrite, PmReturn
  <1>8. CASE LoadPrev(th) \/ Reload(th) \/ MvClaim(th) \/ MvDone(th)
    BY <1>2, <1>3, <1>8 DEF LoadPrev, Reload, MvClaim, MvDone
  <1>9. CASE scan' = scan
    BY <1>9
  <1> QED
    BY <1>4, <1>5, <1>6, <1>7, <1>8, <1>9
    DEF Step, Begin, LoadLatest, Exit, MvKey, MvPrime, MvDetach, PmTop, PmLatest, PmPrev, PmVal,
        PmCount

\* A step of the loop of put_if_match keeps the frame's key and caller.
LEMMA FrameKept ==
  ASSUME TypeOK, NEW th \in Threads,
         \/ \E l : pm' = [pm EXCEPT ![th].latest = l]
         \/ \E l, p : pm' = [pm EXCEPT ![th].latest = l, ![th].prev = p]
         \/ \E p : pm' = [pm EXCEPT ![th].prev = p]
         \/ \E i : pm' = [pm EXCEPT ![th].i = i]
         \/ \E v : pm' = [pm EXCEPT ![th].v = v]
  PROVE  pm'[th].mover = pm[th].mover /\ pm'[th].key = pm[th].key
  <1>1. pm \in [Threads -> FrameType] /\ pm[th] \in FrameType
    BY DEF TypeOK, LocalsTyped
  <1>2. ASSUME NEW l, pm' = [pm EXCEPT ![th].latest = l]
        PROVE  pm'[th].mover = pm[th].mover /\ pm'[th].key = pm[th].key
    BY <1>1, <1>2 DEF FrameType
  <1>3. ASSUME NEW l, NEW p, pm' = [pm EXCEPT ![th].latest = l, ![th].prev = p]
        PROVE  pm'[th].mover = pm[th].mover /\ pm'[th].key = pm[th].key
    BY <1>1, <1>3 DEF FrameType
  <1>4. ASSUME NEW p, pm' = [pm EXCEPT ![th].prev = p]
        PROVE  pm'[th].mover = pm[th].mover /\ pm'[th].key = pm[th].key
    BY <1>1, <1>4 DEF FrameType
  <1>5. ASSUME NEW i, pm' = [pm EXCEPT ![th].i = i]
        PROVE  pm'[th].mover = pm[th].mover /\ pm'[th].key = pm[th].key
    BY <1>1, <1>5 DEF FrameType
  <1>6. ASSUME NEW v, pm' = [pm EXCEPT ![th].v = v]
        PROVE  pm'[th].mover = pm[th].mover /\ pm'[th].key = pm[th].key
    BY <1>1, <1>6 DEF FrameType
  <1> QED
    BY <1>2, <1>3, <1>4, <1>5, <1>6

\* A client's put_if_match works on the key of the client's call.
LEMMA PutKeySteps ==
  ASSUME TypeOK, NEW th \in Threads, Step(th), Putting(th)', ~pm'[th].mover
  PROVE  /\ call' = call
         /\ \/ pm'[th].key = call[th].key
            \/ Putting(th) /\ ~pm[th].mover /\ pm'[th].key = pm[th].key
  <1>1. pc'[th] \in PutLabels \/ pm'[th].key # NULL
    BY DEF Putting, InPutIfMatch
  <1>2. /\ pm[th] \in FrameType
        /\ pc[th] \notin Inner \union Asserts => pm[th] = NoFrame
    BY NoFrameAt DEF TypeOK, LocalsTyped
  <1>3. ASSUME NEW w PROVE ~Return(th, w)
    BY <1>1 DEF Return, Goto, TypeOK, LocalsTyped, PutLabels, NoFrame
  <1>4. ASSUME MvAdvance(th), pm'[th] = NoFrame PROVE FALSE
    BY <1>1, <1>4 DEF MvAdvance, Goto, TypeOK, LocalsTyped, PutLabels, NoFrame
  <1>5. ASSUME NEW l, NEW p, Serve(th, l, p), pm[th] = NoFrame PROVE pm'[th].key = call[th].key
    BY <1>1, <1>5
    DEF Serve, CallPutIfMatch, Goto, TypeOK, LocalsTyped, PutLabels, NoFrame
  <1>6. CASE Begin(th) \/ LoadLatest(th) \/ Exit(th) \/ MvKey(th) \/ MvDetach(th)
    <2>1. /\ pc[th] \notin Inner \union Asserts /\ pm' = pm
          /\ pc'[th] \in {"load_latest", "load_prev", "idle", "mv_prime", "reload"}
      BY <1>6
      DEF Begin, LoadLatest, Exit, MvKey, MvDetach, At, Goto, TypeOK, LocalsTyped, Inner,
          PutLabels, Asserts
    <2> QED
      BY <1>1, <1>2, <2>1 DEF PutLabels, NoFrame
  <1>7. CASE LoadPrev(th) \/ Reload(th) \/ MvClaim(th) \/ MvDone(th)
    <2>1. pc[th] \in {"load_prev", "reload", "mv_claim", "mv_done"} /\ call' = call
      BY <1>7 DEF LoadPrev, Reload, MvClaim, MvDone, At
    <2>2. pm[th] = NoFrame
      BY <1>2, <2>1 DEF Inner, PutLabels, Asserts
    <2>3. ASSUME NEW label \in {"mv_claim", "mv_key", "mv_detach"}, Goto(th, label), pm' = pm
          PROVE  FALSE
      BY <1>1, <2>2, <2>3 DEF Goto, TypeOK, LocalsTyped, PutLabels, NoFrame
    <2> QED
      BY <1>3, <1>5, <1>7, <2>1, <2>2, <2>3 DEF LoadPrev, Reload, MvClaim, MvDone
  <1>8. CASE MvPrime(th)
    <2>1. pm[th] = NoFrame
      BY <1>2, <1>8 DEF MvPrime, At, Inner, PutLabels, Asserts
    <2>2. CASE Goto(th, "assert(key)") /\ pm' = pm
      BY <1>1, <2>1, <2>2 DEF Goto, TypeOK, LocalsTyped, PutLabels, NoFrame
    <2>3. ASSUME NEW l, NEW k, NEW v, CallPutIfMatch(th, l, NULL, k, v, TRUE) PROVE FALSE
      BY <2>3 DEF CallPutIfMatch, TypeOK, LocalsTyped
    <2>4. CASE MvAdvance(th) /\ pm' = pm
      BY <1>4, <2>1, <2>4
    <2> QED
      BY <1>8, <2>2, <2>3, <2>4 DEF MvPrime
  <1>9. CASE PmTop(th) \/ PmLatest(th) \/ PmPrev(th) \/ PmVal(th)
    <2>1. pc[th] \in PutLabels /\ call' = call
      BY <1>9 DEF PmTop, PmLatest, PmPrev, PmVal, At, PutLabels
    <2>2. \/ \E l : pm' = [pm EXCEPT ![th].latest = l]
          \/ \E l, p : pm' = [pm EXCEPT ![th].latest = l, ![th].prev = p]
          \/ \E p : pm' = [pm EXCEPT ![th].prev = p]
          \/ \E i : pm' = [pm EXCEPT ![th].i = i]
          \/ \E v : pm' = [pm EXCEPT ![th].v = v]
      BY <1>9 DEF PmTop, PmLatest, PmPrev, LoadedPrev, PmVal
    <2>3. pm'[th].mover = pm[th].mover /\ pm'[th].key = pm[th].key
      BY <1>2, <2>2, FrameKept
    <2> QED
      BY <2>1, <2>3 DEF Putting
  <1>10. CASE PmKey(th) \/ PmCount(th) \/ PmBarrier(th) \/ PmAdopt(th) \/ PmWrite(th)
    <2>1. pc[th] \in PutLabels /\ call' = call
      BY <1>10 DEF PmKey, PmCount, PmBarrier, PmAdopt, PmWrite, At, PutLabels
    <2>2. ASSUME NEW w PROVE ~PmReturn(th, w)
      BY <1>3, <1>4 DEF PmReturn, TypeOK, LocalsTyped
    <2>3. \/ pm' = pm
          \/ \E i : pm' = [pm EXCEPT ![th].i = i]
          \/ \E v : pm' = [pm EXCEPT ![th].v = v]
      BY <1>10, <2>2 DEF PmKey, PmCount, PmBarrier, PmAdopt, PmWrite
    <2>4. pm'[th].mover = pm[th].mover /\ pm'[th].key = pm[th].key
      BY <1>2, <2>3, FrameKept
    <2> QED
      BY <2>1, <2>4 DEF Putting
  <1>11. CASE ScanVal(th) \/ RlKey(th) \/ GetKey(th)
    <2>1. /\ call' = call /\ pm' = pm
          /\ pc'[th] \in {"rl_val", "rl_key", "get_val", "get_key", "pm_adopt"}
          /\ pc'[th] = "pm_adopt" => InPutIfMatch(th)
      BY <1>3, <1>11
      DEF ScanVal, RlKey, GetKey, RlReturn, ScanNext, Goto, TypeOK, LocalsTyped
    <2> QED
      BY <2>1 DEF Putting, InPutIfMatch, PutLabels
  <1> QED
    BY <1>6, <1>7, <1>8, <1>9, <1>10, <1>11 DEF Step

\* put_if_match, past the key of a slot, has the value it had seen there or
\* the one that is there now.
LEMMA SeenSteps ==
  ASSUME TypeOK, NEW th \in Threads, Step(th), AtSlot(th)', pc'[th] # "pm_val",
         NEW l \in Tables, l = pm[th].latest, NEW i, i = pm[th].i
  PROVE  /\ pm'[th].latest = l /\ pm'[th].i = i /\ AtSlot(th)
         /\ \/ pc[th] # "pm_val" /\ pm'[th].v = pm[th].v
            \/ pm'[th].v = val'[l][i]
  <1>1. /\ pm[th] \in FrameType
        /\ pc[th] \notin PutLabels \union {"rl_val", "rl_key"} \union Asserts => pm[th] = NoFrame
    BY DEF TypeOK, FrameInUse, LocalsTyped
  <1>2. /\ pc'[th] \in {"pm_key", "pm_count", "pm_barrier", "pm_adopt", "pm_write",
                        "rl_val", "rl_key"}
        /\ pc'[th] # "pm_key" => AtKey(th)'
    BY DEF AtKey, AtSlot, PutLabels
  <1>3. ASSUME pc'[th] # "pm_key" PROVE pm'[th].latest = l /\ pm'[th].i = i /\ AtSlot(th)
    BY <1>2, <1>3, AtKeySteps
  <1>4. CASE PmVal(th)
    <2>1. pc[th] = "pm_val" /\ pm'[th] = [pm[th] EXCEPT !.v = val[l][i]] /\ val' = val
      BY <1>4 DEF PmVal, At, TypeOK, LocalsTyped, tables, slots
    <2>2. pm'[th].latest = l /\ pm'[th].i = i /\ pm'[th].v = val[l][i]
      BY <1>1, <2>1 DEF FrameType
    <2> QED
      BY <2>1, <2>2 DEF AtSlot, PutLabels
  <1>5. CASE PmKey(th)
    <2>1. ~PmReturn(th, Empty)
      BY <1>2 DEF PmReturn, MvAdvance, Return, Goto, TypeOK, LocalsTyped
    <2>2. pc[th] = "pm_key" /\ pc'[th] # "pm_key" /\ pm' = pm
      BY <1>2, <1>5, <2>1 DEF PmKey, At, Goto, TypeOK, LocalsTyped
    <2> QED
      BY <1>3, <2>2
  <1>6. CASE PmCount(th) \/ PmBarrier(th)
    <2>1. pc[th] \in {"pm_count", "pm_barrier"} /\ pc'[th] # "pm_key" /\ pm' = pm
      BY <1>6
      DEF PmCount, PmBarrier, AfterBarrier, At, Goto, TypeOK, LocalsTyped
    <2> QED
      BY <1>3, <2>1
  <1>7. CASE PmAdopt(th)
    <2>1. pc[th] = "pm_adopt" /\ pc'[th] # "pm_key"
      BY <1>7 DEF PmAdopt, AfterBarrier, At, Goto, TypeOK, LocalsTyped
    <2>2. i \in Slots(l)
      BY <2>1 DEF AtSlot, PutLabels, TypeOK, FrameInUse
    <2>3. PICK w : \/ pm' = pm
                   \/ pm' = [pm EXCEPT ![th].v = w] /\ val' = [val EXCEPT ![l][i] = w]
      BY <1>7 DEF PmAdopt
    <2>4. CASE pm' = pm
      BY <1>3, <2>1, <2>4
    <2>5. CASE pm' = [pm EXCEPT ![th].v = w] /\ val' = [val EXCEPT ![l][i] = w]
      <3>1. pm'[th] = [pm[th] EXCEPT !.v = w] /\ val'[l][i] = w
        BY <2>2, <2>5 DEF TypeOK, LocalsTyped, TablesTyped
      <3>2. pm'[th].v = w
        BY <1>1, <3>1 DEF FrameType
      <3> QED
        BY <1>3, <2>1, <3>1, <3>2
    <2> QED
      BY <2>3, <2>4, <2>5
  <1>8. CASE ScanVal(th) \/ RlKey(th) \/ GetKey(th)
    <2>1. ASSUME NEW w PROVE ~Return(th, w)
      BY <1>2 DEF Return, Goto, TypeOK, LocalsTyped
    <2>2. pc[th] \in {"rl_val", "rl_key", "get_val", "get_key"} /\ pc'[th] # "pm_key" /\ pm' = pm
      BY <1>2, <1>8, <2>1
      DEF ScanVal, RlKey, GetKey, RlReturn, ScanNext, At, Goto, TypeOK, LocalsTyped
    <2> QED
      BY <1>3, <2>2
  <1>9. CASE PmTop(th) \/ PmLatest(th) \/ PmPrev(th)
    BY <1>2, <1>9 DEF PmTop, PmLatest, PmPrev, LoadedPrev, At, Goto, TypeOK, LocalsTyped
  <1>10. CASE PmWrite(th)
    BY <1>2, <1>10 DEF PmWrite, PmReturn, MvAdvance, Return, At, Goto, TypeOK, LocalsTyped
  <1>11. CASE Begin(th) \/ LoadLatest(th) \/ Exit(th) \/ MvKey(th) \/ MvDetach(th)
    BY <1>2, <1>11
    DEF Begin, LoadLatest, Exit, MvKey, MvDetach, At, Goto, TypeOK, LocalsTyped
  <1>12. CASE LoadPrev(th) \/ Reload(th) \/ MvClaim(th) \/ MvDone(th)
    BY <1>2, <1>12
    DEF LoadPrev, Reload, MvClaim, MvDone, Serve, CallPutIfMatch, Return, At, Goto, TypeOK,
        LocalsTyped
  <1>13. CASE MvPrime(th)
    BY <1>2, <1>13
    DEF MvPrime, MvAdvance, CallPutIfMatch, At, Goto, TypeOK, LocalsTyped
  <1> QED
    BY <1>4, <1>5, <1>6, <1>7, <1>8, <1>9, <1>10, <1>11, <1>12, <1>13 DEF Step

\* A put returns only from the place where put_if_match has its word.
LEMMA PutExits ==
  ASSUME NothingRemoved, TypeOK, NEW th \in Threads, Settled(th), Relocates(th), Honest(th),
         Step(th), pc'[th] = "exit", call'[th].op = "put"
  PROVE  PmWrite(th) /\ call' = call /\ ~pm[th].mover
  <1>1. CASE LoadPrev(th) \/ Reload(th) \/ MvClaim(th) \/ MvDone(th)
    <2>1. call' = call
      BY <1>1 DEF LoadPrev, Reload, MvClaim, MvDone
    <2>2. ASSUME NEW l, NEW p, Serve(th, l, p) PROVE pc'[th] # "exit"
      BY <2>2 DEF Serve, CallPutIfMatch, Goto, TypeOK, LocalsTyped
    <2> QED
      BY <1>1, <2>1, <2>2 DEF LoadPrev, Reload, MvClaim, MvDone, Goto, TypeOK, LocalsTyped
  <1>2. CASE PmKey(th)
    <2>1. pm[th].val # TOMBSTONE
      BY <1>2, PuttingVal DEF PmKey, At, Putting, PutLabels
    <2> QED
      BY <1>2, <2>1 DEF PmKey, Goto, TypeOK, LocalsTyped
  <1>3. CASE PmWrite(th)
    <2>1. call' = call
      BY <1>3 DEF PmWrite
    <2>2. ASSUME pm[th].mover, NEW w, PmReturn(th, w) PROVE FALSE
      BY <2>2 DEF PmReturn, MvAdvance, Goto, TypeOK, LocalsTyped
    <2> QED
      BY <1>3, <2>1, <2>2 DEF PmWrite, Goto, TypeOK, LocalsTyped
  <1>4. CASE RlKey(th) \/ GetKey(th)
    <2>1. call' = call /\ Scanning(th)
      BY <1>4 DEF RlKey, GetKey, At, Scanning
    <2>2. InPutIfMatch(th)
      BY <2>1 DEF Settled
    <2>3. pc[th] # "get_key"
      <3>1. pc[th] \in PutLabels \union {"rl_val", "rl_key"} \union Asserts \/ pm[th] = NoFrame
        BY DEF TypeOK, FrameInUse
      <3>2. NoFrame.key = NULL
        BY DEF NoFrame
      <3> QED
        BY <2>2, <3>1, <3>2 DEF Asserts, PutLabels, InPutIfMatch
    <2> QED
      BY <1>4, <2>2, <2>3 DEF RlKey, GetKey, RlReturn, ScanNext, At, Goto, TypeOK, LocalsTyped
  <1>5. CASE MvPrime(th)
    BY <1>5 DEF MvPrime, MvAdvance, CallPutIfMatch, Goto, TypeOK, LocalsTyped
  <1>6. CASE PmBarrier(th) \/ PmAdopt(th) \/ PmCount(th)
    BY <1>6 DEF PmBarrier, PmAdopt, PmCount, AfterBarrier, Goto, TypeOK, LocalsTyped
  <1>7. CASE PmTop(th) \/ PmLatest(th) \/ PmPrev(th) \/ PmVal(th)
    BY <1>7 DEF PmTop, PmLatest, PmPrev, PmVal, At, Goto, TypeOK, LocalsTyped
  <1>8. CASE Begin(th) \/ LoadLatest(th) \/ Exit(th) \/ MvKey(th) \/ MvDetach(th) \/ ScanVal(th)
    BY <1>8
    DEF Begin, LoadLatest, Exit, MvKey, MvDetach, ScanVal, Goto, TypeOK, LocalsTyped
  <1> QED
    BY <1>1, <1>2, <1>3, <1>4, <1>5, <1>6, <1>7, <1>8 DEF Step

\* Then the slot of its key has a value.
LEMMA PutFinds ==
  ASSUME NothingRemoved, TypeOK, Valued, NEW th \in Threads, Settled(th), Relocates(th),
         Honest(th), PmWrite(th), pc'[th] = "exit", NEW k, k = pm[th].key
  PROVE  Present(k)'
  <1>1. pc[th] = "pm_write" /\ AtKey(th) /\ AtSlot(th) /\ Putting(th) /\ key' = key
    BY DEF PmWrite, At, AtKey, AtSlot, Putting, PutLabels
  <1>2. PICK l \in Tables : l = pm[th].latest
    BY Fields DEF TypeOK
  <1>3. PICK i \in Slots(l) : i = pm[th].i
    BY <1>1, <1>2 DEF TypeOK, FrameInUse
  <1>4. key[l][i] = k
    BY <1>1, <1>2, <1>3 DEF Relocates
  <1>5. Plain(pm[th].val).v # NULL
    BY <1>1, PuttingVal DEF Plain
  <1>6. pm[th].v \in Word /\ val[l][i] \in Word /\ ~pm[th].v.prime
    BY <1>1, Fields DEF TypeOK, TablesTyped, Settled
  <1>7. pm[th].v.v # NULL => val[l][i].v # NULL
    BY <1>1, <1>2, <1>3 DEF Honest
  <1>8. CASE val' = [val EXCEPT ![l][i] = Plain(pm[th].val)]
    <2>1. val'[l][i] = Plain(pm[th].val)
      BY <1>8 DEF TypeOK, TablesTyped
    <2> QED
      BY <1>1, <1>4, <1>5, <2>1 DEF Present
  <1>9. CASE pm[th].v = Plain(pm[th].val) /\ val' = val
    BY <1>1, <1>4, <1>5, <1>7, <1>9 DEF Present
  <1>10. CASE val[l][i] # pm[th].v /\ ~val[l][i].prime /\ val' = val
    <2>1. val[l][i].v # NULL
      BY <1>6, <1>7, <1>10 DEF Word
    <2> QED
      BY <1>1, <1>4, <1>10, <2>1 DEF Present
  <1>11. ~Goto(th, "pm_top")
    BY DEF Goto, TypeOK, LocalsTyped
  <1> QED
    BY <1>2, <1>3, <1>8, <1>9, <1>10, <1>11 DEF PmWrite, CasWins, Displaced

\* What a step leaves its thread with.
LEMMA ThreadHonest ==
  ASSUME NothingRemoved, Migrates, InternSound, NEW th \in Threads, Step(th)
  PROVE  Honest(th)'
  <1>1. /\ TypeOK /\ Valued /\ Settled(th) /\ Relocates(th) /\ Honest(th) /\ Framed(th)
        /\ SlotsSound
    BY DEF Migrates, InternSound, AllSettled, MoveSound, ItemsSound
  <1>2. scan'[th].v.v # TOMBSTONE /\ call'[th].op # "remove"
    BY <1>1, LookupSteps, CallSteps DEF Honest
  <1>3. ASSUME Putting(th)', ~pm'[th].mover PROVE pm'[th].key = call'[th].key
    BY <1>1, <1>3, PutKeySteps DEF Honest
  <1>4. ASSUME pm'[th].mover PROVE val'[top'[th].prev][mv'[th].i].v # NULL
    <2>1. AtItem(th)' /\ pm'[th] # NoFrame
      BY <1>4 DEF AtItem, Moving, NoFrame
    <2>2. CASE Stays(th)
      <3>1. /\ pm[th].mover /\ AtItem(th) /\ Moving(th)
            /\ top'[th].prev = top[th].prev /\ mv'[th].i = mv[th].i
        BY <1>4, <2>2 DEF Stays, Moving
      <3>2. PICK p \in Tables : p = top[th].prev
        BY <1>1, <3>1, ItemSlots
      <3>3. PICK i \in Slots(p) : i = mv[th].i
        BY <1>1, <3>1, <3>2, ItemSlots
      <3>4. val[p][i].v # NULL
        BY <1>1, <3>1, <3>2, <3>3 DEF Honest
      <3> QED
        BY <1>1, <3>1, <3>2, <3>3, <3>4, ValueStays
    <2>3. CASE MvPrime(th)
      <3>1. PICK p \in Tables : p = top[th].prev
        BY <1>1, <2>3, PrimeItem
      <3>2. PICK i \in Slots(p) : i = mv[th].i
        BY <1>1, <2>3, <3>1, PrimeItem
      <3>3. val[p][i].v # NULL /\ mv' = mv /\ top' = top
        BY <1>1, <2>1, <2>3, <3>1, <3>2, PrimeItem DEF Leaves, AtItem, TypeOK, LocalsTyped
      <3> QED
        BY <1>1, <3>1, <3>2, <3>3, ValueStays
    <2> QED
      BY <1>1, <2>1, <2>2, <2>3, ItemSteps, TakesNoFrame DEF Leaves, Places
  <1>5. ASSUME AtSlot(th)', pc'[th] # "pm_val", pm'[th].v.v # NULL
        PROVE  val'[pm'[th].latest][pm'[th].i].v # NULL
    <2>1. PICK l \in Tables : l = pm[th].latest
      BY <1>1, Fields DEF TypeOK
    <2>2. PICK i : i = pm[th].i
      OBVIOUS
    <2>3. /\ pm'[th].latest = l /\ pm'[th].i = i /\ AtSlot(th)
          /\ \/ pc[th] # "pm_val" /\ pm'[th].v = pm[th].v
             \/ pm'[th].v = val'[l][i]
      BY <1>1, <1>5, <2>1, <2>2, SeenSteps
    <2>4. i \in Slots(l)
      BY <1>1, <2>1, <2>2, <2>3 DEF TypeOK, FrameInUse
    <2>5. CASE pc[th] # "pm_val" /\ pm'[th].v = pm[th].v
      <3>1. val[l][i].v # NULL
        BY <1>1, <1>5, <2>1, <2>2, <2>3, <2>5 DEF Honest
      <3> QED
        BY <1>1, <2>3, <2>4, <3>1, ValueStays
    <2> QED
      BY <1>5, <2>3, <2>5
  <1>6. ASSUME pc'[th] = "exit", call'[th].op = "put", NEW k, k = call'[th].key
        PROVE  Present(k)'
    <2>1. PmWrite(th) /\ call' = call /\ ~pm[th].mover
      BY <1>1, <1>6, PutExits
    <2>2. Putting(th)
      BY <2>1 DEF PmWrite, At, Putting, PutLabels
    <2>3. k = pm[th].key
      BY <1>1, <1>6, <2>1, <2>2 DEF Honest
    <2> QED
      BY <1>1, <1>6, <2>1, <2>3, PutFinds
  <1>7. pc'[th] = "exit" /\ call'[th].op = "put" => Present(call[th].key)'
    <2>1. PICK k : k = call'[th].key
      OBVIOUS
    <2> QED
      BY <1>6, <2>1
  <1> QED
    BY <1>2, <1>3, <1>4, <1>5, <1>7 DEF Honest

\* A step of one thread leaves what another knows true.
LEMMA OthersHonest ==
  ASSUME NothingRemoved, Migrates, InternSound, NEW th \in Threads, Step(th),
         NEW t2 \in Threads \ {th}
  PROVE  Honest(t2)'
  <1>1. /\ TypeOK /\ Valued /\ Settled(th) /\ Relocates(th) /\ Honest(th) /\ Framed(th)
        /\ Framed(t2) /\ Honest(t2)
    BY DEF Migrates, InternSound, AllSettled, MoveSound, ItemsSound
  <1>2. /\ pc'[t2] = pc[t2] /\ top'[t2] = top[t2] /\ mv'[t2] = mv[t2] /\ pm'[t2] = pm[t2]
        /\ scan'[t2] = scan[t2] /\ call'[t2] = call[t2]
    BY <1>1, EveryStepTyped DEF TypedStep, LocalStep, SameLocals
  <1>3. ASSUME pm[t2].mover PROVE val'[top[t2].prev][mv[t2].i].v # NULL
    <2>1. AtItem(t2) /\ Moving(t2)
      BY <1>3 DEF AtItem, Moving
    <2>2. PICK p \in Tables : p = top[t2].prev
      BY <1>1, <2>1, ItemSlots
    <2>3. PICK i \in Slots(p) : i = mv[t2].i
      BY <1>1, <2>1, <2>2, ItemSlots
    <2>4. val[p][i].v # NULL
      BY <1>1, <1>3, <2>2, <2>3 DEF Honest
    <2> QED
      BY <1>1, <2>2, <2>3, <2>4, ValueStays
  <1>4. ASSUME AtSlot(t2), pc[t2] # "pm_val", pm[t2].v.v # NULL
        PROVE  val'[pm[t2].latest][pm[t2].i].v # NULL
    <2>1. PICK l \in Tables : l = pm[t2].latest
      BY <1>1, Fields DEF TypeOK
    <2>2. PICK i \in Slots(l) : i = pm[t2].i
      BY <1>1, <1>4, <2>1 DEF TypeOK, FrameInUse
    <2>3. val[l][i].v # NULL
      BY <1>1, <1>4, <2>1, <2>2 DEF Honest
    <2> QED
      BY <1>1, <2>1, <2>2, <2>3, ValueStays
  <1>5. ASSUME pc[t2] = "exit", call[t2].op = "put", NEW k, k = call[t2].key
        PROVE  Present(k)'
    BY <1>1, <1>5, PresentStays DEF Honest
  <1>6. pc'[t2] = "exit" /\ call'[t2].op = "put" => Present(call[t2].key)'
    <2>1. PICK k : k = call[t2].key
      OBVIOUS
    <2>2. k = call'[t2].key
      BY <1>2, <2>1
    <2>3. pc'[t2] = "exit" /\ call'[t2].op = "put" => Present(k)'
      BY <1>2, <1>5, <2>1
    <2> QED
      BY <2>2, <2>3
  <1> QED
    BY <1>1, <1>2, <1>3, <1>4, <1>6 DEF Honest, Putting, AtSlot, InPutIfMatch

LEMMA InitIntern == Init => InternSound
  <1> SUFFICES ASSUME Init PROVE InternSound
    OBVIOUS
  <1>1. Tidy /\ retired = {}
    BY DEF Init, Tidy
  <1>2. Fresh /\ Valued
    BY CallAssumption DEF Init, Fresh, Valued, Empty, Plain
  <1>3. Placed
    BY <1>1 DEF Placed
  <1>4. ASSUME NEW th \in Threads PROVE Honest(th)
    BY CallAssumption
    DEF Init, Honest, NoScan, NoCall, NoFrame, Empty, Plain, Putting, AtSlot, InPutIfMatch,
        PutLabels
  <1> QED
    BY <1>1, <1>2, <1>3, <1>4 DEF InternSound

LEMMA NextIntern ==
  ASSUME NothingRemoved, Migrates, InternSound, NoNesting', [Next]_vars
  PROVE  InternSound'
  <1>1. CASE UNCHANGED vars
    BY <1>1
    DEF vars, tables, chain, slots, chunks, InternSound, Tidy, Fresh, Valued, Placed, Honest,
        Present, Putting, AtSlot, InPutIfMatch
  <1>2. ASSUME NEW th \in Threads, Step(th) PROVE InternSound'
    <2>1. Tidy' /\ Fresh'
      BY <1>2, TidyStep, FreshStep DEF InternSound
    <2>2. Valued'
      BY <1>2, ValuedStep DEF Migrates, InternSound, AllSettled, ItemsSound
    <2>3. Placed'
      BY <1>2, <2>1, PlacedStep
    <2>4. \A t2 \in Threads : Honest(t2)'
      BY <1>2, ThreadHonest, OthersHonest
    <2> QED
      BY <2>1, <2>2, <2>3, <2>4 DEF InternSound
  <1> QED
    BY <1>1, <1>2 DEF Next

-----------------------------------------------------------------------------
(***************************************************************************)
(* Pointers: a value that is in a slot, in a frame or on its way to the    *)
(* client points to the key it goes with.                                  *)
(***************************************************************************)
\* The value a client puts under a key is a pointer to that key.
PutsOwnPointers ==
    \A th \in Threads : \A c \in Calls[th] : c.op = "put" => Denotes[c.val] = c.key

\* x is no value, or a pointer to key k.
Names(x, k) == x # NULL => k # NULL /\ x \in Values /\ Denotes[x] = k

SlotsNamed == \A t \in Tables : \A s \in Slots(t) : Names(val[t][s].v, key[t][s])

Points(th) ==
    /\ call[th].op = "put" => Names(call[th].val, call[th].key)
    /\ Putting(th) \/ pm[th].mover => Names(pm[th].val, pm[th].key)
    /\ InLookup(th) => scan[th].key = pm[th].key
    /\ InLookup(th) /\ pc[th] = "rl_key" =>
          Names(scan[th].v.v, key[scan[th].table][scan[th].i])
    /\ pc[th] = "pm_adopt" => Names(scan[th].v.v, pm[th].key)
    /\ pc[th] = "exit" /\ call[th].op = "put" => Names(ret[th].v, call[th].key)

Pointing == SlotsNamed /\ \A th \in Threads : Points(th)

LEMMA SlotsNamedStep ==
  ASSUME NothingRemoved, TypeOK, Valued, SlotsNamed, NEW th \in Threads, Settled(th),
         Relocates(th), Honest(th), Points(th), Step(th)
  PROVE  SlotsNamed'
  <1> SUFFICES ASSUME NEW t \in Tables, NEW s \in Slots(t)
               PROVE  Names(val'[t][s].v, key'[t][s])
    BY DEF SlotsNamed
  <1>1. CASE val'[t][s].v = val[t][s].v
    BY <1>1, KeySteps DEF SlotsNamed, Names, KeyStays
  <1>2. CASE /\ AtKey(th) /\ t = pm[th].latest /\ s = pm[th].i /\ key' = key
             /\ pc[th] \in {"pm_adopt", "pm_write"} /\ val'[t][s].v # val[t][s].v
    <2>1. key[t][s] = pm[th].key /\ Putting(th)
      BY <1>2 DEF Relocates, AtKey, AtSlot, Putting
    <2>2. PmAdopt(th) \/ PmWrite(th)
      BY <1>2
      DEF Step, At, Begin, LoadLatest, LoadPrev, Reload, Exit, MvClaim, MvKey, MvPrime, MvDone,
          MvDetach, PmTop, PmLatest, PmPrev, PmVal, PmKey, PmCount, PmBarrier, ScanVal, RlKey,
          GetKey
    <2>3. CASE PmAdopt(th)
      <3>1. val'[t][s] = Plain(scan[th].v.v) /\ pc[th] = "pm_adopt"
        BY <1>2, <2>3 DEF PmAdopt, At, TypeOK, TablesTyped
      <3> QED
        BY <1>2, <2>1, <3>1 DEF Points, Plain
    <2>4. CASE PmWrite(th)
      <3>1. val'[t][s] = Plain(pm[th].val)
        BY <1>2, <2>4 DEF PmWrite, TypeOK, TablesTyped
      <3> QED
        BY <1>2, <2>1, <3>1 DEF Points, Plain
    <2> QED
      BY <2>2, <2>3, <2>4
  <1> QED
    BY <1>1, <1>2, ValueSteps

\* A client's call, from its start on, is to put a pointer to its key.
LEMMA CallNames ==
  ASSUME PutsOwnPointers, TypeOK, NEW th \in Threads, Points(th), Step(th)
  PROVE  call'[th].op = "put" => Names(call'[th].val, call'[th].key)
  <1>1. CASE Begin(th)
    <2>1. PICK c \in Calls[th] : call'[th] = c
      BY <1>1 DEF Begin, TypeOK, LocalsTyped
    <2>2. c.key # NULL /\ (c.op = "put" => c.val \in Values)
      BY CallAssumption
    <2> QED
      BY <2>1, <2>2 DEF PutsOwnPointers, Names
  <1>2. CASE Exit(th)
    BY <1>2 DEF Exit, NoCall, TypeOK, LocalsTyped
  <1>3. CASE call' = call
    BY <1>3 DEF Points
  <1> QED
    BY <1>1, <1>2, <1>3
    DEF Step, LoadLatest, LoadPrev, Reload, MvClaim, MvKey, MvPrime, MvDone, MvDetach, PmTop,
        PmLatest, PmPrev, PmVal, PmKey, PmCount, PmBarrier, PmAdopt, PmWrite, ScanVal, RlKey, GetKey

\* So is the value of a frame of put_if_match, the mover's too.
LEMMA FrameNames ==
  ASSUME NothingRemoved, PutsOwnPointers, Migrates, InternSound, Pointing,
         NEW th \in Threads, Step(th), Putting(th)' \/ pm'[th].mover
  PROVE  Names(pm'[th].val, pm'[th].key)
  <1>1. /\ TypeOK /\ Settled(th) /\ Relocates(th) /\ Framed(th) /\ SlotsSound
        /\ Points(th) /\ SlotsNamed
    BY DEF Migrates, AllSettled, MoveSound, ItemsSound, Pointing
  <1>2. CASE ~pm'[th].mover
    <2>1. Settled(th)' /\ Honest(th)'
      BY <1>1, ThreadSettled, ThreadHonest
    <2>2. /\ call'[th].op = "put" /\ pm'[th].val = call'[th].val
          /\ pm'[th].key = call'[th].key
      BY <1>2, <2>1 DEF Settled, Honest
    <2> QED
      BY <1>1, <2>2, CallNames
  <1>3. CASE pm'[th].mover
    <2>1. AtItem(th)' /\ pm'[th] # NoFrame
      BY <1>3 DEF AtItem, Moving, NoFrame
    <2>2. CASE Stays(th)
      BY <1>1, <1>3, <2>2 DEF Stays, Points
    <2>3. CASE MvPrime(th)
      <3>1. PICK p \in Tables : p = top[th].prev
        BY <1>1, <2>3, PrimeItem
      <3>2. PICK i \in Slots(p) : i = mv[th].i
        BY <1>1, <2>3, <3>1, PrimeItem
      <3>3. /\ pc[th] = "mv_prime" /\ mv[th].k # NULL
            /\ pm'[th].key = mv[th].k /\ pm'[th].val = val[p][i].v
        BY <1>1, <1>3, <2>1, <2>3, <3>1, <3>2, PrimeItem
        DEF Leaves, AtItem, TypeOK, LocalsTyped, NoFrame
      <3>4. key[p][i] = mv[th].k
        BY <1>1, <3>1, <3>2, <3>3 DEF Relocates
      <3> QED
        BY <1>1, <3>3, <3>4 DEF SlotsNamed
    <2> QED
      BY <1>1, <2>1, <2>2, <2>3, ItemSteps, TakesNoFrame DEF Leaves, Places
  <1> QED
    BY <1>2, <1>3

\* The barrier looks for the key that its value points to: its own.
LEMMA LookupNames ==
  ASSUME NothingRemoved, TypeOK, SlotsNamed, NEW th \in Threads, Settled(th), Relocates(th),
         Honest(th), Points(th), Step(th)
  PROVE  /\ InLookup(th)' => scan'[th].key = pm'[th].key
         /\ InLookup(th)' /\ pc'[th] = "rl_key" =>
               Names(scan'[th].v.v, key'[scan'[th].table][scan'[th].i])
         /\ pc'[th] = "pm_adopt" => Names(scan'[th].v.v, pm'[th].key)
  <1>1. /\ scan[th] \in ScanType /\ pm[th] \in FrameType
        /\ pc[th] \in PutLabels \union {"rl_val", "rl_key"} \union Asserts \/ pm[th] = NoFrame
    BY DEF TypeOK, LocalsTyped, FrameInUse
  <1>2. ASSUME NEW i, scan' = [scan EXCEPT ![th].i = i]
        PROVE  scan'[th].key = scan[th].key
    <2>1. scan'[th] = [scan[th] EXCEPT !.i = i]
      BY <1>2 DEF TypeOK, LocalsTyped
    <2> QED
      BY <1>1, <2>1 DEF ScanType
  <1>3. ASSUME NEW w, scan' = [scan EXCEPT ![th].v = w]
        PROVE  /\ scan'[th].key = scan[th].key /\ scan'[th].v = w
               /\ scan'[th].table = scan[th].table /\ scan'[th].i = scan[th].i
    <2>1. scan'[th] = [scan[th] EXCEPT !.v = w]
      BY <1>3 DEF TypeOK, LocalsTyped
    <2> QED
      BY <1>1, <2>1 DEF ScanType
  <1>4. CASE PmBarrier(th)
    <2>1. pc[th] = "pm_barrier" /\ Putting(th) /\ pm' = pm
      BY <1>4 DEF PmBarrier, At, Putting, PutLabels
    <2>2. pm[th].val \notin {NULL, TOMBSTONE}
      BY <2>1, PuttingVal
    <2>3. Sought(pm[th].val) = pm[th].key
      BY <2>1, <2>2 DEF Points, Names, Sought
    <2>4. pc'[th] = "rl_val" =>
              scan'[th] = Probe(pm[th].prev, Sought(pm[th].val), pm[th].key)
      BY <1>4 DEF PmBarrier, AfterBarrier, Goto, TypeOK, LocalsTyped
    <2>5. pc'[th] \notin {"rl_key", "pm_adopt"}
      BY <1>4 DEF PmBarrier, AfterBarrier, Goto, TypeOK, LocalsTyped
    <2> QED
      BY <2>1, <2>3, <2>4, <2>5 DEF InLookup, Probe
  <1>5. CASE ScanVal(th)
    <2>1. Scanning(th) /\ pm' = pm /\ key' = key
      BY <1>5 DEF ScanVal, At, Scanning, tables, slots
    <2>2. PICK t \in Tables : t = scan[th].table
      BY <2>1, ScanningFacts
    <2>3. PICK s \in Slots(t) : s = scan[th].i
      BY <2>1, <2>2, ScanningFacts
    <2>4. /\ scan'[th].key = scan[th].key /\ scan'[th].v = val[t][s]
          /\ scan'[th].table = t /\ scan'[th].i = s
      BY <1>3, <1>5, <2>2, <2>3 DEF ScanVal
    <2>5. /\ pc'[th] \in {"rl_key", "get_key"}
          /\ pc'[th] = "rl_key" => pc[th] = "rl_val"
      BY <1>5 DEF ScanVal, At, Goto, TypeOK, LocalsTyped
    <2> QED
      BY <2>1, <2>4, <2>5 DEF InLookup, InPutIfMatch, Points, SlotsNamed
  <1>6. CASE RlKey(th)
    <2>1. pc[th] = "rl_key" /\ Scanning(th) /\ key' = key
      BY <1>6 DEF RlKey, At, Scanning, tables, slots
    <2>2. ASSUME NEW w, Return(th, w) PROVE pc'[th] = "exit"
      BY <2>2 DEF Return, Goto, TypeOK, LocalsTyped
    <2>3. CASE \E i : scan' = [scan EXCEPT ![th].i = i] /\ pm' = pm /\ Goto(th, "rl_val")
      <3>1. scan'[th].key = scan[th].key /\ pc'[th] = "rl_val"
        BY <1>2, <2>3 DEF Goto, TypeOK, LocalsTyped
      <3> QED
        BY <2>1, <2>3, <3>1 DEF InLookup, InPutIfMatch, Points
    <2>4. ASSUME NEW w, RlReturn(th, w), InPutIfMatch(th) => Names(w.v, pm[th].key)
          PROVE  pc'[th] = "exit" \/ (pc'[th] = "pm_adopt" /\ Names(scan'[th].v.v, pm'[th].key))
      <3>1. CASE InPutIfMatch(th)
        <4>1. pc'[th] = "pm_adopt" /\ pm' = pm /\ scan' = [scan EXCEPT ![th].v = w]
          BY <2>4, <3>1 DEF RlReturn, Goto, TypeOK, LocalsTyped
        <4>2. scan'[th].v = w
          BY <1>3, <4>1
        <4> QED
          BY <2>4, <3>1, <4>1, <4>2
      <3> QED
        BY <2>2, <2>4, <3>1 DEF RlReturn
    <2>5. Names(Empty.v, pm[th].key)
      BY DEF Empty, Plain, Names
    <2>6. ASSUME key[scan[th].table][scan[th].i] = scan[th].key, InPutIfMatch(th)
          PROVE  Names(scan[th].v.v, pm[th].key)
      BY <2>1, <2>6 DEF InLookup, Points
    <2> QED
      BY <1>6, <2>3, <2>4, <2>5, <2>6 DEF RlKey, ScanNext, InLookup
  <1>7. CASE GetKey(th)
    <2>1. pc[th] = "get_key" /\ pm[th] = NoFrame
      BY <1>1, <1>7 DEF GetKey, At, PutLabels, Asserts
    <2>2. \/ pc'[th] \in {"exit", "get_val"}
          \/ pm' = pm /\ pc'[th] = "rl_val"
      BY <1>7 DEF GetKey, ScanNext, Return, Goto, TypeOK, LocalsTyped
    <2> QED
      BY <2>1, <2>2 DEF InLookup, InPutIfMatch, NoFrame
  <1>8. CASE PmTop(th) \/ PmLatest(th) \/ PmPrev(th) \/ PmVal(th) \/ PmCount(th) \/ PmAdopt(th)
    <2>1. pc'[th] \in {"pm_top", "pm_prev", "pm_val", "pm_key", "pm_barrier", "pm_write"}
      BY <1>8
      DEF PmTop, PmLatest, PmPrev, PmVal, PmCount, PmAdopt, AfterBarrier, At, Goto, TypeOK,
          LocalsTyped
    <2> QED
      BY <2>1 DEF InLookup
  <1>9. CASE PmKey(th) \/ PmWrite(th)
    <2>1. pc'[th] \notin {"rl_val", "rl_key", "pm_adopt"}
      BY <1>9 DEF PmKey, PmWrite, PmReturn, MvAdvance, Return, Goto, TypeOK, LocalsTyped
    <2> QED
      BY <2>1 DEF InLookup
  <1>10. CASE Begin(th) \/ LoadLatest(th) \/ Exit(th) \/ MvKey(th) \/ MvDetach(th)
    <2>1. pc'[th] \notin {"rl_val", "rl_key", "pm_adopt"}
      BY <1>10 DEF Begin, LoadLatest, Exit, MvKey, MvDetach, Goto, TypeOK, LocalsTyped
    <2> QED
      BY <2>1 DEF InLookup
  <1>11. CASE LoadPrev(th) \/ Reload(th) \/ MvClaim(th) \/ MvDone(th) \/ MvPrime(th)
    <2>1. pc'[th] \notin {"rl_val", "rl_key", "pm_adopt"}
      BY <1>11
      DEF LoadPrev, Reload, MvClaim, MvDone, MvPrime, MvAdvance, Serve, CallPutIfMatch, Return,
          Goto, TypeOK, LocalsTyped
    <2> QED
      BY <2>1 DEF InLookup
  <1> QED
    BY <1>4, <1>5, <1>6, <1>7, <1>8, <1>9, <1>10, <1>11 DEF Step

\* What put returns is its own pointer, or the one it finds in its slot.
LEMMA AnswerNames ==
  ASSUME NothingRemoved, TypeOK, SlotsNamed, NEW th \in Threads, Settled(th), Relocates(th),
         Honest(th), Points(th), Step(th), pc'[th] = "exit", call'[th].op = "put"
  PROVE  call' = call /\ Names(ret'[th].v, call[th].key)
  <1>1. PmWrite(th) /\ call' = call /\ ~pm[th].mover
    BY PutExits
  <1>2. pc[th] = "pm_write" /\ Putting(th) /\ AtKey(th) /\ AtSlot(th)
    BY <1>1 DEF PmWrite, At, Putting, AtKey, AtSlot, PutLabels
  <1>3. pm[th].key = call[th].key
    BY <1>1, <1>2 DEF Honest
  <1>4. PICK l \in Tables : l = pm[th].latest
    BY Fields DEF TypeOK
  <1>5. PICK i \in Slots(l) : i = pm[th].i
    BY <1>2, <1>4 DEF TypeOK, FrameInUse
  <1>6. Names(val[l][i].v, call[th].key)
    BY <1>2, <1>3, <1>4, <1>5 DEF Relocates, SlotsNamed
  <1>7. Names(Plain(pm[th].val).v, call[th].key)
    BY <1>2, <1>3 DEF Points, Plain
  <1>8. ASSUME NEW w, PmReturn(th, w) PROVE ret'[th] = w
    BY <1>1, <1>8 DEF PmReturn, Return, TypeOK, LocalsTyped
  <1>9. ~Goto(th, "pm_top")
    BY DEF Goto, TypeOK, LocalsTyped
  <1> QED
    BY <1>1, <1>4, <1>5, <1>6, <1>7, <1>8, <1>9 DEF PmWrite

LEMMA OthersPoint ==
  ASSUME TypeOK, NEW th \in Threads, Step(th), NEW t2 \in Threads \ {th}, Points(t2)
  PROVE  Points(t2)'
  <1>1. /\ pc'[t2] = pc[t2] /\ pm'[t2] = pm[t2] /\ scan'[t2] = scan[t2]
        /\ call'[t2] = call[t2] /\ ret'[t2] = ret[t2]
    BY EveryStepTyped DEF TypedStep, LocalStep, SameLocals
  <1>2. ASSUME InLookup(t2), pc[t2] = "rl_key"
        PROVE  Names(scan[t2].v.v, key'[scan[t2].table][scan[t2].i])
    <2>1. PICK t \in Tables : t = scan[t2].table
      BY <1>2, ScanningFacts DEF Scanning
    <2>2. PICK s \in Slots(t) : s = scan[t2].i
      BY <1>2, <2>1, ScanningFacts DEF Scanning
    <2>3. Names(scan[t2].v.v, key[t][s])
      BY <1>2, <2>1, <2>2 DEF Points
    <2>4. key[t][s] # NULL => key'[t][s] = key[t][s]
      BY KeySteps DEF KeyStays
    <2> QED
      BY <2>1, <2>2, <2>3, <2>4 DEF Names
  <1> QED
    BY <1>1, <1>2 DEF Points, Putting, InLookup, InPutIfMatch

LEMMA InitPoints == Init => Pointing
  BY DEF Init, Pointing, SlotsNamed, Points, Names, Empty, Plain, NoCall, NoFrame, Putting,
         InLookup, InPutIfMatch, PutLabels

LEMMA NextPoints ==
  ASSUME NothingRemoved, PutsOwnPointers, Migrates, InternSound, Pointing, [Next]_vars
  PROVE  Pointing'
  <1>1. CASE UNCHANGED vars
    BY <1>1
    DEF vars, tables, slots, Pointing, SlotsNamed, Points, Putting, InLookup, InPutIfMatch
  <1>2. ASSUME NEW th \in Threads, Step(th) PROVE Pointing'
    <2>1. /\ TypeOK /\ Valued /\ SlotsNamed /\ Settled(th) /\ Relocates(th) /\ Honest(th)
          /\ Points(th)
      BY DEF Migrates, InternSound, AllSettled, ItemsSound, Pointing
    <2>2. SlotsNamed'
      BY <1>2, <2>1, SlotsNamedStep
    <2>3. call'[th].op = "put" => Names(call'[th].val, call'[th].key)
      BY <1>2, <2>1, CallNames
    <2>4. Putting(th)' \/ pm'[th].mover => Names(pm'[th].val, pm'[th].key)
      BY <1>2, FrameNames
    <2>5. /\ InLookup(th)' => scan'[th].key = pm'[th].key
          /\ InLookup(th)' /\ pc'[th] = "rl_key" =>
                Names(scan'[th].v.v, key'[scan'[th].table][scan'[th].i])
          /\ pc'[th] = "pm_adopt" => Names(scan'[th].v.v, pm'[th].key)
      BY <1>2, <2>1, LookupNames
    <2>6. pc'[th] = "exit" /\ call'[th].op = "put" => Names(ret'[th].v, call'[th].key)
      BY <1>2, <2>1, AnswerNames
    <2>7. Points(th)'
      BY <2>3, <2>4, <2>5, <2>6 DEF Points
    <2>8. \A t2 \in Threads \ {th} : Points(t2)'
      BY <1>2, <2>1, OthersPoint DEF Pointing
    <2> QED
      BY <2>2, <2>7, <2>8 DEF Pointing
  <1> QED
    BY <1>1, <1>2 DEF Next

\* Only Begin and Exit start and end a call.
LEMMA NeverIdle ==
  ASSUME TypeOK, NEW th \in Threads, Step(th), ~Begin(th), ~Exit(th)
  PROVE  call' = call /\ pc[th] \notin {"idle", "exit"} /\ pc'[th] # "idle"
  <1>1. ASSUME NEW l, NEW p, Serve(th, l, p) PROVE pc'[th] # "idle"
    BY <1>1 DEF Serve, CallPutIfMatch, Goto, TypeOK, LocalsTyped
  <1>2. ASSUME NEW w, Return(th, w) PROVE pc'[th] # "idle"
    BY <1>2 DEF Return, Goto, TypeOK, LocalsTyped
  <1>3. MvAdvance(th) => pc'[th] # "idle"
    BY DEF MvAdvance, Goto, TypeOK, LocalsTyped
  <1>4. ASSUME NEW w, PmReturn(th, w) PROVE pc'[th] # "idle"
    BY <1>2, <1>3, <1>4 DEF PmReturn
  <1>5. CASE LoadPrev(th) \/ Reload(th) \/ MvClaim(th) \/ MvDone(th)
    BY <1>1, <1>2, <1>5
    DEF LoadPrev, Reload, MvClaim, MvDone, At, Goto, TypeOK, LocalsTyped
  <1>6. CASE LoadLatest(th) \/ MvKey(th) \/ MvPrime(th) \/ MvDetach(th)
    BY <1>3, <1>6
    DEF LoadLatest, MvKey, MvPrime, MvDetach, CallPutIfMatch, At, Goto, TypeOK, LocalsTyped
  <1>7. CASE PmTop(th) \/ PmLatest(th) \/ PmPrev(th) \/ PmVal(th) \/ PmCount(th)
    BY <1>7
    DEF PmTop, PmLatest, PmPrev, LoadedPrev, PmVal, PmCount, At, Goto, TypeOK, LocalsTyped
  <1>8. CASE PmKey(th) \/ PmBarrier(th) \/ PmAdopt(th) \/ PmWrite(th)
    BY <1>4, <1>8
    DEF PmKey, PmBarrier, PmAdopt, PmWrite, AfterBarrier, At, Goto, TypeOK, LocalsTyped
  <1>9. CASE ScanVal(th) \/ RlKey(th) \/ GetKey(th)
    BY <1>2, <1>9
    DEF ScanVal, RlKey, GetKey, RlReturn, ScanNext, At, Goto, TypeOK, LocalsTyped
  <1> QED
    BY <1>5, <1>6, <1>7, <1>8, <1>9 DEF Step

-----------------------------------------------------------------------------
(***************************************************************************)
(* Each step of the map is a step of the set of keys, or none.             *)
(***************************************************************************)
LEMMA PresentSet ==
  ASSUME Shown, Shown'
  PROVE  /\ Visible = {k \in Keys : Present(k)}
         /\ Visible' = {k \in Keys : Present(k)'}
  <1>1. Visible \subseteq Keys /\ Visible' \subseteq Keys
    BY DEF Visible
  <1> QED
    BY <1>1 DEF Shown

LEMMA CallerStep ==
  ASSUME TypeOK, NEW th \in Threads, Step(th)
  PROVE  /\ Interning' = [Interning EXCEPT ![th] = Interning'[th]]
         /\ Answer' = [Answer EXCEPT ![th] = Answer'[th]]
  <1>1. \A t2 \in Threads \ {th} :
            pc'[t2] = pc[t2] /\ call'[t2] = call[t2] /\ ret'[t2] = ret[t2]
    BY EveryStepTyped DEF TypedStep, LocalStep, SameLocals
  <1> QED
    BY <1>1 DEF Interning, Answer

\* A finished put has a pointer to its key, and the key is present.
LEMMA AnswerIs ==
  ASSUME Migrates', InternSound', Pointing', NEW th \in Threads, pc'[th] = "exit",
         call'[th].op = "put"
  PROVE  /\ Interning'[th] = call'[th].key /\ call'[th].key \in Keys
         /\ \A x \in Keys : x = call'[th].key => Present(x)'
         /\ Answer'[th] \in Values /\ Denotes[Answer'[th]] = call'[th].key
  <1>1. Interning'[th] = call'[th].key /\ call'[th].key \in Keys
    BY DEF Interning, Migrates, TypeOK, FrameInUse
  <1>2. \A x \in Keys : x = call'[th].key => Present(x)'
    BY DEF InternSound, Honest
  <1>3. ret'[th] \in Word /\ ~ret'[th].prime /\ ret'[th] # Empty
    BY DEF Migrates, AllSettled, Settled, TypeOK, LocalsTyped
  <1>4. ret'[th].v # NULL
    BY <1>3 DEF Word, Empty, Plain
  <1>5. Answer'[th] = ret'[th].v
    BY <1>3 DEF Answer
  <1> QED
    BY <1>1, <1>2, <1>4, <1>5 DEF Pointing, Points, Names

LEMMA InternStep ==
  ASSUME NothingRemoved, Migrates, InternSound, Shown, Shown', Pointing,
         Migrates', InternSound', Pointing', NEW th \in Threads, Step(th)
  PROVE  [Interns!Next]_<<Visible, Interning, Answer>>
  <1>1. /\ TypeOK /\ Valued /\ Settled(th) /\ Relocates(th) /\ Honest(th) /\ Framed(th)
    BY DEF Migrates, InternSound, AllSettled, MoveSound, ItemsSound
  <1>2. \A k \in Keys : Present(k) => Present(k)'
    BY <1>1, PresentStays
  <1>3. /\ DOMAIN Interning = Threads /\ DOMAIN Answer = Threads
        /\ Interning = [t \in Threads |-> Interning[t]] /\ Answer = [t \in Threads |-> Answer[t]]
    BY DEF Interning, Answer
  <1>4. ASSUME Interning'[th] = Interning[th] PROVE Interning' = Interning
    BY <1>1, <1>3, <1>4, CallerStep
  <1>5. ASSUME Answer'[th] = Answer[th] PROVE Answer' = Answer
    BY <1>1, <1>3, <1>5, CallerStep
  <1>6. ASSUME key' = key, val' = val PROVE Visible' = Visible
    <2>1. \A k \in Keys : Present(k)' <=> Present(k)
      BY <1>6 DEF Present
    <2> QED
      BY <2>1, PresentSet
  <1>7. CASE Begin(th)
    <2>1. PICK c \in Calls[th] : call' = [call EXCEPT ![th] = c]
      BY <1>7 DEF Begin
    <2>2. /\ pc[th] = "idle" /\ pc'[th] = "load_latest" /\ call'[th] = c
          /\ key' = key /\ val' = val
      BY <1>1, <1>7, <2>1 DEF Begin, At, Goto, TypeOK, LocalsTyped, tables, slots
    <2>3. c.key \in Keys
      BY CallAssumption
    <2>4. /\ Interning[th] = NULL /\ Interning'[th] = IF c.op = "put" THEN c.key ELSE NULL
          /\ Answer[th] = NULL /\ Answer'[th] = NULL
      BY <2>2 DEF Interning, Answer
    <2>5. Visible' = Visible /\ Answer' = Answer
      BY <1>5, <1>6, <2>2, <2>4
    <2>6. CASE c.op = "put"
      <3>1. Interns!Begin(th, c.key)
        BY <1>1, <2>4, <2>5, <2>6, CallerStep DEF Interns!Begin
      <3> QED
        BY <2>3, <3>1 DEF Interns!Next
    <2>7. CASE c.op # "put"
      BY <1>4, <2>4, <2>5, <2>7
    <2> QED
      BY <2>6, <2>7
  <1>8. CASE Exit(th)
    <2>1. /\ pc[th] = "exit" /\ pc'[th] = "idle" /\ key' = key /\ val' = val
      BY <1>1, <1>8 DEF Exit, At, Goto, TypeOK, LocalsTyped, tables, slots
    <2>2. Visible' = Visible
      BY <1>6, <2>1
    <2>3. Interning'[th] = NULL /\ Answer'[th] = NULL
      BY <2>1 DEF Interning, Answer
    <2>4. CASE call[th].op = "put"
      <3>1. Answer[th] # NULL
        <4>1. ret[th] \in Word /\ ~ret[th].prime /\ ret[th] # Empty
          BY <1>1, <2>1, <2>4 DEF Settled, TypeOK, LocalsTyped
        <4>2. ret[th].v # NULL
          BY <4>1 DEF Word, Empty, Plain
        <4>3. Answer[th] = ret[th].v
          BY <2>1, <2>4, <4>1 DEF Answer
        <4> QED
          BY <4>2, <4>3
      <3>2. Interns!Finish(th)
        BY <1>1, <2>2, <2>3, <3>1, CallerStep DEF Interns!Finish
      <3> QED
        BY <3>2 DEF Interns!Next
    <2>5. CASE call[th].op # "put"
      <3>1. Interning[th] = NULL /\ Answer[th] = NULL
        BY <2>5 DEF Interning, Answer
      <3> QED
        BY <1>4, <1>5, <2>2, <2>3, <3>1
    <2> QED
      BY <2>4, <2>5
  <1>9. CASE ~Begin(th) /\ ~Exit(th)
    <2>1. call' = call /\ pc[th] \notin {"idle", "exit"} /\ pc'[th] # "idle"
      BY <1>1, <1>9, NeverIdle
    <2>2. Interning' = Interning
      <3>1. Interning'[th] = Interning[th]
        BY <2>1 DEF Interning
      <3> QED
        BY <1>4, <3>1
    <2>3. Answer[th] = NULL
      BY <2>1 DEF Answer
    <2>4. ASSUME NEW k \in Keys, Present(k)', ~Present(k)
          PROVE  /\ Interning[th] = k
                 /\ \A x \in Keys : Present(x)' <=> Present(x) \/ x = k
      <3>1. AtKey(th) /\ k = pm[th].key /\ ~pm[th].mover /\ pc[th] \in {"pm_adopt", "pm_write"}
        BY <1>1, <2>4, PresentGrows
      <3>2. Putting(th)
        BY <3>1 DEF Putting, PutLabels
      <3>3. call[th].op = "put" /\ k = call[th].key
        BY <1>1, <3>1, <3>2 DEF Honest, Settled
      <3>4. Interning[th] = k
        BY <2>1, <3>3 DEF Interning
      <3>5. ASSUME NEW x \in Keys, Present(x)', ~Present(x) PROVE x = pm[th].key
        BY <1>1, <3>5, PresentGrows
      <3> QED
        BY <1>2, <2>4, <3>1, <3>4, <3>5
    <2>5. CASE pc'[th] = "exit" /\ call[th].op = "put"
      <3>0. PICK k : k = call[th].key
        OBVIOUS
      <3>1. /\ Interning'[th] = k /\ k \in Keys /\ Answer'[th] \in Values
            /\ Denotes[Answer'[th]] = k /\ Present(k)'
        <4>1. pc'[th] = "exit" /\ call'[th].op = "put"
          BY <2>1, <2>5
        <4>2. /\ Interning'[th] = call'[th].key /\ call'[th].key \in Keys
              /\ \A x \in Keys : x = call'[th].key => Present(x)'
              /\ Answer'[th] \in Values /\ Denotes[Answer'[th]] = call'[th].key
          BY <4>1, AnswerIs
        <4>3. k = call'[th].key
          BY <2>1, <3>0
        <4> QED
          BY <4>2, <4>3
      <3>2. k \in Keys /\ Interning[th] = k /\ Present(k)' /\ k # NULL
        BY <2>2, <3>1, CallAssumption
      <3>3. \A x \in Keys : Present(x)' <=> Present(x) \/ x = k
        BY <1>2, <2>4, <3>2
      <3>4. Visible' = Visible \union {k}
        BY <3>2, <3>3, PresentSet
      <3>5. Denotes[Answer'[th]] = Interning[th]
        BY <3>1, <3>2
      <3>6. Interns!Answer(th, Answer'[th])
        BY <1>1, <2>2, <2>3, <3>2, <3>4, <3>5, CallerStep DEF Interns!Answer
      <3> QED
        BY <3>1, <3>6 DEF Interns!Next
    <2>6. CASE ~(pc'[th] = "exit" /\ call[th].op = "put")
      <3>1. Answer'[th] = NULL
        BY <2>1, <2>6 DEF Answer
      <3>2. Answer' = Answer
        BY <1>5, <2>3, <3>1
      <3>3. CASE \A k \in Keys : Present(k)' => Present(k)
        <4>1. Visible' = Visible
          BY <1>2, <3>3, PresentSet
        <4> QED
          BY <2>2, <3>2, <4>1
      <3>4. ASSUME NEW k \in Keys, Present(k)', ~Present(k) PROVE Interns!Add(k)
        <4>1. Visible' = Visible \union {k}
          BY <2>4, <3>4, PresentSet
        <4> QED
          BY <2>2, <2>4, <3>2, <3>4, <4>1 DEF Interns!Add
      <3> QED
        BY <3>3, <3>4 DEF Interns!Next
    <2> QED
      BY <2>5, <2>6
  <1> QED
    BY <1>7, <1>8, <1>9

\* In a map that nobody removes from and whose clients put pointers to their
\* keys, a key that was put is never lost, is there when put returns, and put
\* returns a pointer to it, through any interleaving of the clients with the
\* migration, for any number of threads, keys, pointers, slots and tables: as
\* long as no table grows while its own predecessor is still being moved.
THEOREM MapInterns ==
  ASSUME NothingRemoved, PutsOwnPointers
  PROVE  Spec /\ []NoNesting => ImplementsInternSet
  <1>1. Init => Interns!Init
    <2> SUFFICES ASSUME Init PROVE Interns!Init
      OBVIOUS
    <2>1. Visible = {}
      BY DEF Init, Visible, Reachable, Empty, Plain
    <2>2. /\ Interning = [th \in Threads |-> NULL]
          /\ Answer = [th \in Threads |-> NULL]
      BY DEF Init, Interning, Answer
    <2> QED
      BY <2>1, <2>2 DEF Interns!Init
  <1>2. Migrates /\ InternSound /\ NoNesting' /\ [Next]_vars => InternSound'
    BY NextIntern
  <1>3. Migrates /\ InternSound /\ Pointing /\ [Next]_vars => Pointing'
    BY NextPoints
  <1>4. Migrates /\ InternSound /\ Shown /\ Pointing /\ Migrates' /\ InternSound' /\ Shown'
          /\ Pointing' /\ [Next]_vars => [Interns!Next]_<<Visible, Interning, Answer>>
    <2> SUFFICES ASSUME Migrates, InternSound, Shown, Pointing, Migrates', InternSound', Shown',
                        Pointing', [Next]_vars
                 PROVE  [Interns!Next]_<<Visible, Interning, Answer>>
      OBVIOUS
    <2>1. CASE UNCHANGED vars
      BY <2>1 DEF vars, tables, chain, slots, Visible, Reachable, Interning, Answer
    <2> QED
      BY <2>1, InternStep DEF Next
  <1>5. Spec => []Migrates
    BY ItemsAlways DEF Migrates
  <1>6. Spec /\ []NoNesting => []InternSound
    BY <1>2, <1>5, InitIntern, PTL DEF Spec
  <1>7. Spec /\ []NoNesting => []Pointing
    BY <1>3, <1>5, <1>6, InitPoints, PTL DEF Spec
  <1>8. Spec /\ []NoNesting => []Shown
    BY <1>5, <1>6, PresentIsShown, PTL
  <1> QED
    BY <1>1, <1>4, <1>5, <1>6, <1>7, <1>8, PTL DEF Spec, ImplementsInternSet, Interns!Spec
=============================================================================
