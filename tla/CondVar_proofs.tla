--------------------------- MODULE CondVar_proofs ---------------------------
(***************************************************************************)
(* Theorems about CondVar, for any number of threads, any scripts and any  *)
(* limit of gone, on both platforms.                                       *)
(***************************************************************************)
EXTENDS CondVar, FiniteSetTheorems, TLAPS

-----------------------------------------------------------------------------
(* Counting tokens.                                                        *)

LEMMA TokensFinite ==
  ASSUME NEW S, IsFiniteSet(S), NEW n, \A t \in S : n[t] \in Int
  PROVE  IsFiniteSet(Tokens(S, n))
  <1> DEFINE Of == [t \in S |-> {t} \X (1 .. n[t])]
             Each == {Of[t] : t \in S}
  <1>1. \A t \in S : IsFiniteSet(Of[t])
    <2> TAKE t \in S
    <2>1. IsFiniteSet({t})
      BY FS_Singleton
    <2>2. IsFiniteSet(1 .. n[t])
      <3>1. n[t] \in Int
        OBVIOUS
      <3> QED
        BY <3>1, FS_Interval
    <2> QED
      BY <2>1, <2>2, FS_Product
  <1>2. Of \in Surjection(S, Each)
    BY DEF Surjection
  <1>3. IsFiniteSet(Each)
    BY <1>2, FS_Surjection
  <1>4. Tokens(S, n) = UNION Each
    BY DEF Tokens
  <1>5. \A T \in Each : IsFiniteSet(T)
    BY <1>1
  <1> HIDE DEF Each
  <1> QED
    BY <1>3, <1>4, <1>5, FS_UNION

LEMMA TokensOfOne ==
  ASSUME NEW t, NEW n, n[t] \in Nat
  PROVE  /\ IsFiniteSet({t} \X (1 .. n[t]))
         /\ Cardinality({t} \X (1 .. n[t])) = n[t]
  <1>1. IsFiniteSet({t}) /\ Cardinality({t}) = 1
    BY FS_Singleton
  <1>2. IsFiniteSet(1 .. n[t]) /\ Cardinality(1 .. n[t]) = n[t]
    BY FS_Interval
  <1>3. /\ IsFiniteSet({t} \X (1 .. n[t]))
        /\ Cardinality({t} \X (1 .. n[t])) = 1 * n[t]
    BY <1>1, <1>2, FS_Product
  <1> QED
    BY <1>3

LEMMA DisjointUnion ==
  ASSUME NEW A, NEW B, IsFiniteSet(A), IsFiniteSet(B), A \intersect B = {}
  PROVE  Cardinality(A \union B) = Cardinality(A) + Cardinality(B)
  <1>1. Cardinality(A \union B)
          = Cardinality(A) + Cardinality(B) - Cardinality(A \intersect B)
    BY FS_Union
  <1>2. Cardinality(A \intersect B) = 0
    BY FS_EmptySet
  <1>3. Cardinality(A) \in Nat /\ Cardinality(B) \in Nat
    BY FS_CardinalityType
  <1> QED
    BY <1>1, <1>2, <1>3

\* One thread more has its own tokens.
LEMMA TokensAdd ==
  ASSUME NEW S, IsFiniteSet(S), NEW n, \A u \in S : n[u] \in Int,
         NEW t, t \notin S, n[t] \in Nat
  PROVE  Cardinality(Tokens(S \union {t}, n)) = Cardinality(Tokens(S, n)) + n[t]
  <1> DEFINE Own == {t} \X (1 .. n[t])
             Old == Tokens(S, n)
  <1>1. IsFiniteSet(Old)
    BY TokensFinite
  <1>2. IsFiniteSet(Own) /\ Cardinality(Own) = n[t]
    BY TokensOfOne
  <1>3. Tokens(S \union {t}, n) = Old \union Own /\ Old \intersect Own = {}
    BY DEF Tokens
  <1> HIDE DEF Own, Old
  <1>4. Cardinality(Old \union Own) = Cardinality(Old) + Cardinality(Own)
    BY <1>1, <1>2, <1>3, DisjointUnion
  <1> QED
    BY <1>2, <1>3, <1>4 DEF Old

\* When only t changes, the number of tokens changes by what t has.
LEMMA TokensMove ==
  ASSUME NEW A, IsFiniteSet(A), NEW m, \A u \in A : m[u] \in Nat,
         NEW B, IsFiniteSet(B), NEW n, \A u \in B : n[u] \in Nat,
         NEW t, A \ {t} = B \ {t}, \A u \in A \ {t} : m[u] = n[u]
  PROVE  /\ Cardinality(Tokens(A, m)) \in Nat
         /\ Cardinality(Tokens(B, n)) \in Nat
         /\ Cardinality(Tokens(B, n)) + (IF t \in A THEN m[t] ELSE 0)
              = Cardinality(Tokens(A, m)) + (IF t \in B THEN n[t] ELSE 0)
  <1> DEFINE Rest == A \ {t}
  <1>1. IsFiniteSet(Rest) /\ t \notin Rest /\ (\A u \in Rest : m[u] \in Int /\ n[u] \in Int)
    BY FS_RemoveElement
  <1>2. Tokens(Rest, m) = Tokens(Rest, n)
    BY DEF Tokens
  <1>3. IsFiniteSet(Tokens(Rest, m)) /\ Cardinality(Tokens(Rest, m)) \in Nat
    BY <1>1, TokensFinite, FS_CardinalityType
  <1>4. Cardinality(Tokens(A, m)) = Cardinality(Tokens(Rest, m)) + (IF t \in A THEN m[t] ELSE 0)
    <2>1. CASE t \in A
      <3>1. A = Rest \union {t}
        BY <2>1
      <3>2. Cardinality(Tokens(Rest \union {t}, m)) = Cardinality(Tokens(Rest, m)) + m[t]
        BY <1>1, <2>1, TokensAdd
      <3> QED
        BY <2>1, <3>1, <3>2
    <2>2. CASE t \notin A
      <3>1. A = Rest
        BY <2>2
      <3> QED
        BY <1>3, <2>2, <3>1
    <2> QED
      BY <2>1, <2>2
  <1>5. Cardinality(Tokens(B, n)) = Cardinality(Tokens(Rest, n)) + (IF t \in B THEN n[t] ELSE 0)
    <2>1. CASE t \in B
      <3>1. B = Rest \union {t}
        BY <2>1
      <3>2. Cardinality(Tokens(Rest \union {t}, n)) = Cardinality(Tokens(Rest, n)) + n[t]
        BY <1>1, <2>1, TokensAdd
      <3> QED
        BY <2>1, <3>1, <3>2
    <2>2. CASE t \notin B
      <3>1. B = Rest
        BY <2>2
      <3> QED
        BY <1>2, <1>3, <2>2, <3>1
    <2> QED
      BY <2>1, <2>2
  <1> HIDE DEF Rest
  <1> QED
    BY <1>2, <1>3, <1>4, <1>5

\* The same for the number of threads in a set.
LEMMA NumberMoves ==
  ASSUME NEW A, IsFiniteSet(A), NEW B, IsFiniteSet(B), NEW t, A \ {t} = B \ {t}
  PROVE  /\ Cardinality(A) \in Nat
         /\ Cardinality(B) \in Nat
         /\ t \in A => Cardinality(A) > 0
         /\ Cardinality(B) + (IF t \in A THEN 1 ELSE 0)
              = Cardinality(A) + (IF t \in B THEN 1 ELSE 0)
  <1>1. /\ Cardinality(A \ {t}) = Cardinality(A) - (IF t \in A THEN 1 ELSE 0)
        /\ Cardinality(B \ {t}) = Cardinality(B) - (IF t \in B THEN 1 ELSE 0)
    <2>1. Cardinality(A) \in Nat /\ Cardinality(B) \in Nat
      BY FS_CardinalityType
    <2>2. Cardinality(A \ {t}) = IF t \in A THEN Cardinality(A) - 1 ELSE Cardinality(A)
      BY FS_RemoveElement
    <2>3. Cardinality(B \ {t}) = IF t \in B THEN Cardinality(B) - 1 ELSE Cardinality(B)
      BY FS_RemoveElement
    <2> QED
      BY <2>1, <2>2, <2>3
  <1>2. Cardinality(A) \in Nat /\ Cardinality(B) \in Nat
    BY FS_CardinalityType
  <1>3. t \in A => Cardinality(A) # 0
    BY FS_EmptySet
  <1>4. Cardinality(A \ {t}) = Cardinality(B \ {t})
    OBVIOUS
  <1> QED
    BY <1>1, <1>2, <1>3, <1>4

-----------------------------------------------------------------------------
(***************************************************************************)
(* The invariant.  Everything is said of behaviours in which no wait has   *)
(* timed out between a signal and its token with other threads blocked.    *)
(***************************************************************************)
Places == {"idle", "attempt", "leave", "queue", "monitor", "relock", "drain", "fold",
           "gate", "post", "sleep"}

Locals == [timed : BOOLEAN, timeout : BOOLEAN, nsignal : Nat, ngone : Nat, expire : Nat]

CondTyped ==
    /\ pc \in [Threads -> Places]
    /\ local \in [Threads -> Locals]
    /\ ret \in [Threads -> {"none", "success", "busy", "error"}]
    /\ cond \in [blocked : Nat, gone : Nat, to_unblock : Nat]
    /\ sem_queue \in Nat /\ sem_gate \in {0, 1}
    /\ sleepers = At("sleep")
    /\ platform = "msvc" => sleepers = {}
    /\ clock \in Nat

\* The monitor is held for the gate, between two batches.
MonitorHeld ==
    /\ \A t \in Threads : pc[t] \in {"gate", "fold"} => monitor = t /\ cond.to_unblock = 0
    /\ \A t \in Threads : pc[t] = "gate" => cond.gone < cond.blocked

\* The gate is shut during a batch, and while the last of it takes the tokens
\* that are left; then nobody is blocked.
GateShut ==
    /\ cond.to_unblock > 0 => sem_gate = 0 /\ (cond.gone > 0 => cond.blocked = 0)
    /\ \A t \in Threads : pc[t] = "drain" =>
          sem_gate = 0 /\ cond.to_unblock = 0 /\ cond.blocked = 0 /\ cond.gone = 0
    /\ \A t, u \in Threads : pc[t] = "drain" /\ pc[u] = "drain" => t = u

\* Every thread that is in a wait is counted, once.
Counted == {t \in Threads : pc[t] \in {"leave", "queue", "monitor"}}

WaitersCounted ==
    Cardinality(Counted) =
        cond.blocked + cond.to_unblock - (IF cond.to_unblock = 0 THEN cond.gone ELSE 0)

TokensCounted ==
    sem_queue + Unposted + Cardinality(Taken)
        = cond.to_unblock + Draining + (IF cond.to_unblock > 0 THEN cond.gone ELSE 0)

\* A wait on the emulated condition variable that has not timed out goes on
\* because of a call.
NotYet == {"idle", "attempt", "leave", "queue", "gate", "post", "sleep"}

CallsFollow ==
    /\ \A t \in Threads : pc[t] \in NotYet => ~local[t].timeout
    /\ sem_gate = 0 => \A t \in Threads : pc[t] \in {"leave", "queue"} => t \in called
    /\ \A t \in Threads :
          platform = "msvc" /\ pc[t] \in {"monitor", "drain", "fold", "relock"}
              /\ ~local[t].timeout => t \in called

Sound ==
    /\ CondTyped      /\ MonitorHeld   /\ GateShut
    /\ WaitersCounted /\ TokensCounted /\ CallsFollow

CondInv == ~raced => Sound

-----------------------------------------------------------------------------
(* What happens to the numbers when one thread moves.                      *)

Moves(t, p, l) == pc' = [pc EXCEPT ![t] = p] /\ local' = [local EXCEPT ![t] = l]

InWait == {"leave", "queue", "monitor"}

Numbers(t, p, l) ==
    /\ Unposted \in Nat /\ Unposted' \in Nat
    /\ Draining \in Nat /\ Draining' \in Nat
    /\ Cardinality(Taken) \in Nat /\ Cardinality(Taken') \in Nat
    /\ Cardinality(Counted) \in Nat /\ Cardinality(Counted') \in Nat
    /\ pc[t] # "post" /\ p # "post" => Unposted' = Unposted
    /\ pc[t] # "post" /\ p = "post" => Unposted' = Unposted + l.nsignal
    /\ pc[t] = "post" /\ p # "post" => Unposted' + local[t].nsignal = Unposted
    /\ pc[t] # "drain" /\ p # "drain" => Draining' = Draining
    /\ pc[t] # "drain" /\ p = "drain" => Draining' = Draining + l.ngone
    /\ pc[t] = "drain" /\ p # "drain" => Draining' + local[t].ngone = Draining
    /\ pc[t] = "drain" /\ p = "drain" => Draining' + local[t].ngone = Draining + l.ngone
    /\ pc[t] # "monitor" /\ p # "monitor" => Cardinality(Taken') = Cardinality(Taken)
    /\ pc[t] # "monitor" /\ p = "monitor" /\ l.timeout =>
          Cardinality(Taken') = Cardinality(Taken)
    /\ pc[t] # "monitor" /\ p = "monitor" /\ ~l.timeout =>
          Cardinality(Taken') = Cardinality(Taken) + 1
    /\ pc[t] = "monitor" /\ p # "monitor" /\ local[t].timeout =>
          Cardinality(Taken') = Cardinality(Taken)
    /\ pc[t] = "monitor" /\ p # "monitor" /\ ~local[t].timeout =>
          Cardinality(Taken') + 1 = Cardinality(Taken)
    /\ (pc[t] \in InWait <=> p \in InWait) => Cardinality(Counted') = Cardinality(Counted)
    /\ pc[t] \notin InWait /\ p \in InWait => Cardinality(Counted') = Cardinality(Counted) + 1
    /\ pc[t] \in InWait /\ p \notin InWait => Cardinality(Counted') + 1 = Cardinality(Counted)
    /\ pc[t] \in InWait => Cardinality(Counted) > 0

LEMMA Moved ==
  ASSUME CondTyped, NEW t \in Threads, NEW p \in Places, NEW l \in Locals, Moves(t, p, l)
  PROVE  /\ pc' \in [Threads -> Places] /\ local' \in [Threads -> Locals]
         /\ Numbers(t, p, l)
         /\ pc'[t] = p /\ local'[t] = l
         /\ \A u \in Threads \ {t} : pc'[u] = pc[u] /\ local'[u] = local[u]
  <1>1. pc' \in [Threads -> Places] /\ local' \in [Threads -> Locals]
    BY DEF CondTyped, Moves
  <1>2. /\ pc'[t] = p /\ local'[t] = l
        /\ \A u \in Threads \ {t} : pc'[u] = pc[u] /\ local'[u] = local[u]
    BY DEF CondTyped, Moves
  <1>3. \A A \in SUBSET Threads : IsFiniteSet(A)
    BY CondAssumption, FS_Subset
  <1>4. \A u \in Threads : /\ local[u].nsignal \in Nat /\ local[u].ngone \in Nat
                            /\ local'[u].nsignal \in Nat /\ local'[u].ngone \in Nat
    BY <1>1 DEF CondTyped, Locals
  <1>5. /\ Unposted \in Nat /\ Unposted' \in Nat
        /\ pc[t] # "post" /\ p # "post" => Unposted' = Unposted
        /\ pc[t] # "post" /\ p = "post" => Unposted' = Unposted + l.nsignal
        /\ pc[t] = "post" /\ p # "post" => Unposted' + local[t].nsignal = Unposted
    <2> DEFINE A == At("post")
               B == At("post")'
               m == [u \in Threads |-> local[u].nsignal]
               n == [u \in Threads |-> local'[u].nsignal]
    <2>1. IsFiniteSet(A) /\ IsFiniteSet(B)
      BY <1>3 DEF At
    <2>2. /\ \A u \in A : m[u] \in Nat
          /\ \A u \in B : n[u] \in Nat
      BY <1>4 DEF At
    <2>3. A \ {t} = B \ {t} /\ \A u \in A \ {t} : m[u] = n[u]
      BY <1>2 DEF At
    <2>4. /\ t \in A <=> pc[t] = "post"
          /\ t \in B <=> p = "post"
          /\ m[t] = local[t].nsignal /\ n[t] = l.nsignal
          /\ m[t] \in Nat /\ n[t] \in Nat
      BY <1>2, <1>4 DEF At
    <2>5. Unposted = Cardinality(Tokens(A, m)) /\ Unposted' = Cardinality(Tokens(B, n))
      BY DEF Unposted
    <2> HIDE DEF A, B, m, n
    <2>6. /\ Cardinality(Tokens(A, m)) \in Nat
          /\ Cardinality(Tokens(B, n)) \in Nat
          /\ Cardinality(Tokens(B, n)) + (IF t \in A THEN m[t] ELSE 0)
               = Cardinality(Tokens(A, m)) + (IF t \in B THEN n[t] ELSE 0)
      BY <2>1, <2>2, <2>3, TokensMove
    <2> QED
      BY <2>4, <2>5, <2>6
  <1>6. /\ Draining \in Nat /\ Draining' \in Nat
        /\ pc[t] # "drain" /\ p # "drain" => Draining' = Draining
        /\ pc[t] # "drain" /\ p = "drain" => Draining' = Draining + l.ngone
        /\ pc[t] = "drain" /\ p # "drain" => Draining' + local[t].ngone = Draining
        /\ pc[t] = "drain" /\ p = "drain" => Draining' + local[t].ngone = Draining + l.ngone
    <2> DEFINE A == At("drain")
               B == At("drain")'
               m == [u \in Threads |-> local[u].ngone]
               n == [u \in Threads |-> local'[u].ngone]
    <2>1. IsFiniteSet(A) /\ IsFiniteSet(B)
      BY <1>3 DEF At
    <2>2. /\ \A u \in A : m[u] \in Nat
          /\ \A u \in B : n[u] \in Nat
      BY <1>4 DEF At
    <2>3. A \ {t} = B \ {t} /\ \A u \in A \ {t} : m[u] = n[u]
      BY <1>2 DEF At
    <2>4. /\ t \in A <=> pc[t] = "drain"
          /\ t \in B <=> p = "drain"
          /\ m[t] = local[t].ngone /\ n[t] = l.ngone
          /\ m[t] \in Nat /\ n[t] \in Nat
      BY <1>2, <1>4 DEF At
    <2>5. Draining = Cardinality(Tokens(A, m)) /\ Draining' = Cardinality(Tokens(B, n))
      BY DEF Draining
    <2> HIDE DEF A, B, m, n
    <2>6. /\ Cardinality(Tokens(A, m)) \in Nat
          /\ Cardinality(Tokens(B, n)) \in Nat
          /\ Cardinality(Tokens(B, n)) + (IF t \in A THEN m[t] ELSE 0)
               = Cardinality(Tokens(A, m)) + (IF t \in B THEN n[t] ELSE 0)
      BY <2>1, <2>2, <2>3, TokensMove
    <2> QED
      BY <2>4, <2>5, <2>6
  <1>7. /\ Cardinality(Taken) \in Nat /\ Cardinality(Taken') \in Nat
        /\ Cardinality(Taken') + (IF t \in Taken THEN 1 ELSE 0)
              = Cardinality(Taken) + (IF t \in Taken' THEN 1 ELSE 0)
        /\ t \in Taken <=> pc[t] = "monitor" /\ ~local[t].timeout
        /\ t \in Taken' <=> p = "monitor" /\ ~l.timeout
    <2>1. IsFiniteSet(Taken) /\ IsFiniteSet(Taken')
      BY <1>3 DEF Taken, At
    <2>2. Taken \ {t} = Taken' \ {t}
      BY <1>2 DEF Taken, At
    <2>3. /\ t \in Taken <=> pc[t] = "monitor" /\ ~local[t].timeout
          /\ t \in Taken' <=> p = "monitor" /\ ~l.timeout
      BY <1>2 DEF Taken, At
    <2> QED
      BY <2>1, <2>2, <2>3, NumberMoves
  <1>8. /\ Cardinality(Counted) \in Nat /\ Cardinality(Counted') \in Nat
        /\ t \in Counted => Cardinality(Counted) > 0
        /\ Cardinality(Counted') + (IF t \in Counted THEN 1 ELSE 0)
              = Cardinality(Counted) + (IF t \in Counted' THEN 1 ELSE 0)
        /\ t \in Counted <=> pc[t] \in InWait
        /\ t \in Counted' <=> p \in InWait
    <2>1. IsFiniteSet(Counted) /\ IsFiniteSet(Counted')
      BY <1>3 DEF Counted
    <2>2. Counted \ {t} = Counted' \ {t}
      BY <1>2 DEF Counted
    <2>3. /\ t \in Counted <=> pc[t] \in InWait
          /\ t \in Counted' <=> p \in InWait
      BY <1>2 DEF Counted, InWait
    <2> QED
      BY <2>1, <2>2, <2>3, NumberMoves
  <1> QED
    BY <1>1, <1>2, <1>5, <1>6, <1>7, <1>8 DEF Numbers

\* Leaving the locals alone is a case of changing them.
LEMMA LocalsStay ==
  ASSUME CondTyped, NEW t \in Threads, UNCHANGED local
  PROVE  local' = [local EXCEPT ![t] = local[t]] /\ local[t] \in Locals
  BY DEF CondTyped

LEMMA ReturnMoves ==
  ASSUME CondTyped, NEW t \in Threads, NEW r \in {"none", "success", "busy", "error"},
         Return(t, r)
  PROVE  /\ Moves(t, "idle", NoLocals) /\ NoLocals \in Locals
         /\ ret' \in [Threads -> {"none", "success", "busy", "error"}]
  BY DEF CondTyped, Return, Goto, Moves, NoLocals, Locals

\* Steps outside the counters: to begin or end a call, to try for the mutex, and
\* to release it.
LEMMA Quiet ==
  ASSUME Sound, NEW t \in Threads, NEW p \in Places, NEW l \in Locals, Moves(t, p, l),
         ret' \in [Threads -> {"none", "success", "busy", "error"}], clock' \in Nat,
         UNCHANGED <<cond, sem_queue, sem_gate, monitor, sleepers>>, called \subseteq called',
         \/ pc[t] \in {"idle", "attempt", "relock"} /\ p \in {"idle", "attempt"} /\ ~l.timeout
         \/ pc[t] = "leave" /\ p = "queue" /\ l = local[t],
         platform' = platform
  PROVE  Sound'
  <1>1. CondTyped
    BY DEF Sound
  <1>2. /\ pc'[t] = p /\ local'[t] = l
        /\ \A u \in Threads \ {t} : pc'[u] = pc[u] /\ local'[u] = local[u]
    BY <1>1, Moved
  <1>3. /\ pc' \in [Threads -> Places] /\ local' \in [Threads -> Locals]
        /\ Numbers(t, p, l)
    BY <1>1, Moved
  <1>4. CondTyped'
    <2>1. At("sleep")' = At("sleep")
      BY <1>2 DEF At
    <2> QED
      BY <1>1, <1>3, <2>1 DEF CondTyped
  <1>5. MonitorHeld' /\ GateShut'
    BY <1>2 DEF Sound, MonitorHeld, GateShut
  <1>6. WaitersCounted' /\ TokensCounted'
    BY <1>3 DEF Sound, WaitersCounted, TokensCounted, Numbers, InWait
  <1>7. CallsFollow'
    BY <1>2 DEF Sound, CallsFollow, NotYet
  <1> QED
    BY <1>4, <1>5, <1>6, <1>7 DEF Sound

\* While nobody drains there is nothing to drain.
LEMMA NothingToDrain ==
  ASSUME \A t \in Threads : pc[t] # "drain"
  PROVE  Draining = 0
  <1>1. At("drain") = {}
    BY DEF At
  <1>2. Tokens({}, [t \in Threads |-> local[t].ngone]) = {}
    BY DEF Tokens
  <1> QED
    BY <1>1, <1>2, FS_EmptySet DEF Draining

\* Tokens are only there while the gate is shut.
LEMMA TokensMeanShut ==
  ASSUME Sound, Unposted \in Nat, Cardinality(Taken) \in Nat,
         sem_queue > 0 \/ Unposted > 0 \/ Cardinality(Taken) > 0
  PROVE  sem_gate = 0
  <1>1. sem_queue \in Nat /\ cond \in [blocked : Nat, gone : Nat, to_unblock : Nat]
    BY DEF Sound, CondTyped
  <1>2. CASE cond.to_unblock > 0
    BY <1>2 DEF Sound, GateShut
  <1>3. CASE cond.to_unblock = 0
    <2>1. Draining # 0
      BY <1>1, <1>3 DEF Sound, TokensCounted
    <2>2. PICK t \in Threads : pc[t] = "drain"
      BY <2>1, NothingToDrain
    <2> QED
      BY <2>2 DEF Sound, GateShut
  <1> QED
    BY <1>1, <1>2, <1>3

-----------------------------------------------------------------------------
(* The steps of impl_cond_do_wait.                                         *)

LEMMA EnterWaitKeeps ==
  ASSUME Sound, NEW t \in Threads, EnterWait(t), platform' = platform
  PROVE  Sound'
  <1> DEFINE l == [local[t] EXCEPT !.timed = Head(todo[t]) = "timedwait"]
  <1>1. CondTyped
    BY DEF Sound
  <1>2. Moves(t, "leave", l) /\ l \in Locals /\ l.timeout = local[t].timeout
        /\ "leave" \in Places /\ pc[t] = "idle"
    BY <1>1 DEF EnterWait, Calls, Goto, Moves, CondTyped, Locals, Places
  <1> HIDE DEF l
  <1>3. /\ pc' \in [Threads -> Places] /\ local' \in [Threads -> Locals]
        /\ Numbers(t, "leave", l)
    BY <1>1, <1>2, Moved
  <1>4. /\ pc'[t] = "leave" /\ local'[t] = l
        /\ \A u \in Threads \ {t} : pc'[u] = pc[u] /\ local'[u] = local[u]
    BY <1>1, <1>2, <1>3, Moved
  <1>5. /\ UNCHANGED <<ret, sem_queue, sem_gate, monitor, sleepers, clock>>
        /\ sem_gate = 1 /\ called' = called \ {t}
        /\ cond' = [cond EXCEPT !.blocked = @ + 1]
    BY DEF EnterWait, GateOpen, Staying, Forget
  <1>6. CondTyped'
    <2>1. At("sleep")' = At("sleep")
      BY <1>2, <1>4 DEF At
    <2> QED
      BY <1>1, <1>3, <1>5, <2>1 DEF CondTyped
  <1>7. MonitorHeld'
    BY <1>1, <1>4, <1>5 DEF Sound, MonitorHeld, CondTyped
  <1>8. GateShut'
    BY <1>1, <1>4, <1>5 DEF Sound, GateShut, CondTyped
  <1>9. WaitersCounted' /\ TokensCounted'
    BY <1>1, <1>2, <1>3, <1>5
       DEF Sound, WaitersCounted, TokensCounted, GateShut, Numbers, InWait, CondTyped
  <1>10. CallsFollow'
    BY <1>2, <1>4, <1>5 DEF Sound, CallsFollow, NotYet
  <1> QED
    BY <1>6, <1>7, <1>8, <1>9, <1>10 DEF Sound

LEMMA DequeueKeeps ==
  ASSUME Sound, NEW t \in Threads, Dequeue(t), platform' = platform
  PROVE  Sound'
  <1>1. CondTyped
    BY DEF Sound
  <1>2. PICK l \in Locals :
          /\ Moves(t, "monitor", l)
          /\ \/ l.timeout /\ sem_queue' = sem_queue
             \/ ~l.timeout /\ sem_queue > 0 /\ sem_queue' = sem_queue - 1
    <2>1. CASE sem_queue > 0 /\ sem_queue' = sem_queue - 1 /\ UNCHANGED local
      <3>1. ~local[t].timeout
        BY DEF Sound, CallsFollow, NotYet, Dequeue
      <3>2. Moves(t, "monitor", local[t]) /\ local[t] \in Locals
        BY <1>1, <2>1, LocalsStay DEF Dequeue, Goto, Moves
      <3> QED
        BY <1>1, <2>1, <3>1, <3>2 DEF CondTyped
    <2>2. CASE /\ local' = [local EXCEPT ![t].timeout = TRUE]
               /\ UNCHANGED sem_queue
      <3> DEFINE l == [local[t] EXCEPT !.timeout = TRUE]
      <3>1. Moves(t, "monitor", l) /\ l \in Locals /\ l.timeout
        BY <1>1, <2>2 DEF Dequeue, Goto, Moves, CondTyped, Locals
      <3> HIDE DEF l
      <3> QED
        BY <1>1, <2>2, <3>1 DEF CondTyped
    <2> QED
      BY <2>1, <2>2 DEF Dequeue
  <1>3. "monitor" \in Places /\ pc[t] = "queue"
    BY DEF Dequeue, Places
  <1>4. /\ pc' \in [Threads -> Places] /\ local' \in [Threads -> Locals]
        /\ Numbers(t, "monitor", l)
    BY <1>1, <1>2, <1>3, Moved
  <1>5. /\ pc'[t] = "monitor" /\ local'[t] = l
        /\ \A u \in Threads \ {t} : pc'[u] = pc[u] /\ local'[u] = local[u]
    BY <1>1, <1>2, <1>3, Moved
  <1>6. UNCHANGED <<ret, cond, sem_gate, monitor, sleepers, clock, called>>
    BY DEF Dequeue, Staying, history
  <1>7. CondTyped'
    <2>1. At("sleep")' = At("sleep")
      BY <1>3, <1>5 DEF At
    <2>2. sem_queue' \in Nat
      BY <1>1, <1>2 DEF CondTyped
    <2> QED
      BY <1>1, <1>4, <1>6, <2>1, <2>2 DEF CondTyped
  <1>8. MonitorHeld' /\ GateShut'
    BY <1>5, <1>6 DEF Sound, MonitorHeld, GateShut
  <1>9. WaitersCounted' /\ TokensCounted'
    <2>1. /\ Unposted' = Unposted /\ Draining' = Draining
          /\ Cardinality(Counted') = Cardinality(Counted)
          /\ Cardinality(Taken) \in Nat /\ Unposted \in Nat
          /\ Cardinality(Taken') = Cardinality(Taken) + (IF l.timeout THEN 0 ELSE 1)
      BY <1>3, <1>4 DEF Numbers, InWait
    <2>4. sem_queue \in Nat
      BY <1>1 DEF CondTyped
    <2>2. WaitersCounted'
      BY <1>6, <2>1 DEF Sound, WaitersCounted
    <2>3. TokensCounted'
      <3>1. CASE l.timeout
        BY <1>2, <1>6, <2>1, <2>4, <3>1 DEF Sound, TokensCounted
      <3>2. CASE ~l.timeout
        BY <1>2, <1>6, <2>1, <2>4, <3>2 DEF Sound, TokensCounted
      <3> QED
        BY <3>1, <3>2
    <2> QED
      BY <2>2, <2>3
  <1>10. CallsFollow'
    <2>1. ~l.timeout => t \in called
      <3>1. SUFFICES ASSUME ~l.timeout PROVE t \in called
        OBVIOUS
      <3>2. sem_gate = 0
        BY <1>2, <1>4, <3>1, TokensMeanShut DEF Numbers
      <3> QED
        BY <1>3, <3>2 DEF Sound, CallsFollow
    <2> QED
      BY <1>3, <1>5, <1>6, <2>1 DEF Sound, CallsFollow, NotYet
  <1> QED
    BY <1>7, <1>8, <1>9, <1>10 DEF Sound

\* What the thread does to the counters, when it is not one that times out with
\* others blocked.
LEMMA LeftCounters ==
  ASSUME Sound, NEW t \in Threads, pc[t] = "monitor", cond.to_unblock # 0,
         ~local[t].timeout \/ cond.blocked = 0
  PROVE  LET c == Left(cond, local[t].timeout) IN
         /\ c \in [blocked : Nat, gone : Nat, to_unblock : Nat]
         /\ c.blocked = cond.blocked
         /\ c.gone = cond.gone + (IF local[t].timeout THEN 1 ELSE 0)
         /\ c.to_unblock = cond.to_unblock - 1
         /\ c.gone > 0 => c.blocked = 0
  <1>1. cond \in [blocked : Nat, gone : Nat, to_unblock : Nat] /\ local[t] \in Locals
    BY DEF Sound, CondTyped
  <1>2. cond.gone > 0 => cond.blocked = 0
    BY <1>1 DEF Sound, GateShut
  <1> DEFINE c == Left(cond, local[t].timeout)
  <1>3. CASE local[t].timeout
    <2>1. cond.blocked = 0
      BY <1>3
    <2>2. PICK d : d = [cond EXCEPT !.gone = cond.gone + 1]
      OBVIOUS
    <2>3. /\ d \in [blocked : Nat, gone : Nat, to_unblock : Nat]
          /\ d.blocked = 0 /\ d.gone = cond.gone + 1 /\ d.to_unblock = cond.to_unblock
      BY <1>1, <2>1, <2>2
    <2>4. c = [d EXCEPT !.to_unblock = d.to_unblock - 1]
      BY <1>1, <1>3, <2>1, <2>2 DEF Left
    <2> HIDE DEF c
    <2>5. /\ c \in [blocked : Nat, gone : Nat, to_unblock : Nat]
          /\ c.blocked = cond.blocked /\ c.gone = cond.gone + 1
          /\ c.to_unblock = cond.to_unblock - 1
      BY <1>1, <2>1, <2>3, <2>4
    <2> QED
      BY <1>3, <2>1, <2>5 DEF c
  <1>4. CASE ~local[t].timeout
    BY <1>1, <1>2, <1>4 DEF Left
  <1> QED
    BY <1>3, <1>4

LEMMA UnblockKeeps ==
  ASSUME Sound, NEW t \in Threads, Unblock(t), ~raced', platform' = platform
  PROVE  Sound'
  <1>1. CondTyped
    BY DEF Sound
  <1>2. PICK c : c = Left(cond, local[t].timeout)
    OBVIOUS
  <1>3. /\ pc[t] = "monitor" /\ monitor = NULL /\ cond.to_unblock # 0
        /\ ~local[t].timeout \/ cond.blocked = 0
    BY DEF Unblock
  <1>4. /\ c \in [blocked : Nat, gone : Nat, to_unblock : Nat]
        /\ c.blocked = cond.blocked
        /\ c.gone = cond.gone + (IF local[t].timeout THEN 1 ELSE 0)
        /\ c.to_unblock = cond.to_unblock - 1
        /\ c.gone > 0 => c.blocked = 0
    BY <1>2, <1>3, LeftCounters
  <1>5. UNCHANGED <<ret, sem_queue, monitor, sleepers, clock, called>>
    BY DEF Unblock, Staying
  <1>6. PICK p \in {"relock", "drain"}, l \in Locals :
          /\ Moves(t, p, l) /\ l.timeout = local[t].timeout
          /\ \/ /\ p = "relock" /\ c.to_unblock = 0 /\ c.blocked # 0
                /\ cond' = c /\ sem_gate' = 1
             \/ /\ p = "drain" /\ c.to_unblock = 0 /\ c.blocked = 0
                /\ cond' = [c EXCEPT !.gone = 0] /\ l.ngone = c.gone
                /\ UNCHANGED sem_gate
             \/ /\ p = "relock" /\ c.to_unblock # 0
                /\ cond' = c /\ UNCHANGED sem_gate
    <2>1. CASE UNCHANGED local /\ pc' = [pc EXCEPT ![t] = "relock"]
      <3>1. Moves(t, "relock", local[t]) /\ local[t] \in Locals
        BY <1>1, <2>1, LocalsStay DEF Moves
      <3>2. \/ c.to_unblock = 0 /\ c.blocked # 0 /\ cond' = c /\ sem_gate' = 1
            \/ c.to_unblock # 0 /\ cond' = c /\ UNCHANGED sem_gate
        BY <1>1, <1>2, <1>3, <2>1 DEF Unblock, LastOut, Goto, CondTyped
      <3> QED
        BY <3>1, <3>2
    <2>2. CASE /\ c.to_unblock = 0 /\ c.blocked = 0
               /\ cond' = [c EXCEPT !.gone = 0]
               /\ local' = [local EXCEPT ![t].ngone = c.gone]
               /\ pc' = [pc EXCEPT ![t] = "drain"]
               /\ UNCHANGED sem_gate
      <3> DEFINE l == [local[t] EXCEPT !.ngone = c.gone]
      <3>1. Moves(t, "drain", l) /\ l \in Locals
            /\ l.timeout = local[t].timeout /\ l.ngone = c.gone
        BY <1>1, <1>4, <2>2 DEF Moves, CondTyped, Locals
      <3> HIDE DEF l
      <3> QED
        BY <2>2, <3>1
    <2> QED
      BY <1>2, <2>1, <2>2 DEF Unblock, LastOut, Goto
  <1>7. /\ pc' \in [Threads -> Places] /\ local' \in [Threads -> Locals]
        /\ Numbers(t, p, l)
        /\ pc'[t] = p /\ local'[t] = l
        /\ \A u \in Threads \ {t} : pc'[u] = pc[u] /\ local'[u] = local[u]
    <2>1. p \in Places
      BY <1>6 DEF Places
    <2> QED
      BY <1>1, <1>6, <2>1, Moved
  <1>8. /\ cond' \in [blocked : Nat, gone : Nat, to_unblock : Nat]
        /\ cond'.blocked = cond.blocked
        /\ cond'.to_unblock = cond.to_unblock - 1
        /\ sem_gate' \in {0, 1}
        /\ cond.to_unblock \in Nat /\ cond.blocked \in Nat /\ cond.gone \in Nat
        /\ sem_queue \in Nat
    BY <1>1, <1>4, <1>6 DEF CondTyped
  <1>9. CondTyped'
    <2>1. At("sleep")' = At("sleep")
      BY <1>3, <1>6, <1>7 DEF At
    <2> QED
      BY <1>1, <1>5, <1>7, <1>8, <2>1 DEF CondTyped
  <1>10. MonitorHeld'
    <2>1. \A u \in Threads : pc'[u] \notin {"gate", "fold"}
      BY <1>3, <1>6, <1>7, CondAssumption DEF Sound, MonitorHeld
    <2> QED
      BY <2>1 DEF MonitorHeld
  <1>11. GateShut'
    <2>1. sem_gate = 0 /\ \A u \in Threads : pc[u] # "drain"
      BY <1>3, <1>8 DEF Sound, GateShut
    <2>2. cond'.to_unblock > 0 => sem_gate' = 0 /\ (cond'.gone > 0 => cond'.blocked = 0)
      BY <1>4, <1>6, <1>8, <2>1
    <2>3. \A u \in Threads : pc'[u] = "drain" => u = t /\ p = "drain"
      BY <1>7, <2>1
    <2>4. p = "drain" => /\ sem_gate' = 0 /\ cond'.to_unblock = 0
                        /\ cond'.blocked = 0 /\ cond'.gone = 0
      BY <1>4, <1>6, <2>1
    <2> QED
      BY <2>2, <2>3, <2>4 DEF GateShut
  <1>12. WaitersCounted'
    <2>1. Cardinality(Counted') + 1 = Cardinality(Counted) /\ Cardinality(Counted') \in Nat
      BY <1>3, <1>6, <1>7 DEF Numbers, InWait
    <2>2. Cardinality(Counted) = cond.blocked + cond.to_unblock
      BY <1>3, <1>8 DEF Sound, WaitersCounted
    <2>3. cond'.to_unblock = 0 => cond'.gone = 0
      <3>1. CASE cond' = c /\ c.to_unblock = 0 /\ c.blocked # 0
        BY <1>4, <3>1
      <3>2. CASE cond' = [c EXCEPT !.gone = 0]
        BY <1>4, <3>2
      <3>3. CASE cond' = c /\ c.to_unblock # 0
        BY <3>3
      <3> QED
        BY <1>6, <3>1, <3>2, <3>3
    <2> QED
      BY <1>8, <2>1, <2>2, <2>3 DEF WaitersCounted
  <1>13. TokensCounted'
    <2>1. /\ Unposted' = Unposted /\ Unposted \in Nat /\ Draining \in Nat
          /\ Draining' = Draining + (IF p = "drain" THEN c.gone ELSE 0)
          /\ Cardinality(Taken') + (IF local[t].timeout THEN 0 ELSE 1) = Cardinality(Taken)
          /\ Cardinality(Taken) \in Nat /\ Cardinality(Taken') \in Nat
      <3>1. CASE p = "drain"
        BY <1>3, <1>4, <1>6, <1>7, <3>1 DEF Numbers
      <3>2. CASE p = "relock"
        BY <1>3, <1>4, <1>6, <1>7, <3>2 DEF Numbers
      <3> QED
        BY <1>6, <3>1, <3>2
    <2>2. sem_queue + Unposted + Cardinality(Taken) = cond.to_unblock + Draining + cond.gone
      BY <1>3, <1>8 DEF Sound, TokensCounted
    <2>3. (IF p = "drain" THEN c.gone ELSE 0)
            + (IF cond'.to_unblock > 0 THEN cond'.gone ELSE 0) = c.gone
      BY <1>4, <1>6, <1>8
    <2>4. sem_queue + Unposted + Cardinality(Taken')
            = cond'.to_unblock + Draining + c.gone
      <3>1. CASE local[t].timeout
        BY <1>4, <1>8, <2>1, <2>2, <3>1
      <3>2. CASE ~local[t].timeout
        BY <1>4, <1>8, <2>1, <2>2, <3>2
      <3> QED
        BY <3>1, <3>2
    <2> QED
      BY <1>4, <1>5, <1>8, <2>1, <2>3, <2>4 DEF TokensCounted
  <1>14. CallsFollow'
    <2>1. platform = "msvc" /\ ~l.timeout => t \in called
      BY <1>3, <1>6 DEF Sound, CallsFollow
    <2>2. sem_gate' = 0 => sem_gate = 0
      BY <1>6
    <2> QED
      BY <1>5, <1>6, <1>7, <2>1, <2>2 DEF Sound, CallsFollow, NotYet
  <1> QED
    BY <1>9, <1>10, <1>11, <1>12, <1>13, <1>14 DEF Sound

\* Between batches, whoever stops waiting has timed out.
LEMMA GoneTimedOut ==
  ASSUME Sound, NEW t \in Threads, pc[t] = "monitor", cond.to_unblock = 0
  PROVE  local[t].timeout /\ \A u \in Threads : pc[u] # "drain"
  <1>1. CondTyped
    BY DEF Sound
  <1>2. Cardinality(Taken) \in Nat /\ Unposted \in Nat /\ Cardinality(Counted) > 0
        /\ (~local[t].timeout => Cardinality(Taken) > 0)
    <2>1. IsFiniteSet(Taken) /\ IsFiniteSet(Counted) /\ IsFiniteSet(At("post"))
      BY CondAssumption, FS_Subset DEF Taken, Counted, At
    <2>2. Cardinality(Taken) \in Nat /\ Cardinality(Counted) \in Nat
      BY <2>1, FS_CardinalityType
    <2>3. t \in Counted /\ (~local[t].timeout => t \in Taken)
      BY DEF Counted, Taken, At
    <2>4. Cardinality(Counted) # 0 /\ (~local[t].timeout => Cardinality(Taken) # 0)
      BY <2>1, <2>3, FS_EmptySet
    <2>5. Unposted \in Nat
      <3> DEFINE n == [u \in Threads |-> local[u].nsignal]
      <3>1. \A u \in At("post") : n[u] \in Int
        BY <1>1 DEF CondTyped, Locals, At
      <3> HIDE DEF n
      <3>2. IsFiniteSet(Tokens(At("post"), n))
        BY <2>1, <3>1, TokensFinite
      <3> QED
        BY <3>2, FS_CardinalityType DEF Unposted, n
    <2> QED
      BY <2>2, <2>4, <2>5
  <1>3. \A u \in Threads : pc[u] # "drain"
    BY <1>1, <1>2 DEF Sound, GateShut, WaitersCounted, CondTyped
  <1>4. Draining = 0
    BY <1>3, NothingToDrain
  <1>5. ~local[t].timeout => FALSE
    BY <1>1, <1>2, <1>4 DEF Sound, TokensCounted, CondTyped
  <1> QED
    BY <1>3, <1>5

LEMMA GoneKeeps ==
  ASSUME Sound, NEW t \in Threads, Gone(t), platform' = platform
  PROVE  Sound'
  <1>1. CondTyped
    BY DEF Sound
  <1>2. /\ pc[t] = "monitor" /\ monitor = NULL /\ cond.to_unblock = 0
        /\ cond' = [cond EXCEPT !.gone = cond.gone + 1]
        /\ UNCHANGED <<ret, local, sem_queue, sem_gate, sleepers, clock, called>>
    BY DEF Gone, Staying, history
  <1>3. PICK p \in {"relock", "fold"} :
          /\ Moves(t, p, local[t]) /\ local[t] \in Locals
          /\ monitor' = IF p = "fold" THEN t ELSE NULL
    BY <1>1, <1>2, LocalsStay DEF Gone, Goto, Moves
  <1>4. /\ pc' \in [Threads -> Places] /\ local' \in [Threads -> Locals]
        /\ Numbers(t, p, local[t])
        /\ pc'[t] = p /\ local'[t] = local[t]
        /\ \A u \in Threads \ {t} : pc'[u] = pc[u] /\ local'[u] = local[u]
    <2>1. p \in Places
      BY <1>3 DEF Places
    <2> QED
      BY <1>1, <1>3, <2>1, Moved
  <1>5. local[t].timeout /\ \A u \in Threads : pc[u] # "drain"
    BY <1>2, GoneTimedOut
  <1>6. /\ cond' \in [blocked : Nat, gone : Nat, to_unblock : Nat]
        /\ cond'.blocked = cond.blocked /\ cond'.gone = cond.gone + 1
        /\ cond'.to_unblock = 0
        /\ cond.blocked \in Nat /\ cond.gone \in Nat /\ sem_queue \in Nat
    BY <1>1, <1>2 DEF CondTyped
  <1>7. CondTyped'
    <2>1. At("sleep")' = At("sleep")
      BY <1>2, <1>3, <1>4 DEF At
    <2> QED
      BY <1>1, <1>2, <1>4, <1>6, <2>1 DEF CondTyped
  <1>8. MonitorHeld'
    <2>1. \A u \in Threads : pc[u] \notin {"gate", "fold"}
      BY <1>2, CondAssumption DEF Sound, MonitorHeld
    <2> QED
      BY <1>3, <1>4, <1>6, <2>1 DEF MonitorHeld
  <1>9. GateShut'
    BY <1>3, <1>4, <1>5, <1>6 DEF GateShut
  <1>10. WaitersCounted'
    <2>1. Cardinality(Counted') + 1 = Cardinality(Counted) /\ Cardinality(Counted') \in Nat
      BY <1>2, <1>3, <1>4 DEF Numbers, InWait
    <2> QED
      BY <1>2, <1>6, <2>1 DEF Sound, WaitersCounted
  <1>11. TokensCounted'
    <2>1. /\ Unposted' = Unposted /\ Draining' = Draining
          /\ Cardinality(Taken') = Cardinality(Taken)
      BY <1>2, <1>3, <1>4, <1>5 DEF Numbers
    <2> QED
      BY <1>2, <1>6, <2>1 DEF Sound, TokensCounted
  <1>12. CallsFollow'
    BY <1>2, <1>3, <1>4, <1>5 DEF Sound, CallsFollow, NotYet
  <1> QED
    BY <1>7, <1>8, <1>9, <1>10, <1>11, <1>12 DEF Sound

LEMMA FoldKeeps ==
  ASSUME Sound, NEW t \in Threads, Fold(t), platform' = platform
  PROVE  Sound'
  <1>1. CondTyped
    BY DEF Sound
  <1>2. /\ pc[t] = "fold" /\ sem_gate = 1 /\ monitor' = NULL
        /\ cond' = Folded(cond)
        /\ UNCHANGED <<ret, local, sem_queue, sem_gate, sleepers, clock, called>>
    BY DEF Fold, Staying, history
  <1>3. Moves(t, "relock", local[t]) /\ local[t] \in Locals /\ "relock" \in Places
    BY <1>1, <1>2, LocalsStay DEF Fold, Goto, Moves, Places
  <1>4. /\ pc' \in [Threads -> Places] /\ local' \in [Threads -> Locals]
        /\ Numbers(t, "relock", local[t])
        /\ pc'[t] = "relock" /\ local'[t] = local[t]
        /\ \A u \in Threads \ {t} : pc'[u] = pc[u] /\ local'[u] = local[u]
    BY <1>1, <1>3, Moved
  <1>5. monitor = t /\ cond.to_unblock = 0 /\ \A u \in Threads : pc[u] # "drain"
    BY <1>2 DEF Sound, MonitorHeld, GateShut
  <1>6. /\ Cardinality(Counted') = Cardinality(Counted) /\ Cardinality(Counted) \in Nat
        /\ Unposted' = Unposted /\ Draining' = Draining
        /\ Cardinality(Taken') = Cardinality(Taken)
    BY <1>2, <1>4 DEF Numbers, InWait
  <1>7. /\ cond' \in [blocked : Nat, gone : Nat, to_unblock : Nat]
        /\ cond'.blocked = cond.blocked - cond.gone /\ cond'.gone = 0
        /\ cond'.to_unblock = 0
        /\ cond.blocked \in Nat /\ cond.gone \in Nat /\ sem_queue \in Nat
    <2>1. cond.blocked - cond.gone = Cardinality(Counted)
      BY <1>1, <1>5 DEF Sound, WaitersCounted, CondTyped
    <2> QED
      BY <1>1, <1>2, <1>5, <1>6, <2>1 DEF CondTyped, Folded
  <1>8. CondTyped'
    <2>1. At("sleep")' = At("sleep")
      BY <1>2, <1>4 DEF At
    <2> QED
      BY <1>1, <1>2, <1>4, <1>7, <2>1 DEF CondTyped
  <1>9. MonitorHeld'
    <2>1. \A u \in Threads \ {t} : pc[u] \notin {"gate", "fold"}
      BY <1>5 DEF Sound, MonitorHeld
    <2> QED
      BY <1>4, <2>1 DEF MonitorHeld
  <1>10. GateShut'
    BY <1>4, <1>5, <1>7 DEF GateShut
  <1>11. WaitersCounted' /\ TokensCounted'
    BY <1>2, <1>5, <1>6, <1>7 DEF Sound, WaitersCounted, TokensCounted
  <1>12. CallsFollow'
    BY <1>2, <1>4 DEF Sound, CallsFollow, NotYet
  <1> QED
    BY <1>8, <1>9, <1>10, <1>11, <1>12 DEF Sound

LEMMA DrainKeeps ==
  ASSUME Sound, NEW t \in Threads, Drain(t), platform' = platform
  PROVE  Sound'
  <1>1. CondTyped
    BY DEF Sound
  <1>2. /\ pc[t] = "drain"
        /\ UNCHANGED <<ret, cond, monitor, sleepers, clock, called>>
    BY DEF Drain, Staying, history
  <1>3. PICK p \in {"relock", "drain"}, l \in Locals :
          /\ Moves(t, p, l) /\ l.timeout = local[t].timeout
          /\ \/ /\ p = "drain" /\ UNCHANGED sem_gate
                /\ sem_queue > 0 /\ sem_queue' = sem_queue - 1
                /\ l.ngone + 1 = local[t].ngone
             \/ /\ p = "relock" /\ sem_gate' = 1
                /\ UNCHANGED sem_queue /\ local[t].ngone = 0
    <2>1. CASE /\ local[t].ngone > 0 /\ sem_queue > 0
               /\ sem_queue' = sem_queue - 1
               /\ local' = [local EXCEPT ![t].ngone = @ - 1]
               /\ UNCHANGED <<pc, sem_gate>>
      <3> DEFINE l == [local[t] EXCEPT !.ngone = @ - 1]
      <3>1. Moves(t, "drain", l) /\ l \in Locals
            /\ l.timeout = local[t].timeout /\ l.ngone + 1 = local[t].ngone
        BY <1>1, <1>2, <2>1 DEF Moves, CondTyped, Locals
      <3> HIDE DEF l
      <3> QED
        BY <2>1, <3>1
    <2>2. CASE /\ local[t].ngone = 0 /\ sem_gate' = 1
               /\ pc' = [pc EXCEPT ![t] = "relock"]
               /\ UNCHANGED <<local, sem_queue>>
      <3>1. Moves(t, "relock", local[t]) /\ local[t] \in Locals
        BY <1>1, <2>2, LocalsStay DEF Moves
      <3> QED
        BY <2>2, <3>1
    <2> QED
      BY <2>1, <2>2 DEF Drain, Goto
  <1>4. /\ pc' \in [Threads -> Places] /\ local' \in [Threads -> Locals]
        /\ Numbers(t, p, l)
        /\ pc'[t] = p /\ local'[t] = l
        /\ \A u \in Threads \ {t} : pc'[u] = pc[u] /\ local'[u] = local[u]
    <2>1. p \in Places
      BY <1>3 DEF Places
    <2> QED
      BY <1>1, <1>3, <2>1, Moved
  <1>5. /\ sem_gate = 0 /\ cond.to_unblock = 0 /\ cond.blocked = 0 /\ cond.gone = 0
        /\ \A u \in Threads \ {t} : pc[u] # "drain"
    BY <1>2 DEF Sound, GateShut
  <1>6. /\ Cardinality(Counted') = Cardinality(Counted)
        /\ Unposted' = Unposted /\ Cardinality(Taken') = Cardinality(Taken)
        /\ Unposted \in Nat /\ Cardinality(Taken) \in Nat
    BY <1>2, <1>3, <1>4 DEF Numbers, InWait
  <1>7. CondTyped'
    <2>1. At("sleep")' = At("sleep")
      BY <1>2, <1>3, <1>4 DEF At
    <2>2. sem_queue' \in Nat /\ sem_gate' \in {0, 1}
      BY <1>1, <1>3 DEF CondTyped
    <2> QED
      BY <1>1, <1>2, <1>4, <2>1, <2>2 DEF CondTyped
  <1>8. MonitorHeld'
    BY <1>2, <1>3, <1>4 DEF Sound, MonitorHeld
  <1>9. GateShut'
    BY <1>2, <1>3, <1>4, <1>5 DEF GateShut
  <1>10. WaitersCounted'
    BY <1>2, <1>6 DEF Sound, WaitersCounted
  <1>11. TokensCounted'
    <2>1. /\ sem_queue \in Nat /\ sem_queue' \in Nat
          /\ local[t].ngone \in Nat /\ l.ngone \in Nat
      BY <1>1, <1>7 DEF CondTyped, Locals
    <2>2. Draining \in Nat /\ Draining' \in Nat
          /\ sem_queue' + Draining = sem_queue + Draining'
      <3>1. PICK d \in Nat, e \in Nat : d = Draining /\ e = Draining'
        BY <1>4 DEF Numbers
      <3>2. PICK m \in Nat, n \in Nat : m = local[t].ngone /\ n = l.ngone
        BY <2>1
      <3>3. CASE p = "drain"
        <4>1. sem_queue' = sem_queue - 1 /\ n + 1 = m
          BY <1>3, <3>2, <3>3
        <4>2. e + m = d + n
          BY <1>2, <1>4, <3>1, <3>2, <3>3 DEF Numbers
        <4>3. sem_queue' + d = sem_queue + e
          BY <2>1, <4>1, <4>2
        <4> QED
          BY <3>1, <4>3
      <3>4. CASE p = "relock"
        <4>1. sem_queue' = sem_queue /\ m = 0
          BY <1>3, <3>2, <3>4
        <4>2. e + m = d
          BY <1>2, <1>4, <3>1, <3>2, <3>4 DEF Numbers
        <4>3. sem_queue' + d = sem_queue + e
          BY <2>1, <4>1, <4>2
        <4> QED
          BY <3>1, <4>3
      <3> QED
        BY <1>3, <3>3, <3>4
    <2>3. sem_queue + Unposted + Cardinality(Taken) = Draining
      BY <1>5, <1>6, <2>1, <2>2 DEF Sound, TokensCounted
    <2>4. sem_queue' + Unposted + Cardinality(Taken) = Draining'
      BY <1>6, <2>1, <2>2, <2>3
    <2> QED
      BY <1>2, <1>5, <1>6, <2>2, <2>4 DEF TokensCounted
  <1>12. CallsFollow'
    <2>1. sem_gate' = 0 => sem_gate = 0
      BY <1>5
    <2> QED
      BY <1>2, <1>3, <1>4, <2>1 DEF Sound, CallsFollow, NotYet
  <1> QED
    BY <1>7, <1>8, <1>9, <1>10, <1>11, <1>12 DEF Sound

-----------------------------------------------------------------------------
(* The steps of impl_cond_do_signal.                                       *)

LEMMA CallAdds ==
  ASSUME NEW op, Call(op)
  PROVE  called \subseteq called' /\ Waiting \subseteq called'
  BY DEF Call

\* Other threads may be waiting for the gate only while the monitor is held.
LEMMA MonitorFree ==
  ASSUME Sound, monitor = NULL
  PROVE  \A t \in Threads : pc[t] \notin {"gate", "fold"}
  BY CondAssumption DEF Sound, MonitorHeld

LEMMA SignalMoreKeeps ==
  ASSUME Sound, NEW t \in Threads, SignalMore(t), platform' = platform
  PROVE  Sound'
  <1>1. CondTyped
    BY DEF Sound
  <1>2. /\ pc[t] = "idle" /\ monitor = NULL /\ cond.to_unblock # 0
        /\ called \subseteq called'
        /\ UNCHANGED <<sem_queue, sem_gate, monitor, sleepers, clock>>
    BY CallAdds DEF SignalMore, Signals, Calls
  <1>3. CASE cond.blocked = 0
    <2>1. Return(t, "success") /\ UNCHANGED cond
      BY <1>3 DEF SignalMore
    <2>2. /\ Moves(t, "idle", NoLocals) /\ NoLocals \in Locals
          /\ ret' \in [Threads -> {"none", "success", "busy", "error"}]
      BY <1>1, <2>1, ReturnMoves
    <2>3. ~NoLocals.timeout /\ "idle" \in Places /\ clock' \in Nat
      BY <1>1, <1>2 DEF NoLocals, Places, CondTyped
    <2> QED
      BY <1>2, <2>1, <2>2, <2>3, Quiet
  <1>4. CASE cond.blocked # 0
    <2>1. PICK n : n = Released(cond, Head(todo[t]) = "broadcast")
      OBVIOUS
    <2>2. n \in Nat /\ n > 0 /\ n <= cond.blocked
      BY <1>1, <1>4, <2>1 DEF Released, CondTyped
    <2>3. /\ cond' = [cond EXCEPT !.to_unblock = @ + n, !.blocked = @ - n]
          /\ local' = [local EXCEPT ![t].nsignal = n]
          /\ pc' = [pc EXCEPT ![t] = "post"]
          /\ UNCHANGED ret
      BY <1>4, <2>1 DEF SignalMore, Goto
    <2> DEFINE l == [local[t] EXCEPT !.nsignal = n]
    <2>4. Moves(t, "post", l) /\ l \in Locals /\ l.nsignal = n
          /\ l.timeout = local[t].timeout /\ "post" \in Places
      BY <1>1, <2>2, <2>3 DEF Moves, CondTyped, Locals, Places
    <2> HIDE DEF l
    <2>5. /\ pc' \in [Threads -> Places] /\ local' \in [Threads -> Locals]
          /\ Numbers(t, "post", l)
          /\ pc'[t] = "post" /\ local'[t] = l
          /\ \A u \in Threads \ {t} : pc'[u] = pc[u] /\ local'[u] = local[u]
      BY <1>1, <2>4, Moved
    <2>6. /\ cond' \in [blocked : Nat, gone : Nat, to_unblock : Nat]
          /\ cond'.blocked = cond.blocked - n /\ cond'.gone = cond.gone
          /\ cond'.to_unblock = cond.to_unblock + n
          /\ cond.blocked \in Nat /\ cond.gone \in Nat /\ cond.to_unblock \in Nat
          /\ sem_queue \in Nat
      <3>1. cond \in [blocked : Nat, gone : Nat, to_unblock : Nat] /\ sem_queue \in Nat
        BY <1>1 DEF CondTyped
      <3>2. cond' = [blocked |-> cond.blocked - n, gone |-> cond.gone,
                     to_unblock |-> cond.to_unblock + n]
        BY <2>3, <3>1
      <3> QED
        BY <2>2, <3>1, <3>2
    <2>7. sem_gate = 0 /\ cond.gone = 0 /\ \A u \in Threads : pc[u] # "drain"
      BY <1>2, <1>4, <2>6 DEF Sound, GateShut
    <2>8. CondTyped'
      <3>1. At("sleep")' = At("sleep")
        BY <1>2, <2>5 DEF At
      <3> QED
        BY <1>1, <1>2, <2>3, <2>5, <2>6, <3>1 DEF CondTyped
    <2>9. MonitorHeld'
      BY <1>2, <2>5, MonitorFree DEF MonitorHeld
    <2>10. GateShut'
      BY <1>2, <2>5, <2>6, <2>7 DEF GateShut
    <2>11. /\ Cardinality(Counted') = Cardinality(Counted)
           /\ Cardinality(Taken') = Cardinality(Taken) /\ Draining' = Draining
           /\ Unposted' = Unposted + n
           /\ Cardinality(Counted) \in Nat /\ Cardinality(Taken) \in Nat
           /\ Unposted \in Nat /\ Draining \in Nat
      BY <1>2, <2>4, <2>5 DEF Numbers, InWait
    <2>12. WaitersCounted' /\ TokensCounted'
      BY <1>2, <2>2, <2>6, <2>7, <2>11 DEF Sound, WaitersCounted, TokensCounted
    <2>13. CallsFollow'
      BY <1>2, <2>4, <2>5 DEF Sound, CallsFollow, NotYet
    <2> QED
      BY <2>8, <2>9, <2>10, <2>12, <2>13 DEF Sound
  <1> QED
    BY <1>3, <1>4

LEMMA SignalFirstKeeps ==
  ASSUME Sound, NEW t \in Threads, SignalFirst(t), platform' = platform
  PROVE  Sound'
  <1>1. CondTyped
    BY DEF Sound
  <1>2. /\ pc[t] = "idle" /\ monitor = NULL /\ cond.to_unblock = 0
        /\ UNCHANGED <<cond, sem_queue, sem_gate, sleepers, clock>>
    BY DEF SignalFirst, Signals, Calls
  <1>3. CASE cond.blocked <= cond.gone /\ Return(t, "success") /\ UNCHANGED monitor
             /\ Call(Head(todo[t]))
    <2>1. /\ Moves(t, "idle", NoLocals) /\ NoLocals \in Locals
          /\ ret' \in [Threads -> {"none", "success", "busy", "error"}]
      BY <1>1, <1>3, ReturnMoves
    <2>2. ~NoLocals.timeout /\ "idle" \in Places /\ clock' \in Nat
      BY <1>1, <1>2 DEF NoLocals, Places, CondTyped
    <2>3. called \subseteq called'
      BY <1>3, CallAdds
    <2> QED
      BY <1>2, <1>3, <2>1, <2>2, <2>3, Quiet
  <1>4. CASE /\ cond.blocked > cond.gone
             /\ monitor' = t
             /\ Goto(t, "gate")
             /\ UNCHANGED <<todo, local, ret, history>>
    <2>1. Moves(t, "gate", local[t]) /\ local[t] \in Locals /\ "gate" \in Places
      BY <1>1, <1>4, LocalsStay DEF Goto, Moves, Places
    <2>2. /\ pc' \in [Threads -> Places] /\ local' \in [Threads -> Locals]
          /\ Numbers(t, "gate", local[t])
          /\ pc'[t] = "gate" /\ local'[t] = local[t]
          /\ \A u \in Threads \ {t} : pc'[u] = pc[u] /\ local'[u] = local[u]
      BY <1>1, <2>1, Moved
    <2>3. CondTyped'
      <3>1. At("sleep")' = At("sleep")
        BY <1>2, <2>2 DEF At
      <3> QED
        BY <1>1, <1>2, <1>4, <2>2, <3>1 DEF CondTyped
    <2>4. MonitorHeld'
      <3>1. cond.gone < cond.blocked
        BY <1>1, <1>4 DEF CondTyped
      <3> QED
        BY <1>2, <1>4, <2>2, <3>1, MonitorFree DEF MonitorHeld
    <2>5. GateShut'
      BY <1>2, <2>2 DEF Sound, GateShut
    <2>6. WaitersCounted' /\ TokensCounted'
      BY <1>2, <2>2 DEF Sound, WaitersCounted, TokensCounted, Numbers, InWait
    <2>7. CallsFollow'
      BY <1>2, <1>4, <2>2 DEF Sound, CallsFollow, NotYet, history
    <2> QED
      BY <2>3, <2>4, <2>5, <2>6, <2>7 DEF Sound
  <1> QED
    BY <1>3, <1>4 DEF SignalFirst

LEMMA CloseGateKeeps ==
  ASSUME Sound, NEW t \in Threads, CloseGate(t), platform' = platform
  PROVE  Sound'
  <1>1. CondTyped
    BY DEF Sound
  <1>2. /\ pc[t] = "gate" /\ sem_gate = 1 /\ sem_gate' = 0 /\ monitor' = NULL
        /\ called \subseteq called' /\ Waiting \subseteq called'
        /\ UNCHANGED <<ret, sem_queue, sleepers, clock>>
    BY CallAdds DEF CloseGate, Staying
  <1>3. /\ monitor = t /\ cond.to_unblock = 0 /\ cond.gone < cond.blocked
        /\ \A u \in Threads \ {t} : pc[u] \notin {"gate", "fold"}
        /\ \A u \in Threads : pc[u] # "drain"
    BY <1>2 DEF Sound, MonitorHeld, GateShut
  <1>4. PICK c : c = Folded(cond)
    OBVIOUS
  <1>5. PICK n : n = Released(c, Head(todo[t]) = "broadcast")
    OBVIOUS
  <1>6. /\ c \in [blocked : Nat, gone : Nat, to_unblock : Nat]
        /\ c.blocked = cond.blocked - cond.gone /\ c.blocked > 0
        /\ c.gone = 0 /\ c.to_unblock = 0
        /\ cond.blocked \in Nat /\ cond.gone \in Nat /\ sem_queue \in Nat
    <2>1. cond \in [blocked : Nat, gone : Nat, to_unblock : Nat] /\ sem_queue \in Nat
      BY <1>1 DEF CondTyped
    <2>2. c = [blocked |-> cond.blocked - cond.gone, gone |-> 0,
               to_unblock |-> cond.to_unblock]
      BY <1>4, <2>1 DEF Folded
    <2> QED
      BY <1>3, <2>1, <2>2
  <1>7. n \in Nat /\ n > 0 /\ n <= c.blocked
    BY <1>5, <1>6 DEF Released
  <1>8. /\ cond' = [c EXCEPT !.to_unblock = n, !.blocked = @ - n]
        /\ local' = [local EXCEPT ![t].nsignal = n]
        /\ pc' = [pc EXCEPT ![t] = "post"]
    BY <1>4, <1>5 DEF CloseGate, Goto
  <1> DEFINE l == [local[t] EXCEPT !.nsignal = n]
  <1>9. Moves(t, "post", l) /\ l \in Locals /\ l.nsignal = n
        /\ l.timeout = local[t].timeout /\ "post" \in Places
    BY <1>1, <1>7, <1>8 DEF Moves, CondTyped, Locals, Places
  <1> HIDE DEF l
  <1>10. /\ pc' \in [Threads -> Places] /\ local' \in [Threads -> Locals]
         /\ Numbers(t, "post", l)
         /\ pc'[t] = "post" /\ local'[t] = l
         /\ \A u \in Threads \ {t} : pc'[u] = pc[u] /\ local'[u] = local[u]
    BY <1>1, <1>9, Moved
  <1>11. /\ cond' \in [blocked : Nat, gone : Nat, to_unblock : Nat]
         /\ cond'.blocked = cond.blocked - cond.gone - n /\ cond'.gone = 0
         /\ cond'.to_unblock = n
    <2>1. cond' = [blocked |-> c.blocked - n, gone |-> c.gone, to_unblock |-> n]
      BY <1>6, <1>8
    <2> QED
      BY <1>6, <1>7, <2>1
  <1>12. CondTyped'
    <2>1. At("sleep")' = At("sleep")
      BY <1>2, <1>10 DEF At
    <2> QED
      BY <1>1, <1>2, <1>10, <1>11, <2>1 DEF CondTyped
  <1>13. MonitorHeld'
    BY <1>3, <1>10 DEF MonitorHeld
  <1>14. GateShut'
    BY <1>2, <1>3, <1>10, <1>11 DEF GateShut
  <1>15. /\ Cardinality(Counted') = Cardinality(Counted)
         /\ Cardinality(Taken') = Cardinality(Taken) /\ Draining' = Draining
         /\ Unposted' = Unposted + n
         /\ Cardinality(Counted) \in Nat /\ Cardinality(Taken) \in Nat
         /\ Unposted \in Nat /\ Draining \in Nat
    BY <1>2, <1>9, <1>10 DEF Numbers, InWait
  <1>16. WaitersCounted' /\ TokensCounted'
    BY <1>2, <1>3, <1>6, <1>7, <1>11, <1>15 DEF Sound, WaitersCounted, TokensCounted
  <1>17. CallsFollow'
    BY <1>2, <1>9, <1>10 DEF Sound, CallsFollow, NotYet, Waiting
  <1> QED
    BY <1>12, <1>13, <1>14, <1>16, <1>17 DEF Sound

LEMMA PostKeeps ==
  ASSUME Sound, NEW t \in Threads, Post(t), platform' = platform
  PROVE  Sound'
  <1>1. CondTyped
    BY DEF Sound
  <1>2. /\ pc[t] = "post"
        /\ UNCHANGED <<cond, sem_gate, monitor, sleepers, clock, called>>
    BY DEF Post, history
  <1>3. /\ Moves(t, "idle", NoLocals) /\ NoLocals \in Locals /\ "idle" \in Places
        /\ ret' \in [Threads -> {"none", "success", "busy", "error"}]
    BY <1>1, ReturnMoves DEF Post, Places
  <1>4. /\ pc' \in [Threads -> Places] /\ local' \in [Threads -> Locals]
        /\ Numbers(t, "idle", NoLocals)
        /\ pc'[t] = "idle" /\ local'[t] = NoLocals
        /\ \A u \in Threads \ {t} : pc'[u] = pc[u] /\ local'[u] = local[u]
    BY <1>1, <1>3, Moved
  <1>5. /\ sem_queue' = sem_queue + local[t].nsignal
        /\ sem_queue \in Nat /\ local[t].nsignal \in Nat
    BY <1>1 DEF Post, CondTyped, Locals
  <1>6. CondTyped'
    <2>1. At("sleep")' = At("sleep")
      BY <1>2, <1>4 DEF At
    <2>2. sem_queue' \in Nat
      BY <1>5
    <2> QED
      BY <1>1, <1>2, <1>3, <1>4, <2>1, <2>2 DEF CondTyped
  <1>7. MonitorHeld' /\ GateShut'
    BY <1>2, <1>4 DEF Sound, MonitorHeld, GateShut
  <1>8. /\ Cardinality(Counted') = Cardinality(Counted)
        /\ Cardinality(Taken') = Cardinality(Taken) /\ Draining' = Draining
        /\ Unposted' + local[t].nsignal = Unposted
        /\ Cardinality(Taken) \in Nat /\ Unposted \in Nat /\ Unposted' \in Nat
    BY <1>2, <1>4 DEF Numbers, InWait
  <1>9. WaitersCounted'
    BY <1>2, <1>8 DEF Sound, WaitersCounted
  <1>10. TokensCounted'
    <2>1. sem_queue' + Unposted' = sem_queue + Unposted
      BY <1>5, <1>8
    <2> QED
      BY <1>2, <1>5, <1>8, <2>1 DEF Sound, TokensCounted
  <1>11. CallsFollow'
    <2>1. ~NoLocals.timeout
      BY DEF NoLocals
    <2> QED
      BY <1>2, <1>4, <2>1 DEF Sound, CallsFollow, NotYet
  <1> QED
    BY <1>6, <1>7, <1>9, <1>10, <1>11 DEF Sound

-----------------------------------------------------------------------------
(* The steps of POSIX, which leaves the counters alone.                    *)

\* Nobody comes to a counted place, or leaves one.
LEMMA NothingCounted ==
  ASSUME Sound, UNCHANGED <<local, cond, sem_queue, sem_gate, monitor>>,
         \A u \in Threads : pc'[u] = pc[u] \/ (pc[u] = "sleep" /\ pc'[u] = "relock")
  PROVE  MonitorHeld' /\ GateShut' /\ WaitersCounted' /\ TokensCounted'
  <1>1. /\ At("post")' = At("post") /\ At("drain")' = At("drain")
        /\ Taken' = Taken /\ Counted' = Counted
    BY DEF At, Taken, Counted
  <1>2. Unposted' = Unposted /\ Draining' = Draining
    BY <1>1 DEF Unposted, Draining
  <1> QED
    BY <1>1, <1>2
       DEF Sound, MonitorHeld, GateShut, WaitersCounted, TokensCounted

LEMMA PosixWaitKeeps ==
  ASSUME Sound, NEW t \in Threads, PosixWait(t), platform' = platform
  PROVE  Sound'
  <1>1. CondTyped
    BY DEF Sound
  <1>2. /\ pc[t] = "idle" /\ sleepers' = sleepers \union {t} /\ called' = called \ {t}
        /\ platform = "posix"
        /\ UNCHANGED <<ret, local, cond, sem_queue, sem_gate, monitor, clock>>
    BY DEF PosixWait, Calls, Staying, Forget
  <1>3. Moves(t, "sleep", local[t]) /\ local[t] \in Locals /\ "sleep" \in Places
    BY <1>1, <1>2, LocalsStay DEF PosixWait, Goto, Moves, Places
  <1>4. /\ pc' \in [Threads -> Places] /\ local' \in [Threads -> Locals]
        /\ Numbers(t, "sleep", local[t])
        /\ pc'[t] = "sleep" /\ local'[t] = local[t]
        /\ \A u \in Threads \ {t} : pc'[u] = pc[u] /\ local'[u] = local[u]
    BY <1>1, <1>3, Moved
  <1>5. CondTyped'
    <2>1. sleepers' = At("sleep")'
      BY <1>1, <1>2, <1>4 DEF CondTyped, At
    <2> QED
      BY <1>1, <1>2, <1>4, <2>1 DEF CondTyped
  <1>6. MonitorHeld' /\ GateShut'
    BY <1>2, <1>4 DEF Sound, MonitorHeld, GateShut
  <1>7. WaitersCounted' /\ TokensCounted'
    BY <1>2, <1>4 DEF Sound, WaitersCounted, TokensCounted, Numbers, InWait
  <1>8. CallsFollow'
    BY <1>2, <1>4 DEF Sound, CallsFollow, NotYet
  <1> QED
    BY <1>5, <1>6, <1>7, <1>8 DEF Sound

LEMMA PosixTimeoutKeeps ==
  ASSUME Sound, NEW t \in Threads, PosixTimeout(t), platform' = platform
  PROVE  Sound'
  <1>1. CondTyped
    BY DEF Sound
  <1>2. /\ pc[t] = "sleep" /\ sleepers' = sleepers \ {t}
        /\ UNCHANGED <<ret, cond, sem_queue, sem_gate, monitor, clock, called>>
    BY <1>1 DEF PosixTimeout, Staying, history, CondTyped, At
  <1> DEFINE l == [local[t] EXCEPT !.timeout = TRUE]
  <1>3. Moves(t, "relock", l) /\ l \in Locals /\ l.timeout /\ "relock" \in Places
    BY <1>1 DEF PosixTimeout, Goto, Moves, CondTyped, Locals, Places
  <1> HIDE DEF l
  <1>4. /\ pc' \in [Threads -> Places] /\ local' \in [Threads -> Locals]
        /\ Numbers(t, "relock", l)
        /\ pc'[t] = "relock" /\ local'[t] = l
        /\ \A u \in Threads \ {t} : pc'[u] = pc[u] /\ local'[u] = local[u]
    BY <1>1, <1>3, Moved
  <1>5. CondTyped'
    <2>1. sleepers' = At("sleep")'
      BY <1>1, <1>2, <1>4 DEF CondTyped, At
    <2> QED
      BY <1>1, <1>2, <1>4, <2>1 DEF CondTyped
  <1>6. MonitorHeld' /\ GateShut'
    BY <1>2, <1>4 DEF Sound, MonitorHeld, GateShut
  <1>7. WaitersCounted' /\ TokensCounted'
    BY <1>2, <1>4 DEF Sound, WaitersCounted, TokensCounted, Numbers, InWait
  <1>8. CallsFollow'
    BY <1>2, <1>3, <1>4 DEF Sound, CallsFollow, NotYet
  <1> QED
    BY <1>5, <1>6, <1>7, <1>8 DEF Sound

\* On POSIX a wait may end for no reason.
LEMMA PosixWakeKeeps ==
  ASSUME Sound, NEW t \in Threads, PosixWake(t), platform' = platform
  PROVE  Sound'
  <1>1. CondTyped
    BY DEF Sound
  <1>2. /\ pc[t] = "sleep" /\ sleepers' = sleepers \ {t} /\ platform # "msvc"
        /\ UNCHANGED <<ret, cond, sem_queue, sem_gate, monitor, clock, called>>
    BY <1>1 DEF PosixWake, Staying, history, CondTyped, At
  <1>3. Moves(t, "relock", local[t]) /\ local[t] \in Locals /\ "relock" \in Places
    BY <1>1, LocalsStay DEF PosixWake, Goto, Moves, Places
  <1>4. /\ pc' \in [Threads -> Places] /\ local' \in [Threads -> Locals]
        /\ Numbers(t, "relock", local[t])
        /\ pc'[t] = "relock" /\ local'[t] = local[t]
        /\ \A u \in Threads \ {t} : pc'[u] = pc[u] /\ local'[u] = local[u]
    BY <1>1, <1>3, Moved
  <1>5. CondTyped'
    <2>1. sleepers' = At("sleep")'
      BY <1>1, <1>2, <1>4 DEF CondTyped, At
    <2> QED
      BY <1>1, <1>2, <1>4, <2>1 DEF CondTyped
  <1>6. MonitorHeld' /\ GateShut'
    BY <1>2, <1>4 DEF Sound, MonitorHeld, GateShut
  <1>7. WaitersCounted' /\ TokensCounted'
    BY <1>2, <1>4 DEF Sound, WaitersCounted, TokensCounted, Numbers, InWait
  <1>8. CallsFollow'
    BY <1>2, <1>4 DEF Sound, CallsFollow, NotYet
  <1> QED
    BY <1>5, <1>6, <1>7, <1>8 DEF Sound

LEMMA PosixSignalKeeps ==
  ASSUME Sound, NEW t \in Threads, PosixSignal(t), platform' = platform
  PROVE  Sound'
  <1>1. CondTyped
    BY DEF Sound
  <1>2. PICK woken \in SUBSET sleepers :
          /\ sleepers' = sleepers \ woken
          /\ pc' = [u \in Threads |-> IF u \in woken THEN "relock" ELSE pc[u]]
    BY DEF PosixSignal
  <1>3. /\ ret' = [ret EXCEPT ![t] = "success"]
        /\ called \subseteq called' /\ Waiting \subseteq called'
        /\ UNCHANGED <<local, cond, sem_queue, sem_gate, monitor, clock>>
    BY CallAdds DEF PosixSignal
  <1>4. \A u \in Threads : /\ u \notin woken => pc'[u] = pc[u]
                           /\ u \in woken => pc[u] = "sleep" /\ pc'[u] = "relock"
    <2>1. \A u \in woken : pc[u] = "sleep"
      BY <1>1 DEF CondTyped, At
    <2>2. \A u \in Threads : /\ u \in woken => pc'[u] = "relock"
                             /\ u \notin woken => pc'[u] = pc[u]
      BY <1>2
    <2> QED
      BY <2>1, <2>2
  <1>5. CondTyped'
    <2>1. sleepers' = At("sleep")'
      BY <1>1, <1>2, <1>4 DEF CondTyped, At
    <2>2. pc' \in [Threads -> Places]
      BY <1>1, <1>2 DEF CondTyped, Places
    <2> QED
      BY <1>1, <1>2, <1>3, <2>1, <2>2 DEF CondTyped
  <1>6. MonitorHeld' /\ GateShut' /\ WaitersCounted' /\ TokensCounted'
    BY <1>3, <1>4, NothingCounted
  <1>7. CallsFollow'
    <2>1. \A u \in woken : u \in called'
      BY <1>2, <1>3 DEF Waiting
    <2> QED
      BY <1>3, <1>4, <2>1 DEF Sound, CallsFollow, NotYet
  <1> QED
    BY <1>5, <1>6, <1>7 DEF Sound

-----------------------------------------------------------------------------
(* The mutexes, and all steps together.                                    *)

\* Steps that return, with whatever result, and change no counter.
LEMMA ReturnKeeps ==
  ASSUME Sound, NEW t \in Threads, NEW r \in {"none", "success", "busy", "error"},
         Return(t, r), pc[t] \in {"idle", "attempt", "relock"},
         UNCHANGED <<cond, sem_queue, sem_gate, monitor, sleepers, clock, called>>,
         platform' = platform
  PROVE  Sound'
  <1>1. CondTyped
    BY DEF Sound
  <1>2. /\ Moves(t, "idle", NoLocals) /\ NoLocals \in Locals
        /\ ret' \in [Threads -> {"none", "success", "busy", "error"}]
    BY <1>1, ReturnMoves
  <1>3. ~NoLocals.timeout /\ "idle" \in Places /\ clock' \in Nat
    BY <1>1 DEF NoLocals, Places, CondTyped
  <1> QED
    BY <1>2, <1>3, Quiet

LEMMA TimedLockKeeps ==
  ASSUME Sound, NEW t \in Threads, TimedLock(t), platform' = platform
  PROVE  Sound'
  <1>1. CondTyped
    BY DEF Sound
  <1> DEFINE l == [local[t] EXCEPT !.expire = clock]
  <1>2. Moves(t, "attempt", l) /\ l \in Locals /\ l.timeout = local[t].timeout
        /\ "attempt" \in Places
    BY <1>1 DEF TimedLock, Goto, Moves, CondTyped, Locals, Places
  <1> HIDE DEF l
  <1>3. pc[t] = "idle" /\ ~local[t].timeout
    BY DEF TimedLock, Calls, Sound, CallsFollow, NotYet
  <1>4. /\ ret' \in [Threads -> {"none", "success", "busy", "error"}] /\ clock' \in Nat
        /\ UNCHANGED <<cond, sem_queue, sem_gate, monitor, sleepers, called>>
    BY <1>1 DEF TimedLock, Staying, condVars, history, CondTyped
  <1> QED
    BY <1>2, <1>3, <1>4, Quiet

LEMMA LeaveMutexKeeps ==
  ASSUME Sound, NEW t \in Threads, LeaveMutex(t), platform' = platform
  PROVE  Sound'
  <1>1. CondTyped
    BY DEF Sound
  <1>2. Moves(t, "queue", local[t]) /\ local[t] \in Locals /\ "queue" \in Places
    BY <1>1, LocalsStay DEF LeaveMutex, Goto, Moves, Places
  <1>3. /\ ret' \in [Threads -> {"none", "success", "busy", "error"}] /\ clock' \in Nat
        /\ pc[t] = "leave"
        /\ UNCHANGED <<cond, sem_queue, sem_gate, monitor, sleepers, called>>
    BY <1>1 DEF LeaveMutex, Staying, history, CondTyped
  <1> QED
    BY <1>2, <1>3, Quiet

LEMMA TickKeeps ==
  ASSUME Sound, Tick, platform' = platform
  PROVE  Sound'
  <1>1. clock' \in Nat
    BY DEF Tick, Sound, CondTyped
  <1>2. /\ UNCHANGED <<pc, local, ret, cond, sem_queue, sem_gate, monitor, sleepers, called>>
    BY DEF Tick, Staying, history
  <1>3. CondTyped'
    BY <1>1, <1>2 DEF Sound, CondTyped, At
  <1>4. MonitorHeld' /\ GateShut' /\ WaitersCounted' /\ TokensCounted'
    BY <1>2, NothingCounted
  <1>5. CallsFollow'
    BY <1>2 DEF Sound, CallsFollow
  <1> QED
    BY <1>3, <1>4, <1>5 DEF Sound

\* A program runs on one platform.
LEMMA StaysOn ==
  ASSUME NEW t \in Threads, ThreadStep(t) \/ SleepEnds(t)
  PROVE  platform' = platform
  <1>1. CASE MutexStep(t)
    BY <1>1 DEF MutexStep, MtxLock, MtxTryLock, MtxUnlock, TimedLock, Attempt, Staying
  <1>2. CASE EnterWait(t) \/ LeaveMutex(t) \/ Dequeue(t) \/ Unblock(t) \/ Gone(t)
    BY <1>2 DEF EnterWait, LeaveMutex, Dequeue, Unblock, Gone, Staying
  <1>3. CASE Fold(t) \/ Drain(t) \/ Relock(t) \/ PosixWait(t) \/ PosixTimedWait(t)
    BY <1>3 DEF Fold, Drain, Relock, PosixWait, PosixTimedWait, Staying
  <1>4. CASE SignalStep(t) \/ SleepEnds(t)
    BY <1>4 DEF SignalStep, SignalMore, SignalFirst, CloseGate, Post, PosixSignal, SleepEnds,
                PosixTimeout, PosixWake, Staying
  <1> QED
    BY <1>1, <1>2, <1>3, <1>4 DEF ThreadStep, WaitStep

LEMMA StepKeeps ==
  ASSUME Sound, NEW t \in Threads, ThreadStep(t) \/ SleepEnds(t), ~raced'
  PROVE  Sound'
  <1>0. platform' = platform
    BY StaysOn
  <1>1. CASE MtxLock(t) \/ MtxTryLock(t) \/ MtxUnlock(t) \/ Attempt(t) \/ Relock(t)
             \/ PosixTimedWait(t)
    <2>1. /\ \E r \in {"none", "success", "busy", "error"} : Return(t, r)
          /\ pc[t] \in {"idle", "attempt", "relock"}
          /\ UNCHANGED <<cond, sem_queue, sem_gate, monitor, sleepers, clock, called>>
      BY <1>1 DEF MtxLock, MtxTryLock, MtxUnlock, Attempt, Relock, PosixTimedWait, Calls,
                  condVars, history
    <2> QED
      BY <1>0, <2>1, ReturnKeeps
  <1>2. CASE TimedLock(t)
    BY <1>0, <1>2, TimedLockKeeps
  <1>3. CASE EnterWait(t)
    BY <1>0, <1>3, EnterWaitKeeps
  <1>4. CASE LeaveMutex(t)
    BY <1>0, <1>4, LeaveMutexKeeps
  <1>5. CASE Dequeue(t)
    BY <1>0, <1>5, DequeueKeeps
  <1>6. CASE Unblock(t)
    BY <1>0, <1>6, UnblockKeeps
  <1>7. CASE Gone(t)
    BY <1>0, <1>7, GoneKeeps
  <1>8. CASE Fold(t)
    BY <1>0, <1>8, FoldKeeps
  <1>9. CASE Drain(t)
    BY <1>0, <1>9, DrainKeeps
  <1>10. CASE SignalMore(t)
    BY <1>0, <1>10, SignalMoreKeeps
  <1>11. CASE SignalFirst(t)
    BY <1>0, <1>11, SignalFirstKeeps
  <1>12. CASE CloseGate(t)
    BY <1>0, <1>12, CloseGateKeeps
  <1>13. CASE Post(t)
    BY <1>0, <1>13, PostKeeps
  <1>14. CASE PosixWait(t)
    BY <1>0, <1>14, PosixWaitKeeps
  <1>15. CASE PosixTimeout(t)
    BY <1>0, <1>15, PosixTimeoutKeeps
  <1>16. CASE PosixSignal(t)
    BY <1>0, <1>16, PosixSignalKeeps
  <1>17. CASE PosixWake(t)
    BY <1>0, <1>17, PosixWakeKeeps
  <1> QED
    BY <1>1, <1>2, <1>3, <1>4, <1>5, <1>6, <1>7, <1>8, <1>9, <1>10, <1>11, <1>12, <1>13,
       <1>14, <1>15, <1>16, <1>17
       DEF ThreadStep, MutexStep, WaitStep, SignalStep, SleepEnds

\* Once a wait has raced with a signal the history remembers it.
LEMMA RacedStays ==
  ASSUME raced, [Next]_vars
  PROVE  raced'
  <1>1. CASE UNCHANGED vars
    BY <1>1 DEF vars, condVars, history
  <1>2. CASE Tick
    BY <1>2 DEF Tick, history
  <1>3. ASSUME NEW t \in Threads, ThreadStep(t) \/ SleepEnds(t) PROVE raced'
    <2>1. CASE Unblock(t)
      BY <2>1 DEF Unblock
    <2>2. CASE EnterWait(t) \/ PosixWait(t)
      BY <2>2 DEF EnterWait, PosixWait, Forget
    <2>3. CASE SignalMore(t) \/ SignalFirst(t) \/ CloseGate(t) \/ PosixSignal(t)
      BY <2>3 DEF SignalMore, SignalFirst, CloseGate, PosixSignal, Call, history
    <2>4. CASE MutexStep(t)
      BY <2>4 DEF MutexStep, MtxLock, MtxTryLock, MtxUnlock, TimedLock, Attempt, condVars,
                  history
    <2>5. CASE \/ LeaveMutex(t) \/ Dequeue(t) \/ Gone(t) \/ Fold(t) \/ Drain(t)
               \/ Relock(t) \/ PosixTimedWait(t) \/ SleepEnds(t) \/ Post(t)
      BY <2>5 DEF LeaveMutex, Dequeue, Gone, Fold, Drain, Relock, PosixTimedWait, SleepEnds,
                  PosixTimeout, PosixWake, Post, condVars, history
    <2> QED
      BY <1>3, <2>1, <2>2, <2>3, <2>4, <2>5 DEF ThreadStep, WaitStep, SignalStep
  <1> QED
    BY <1>1, <1>2, <1>3 DEF Next

LEMMA InitSound == Init => CondInv
  <1> SUFFICES ASSUME Init PROVE Sound
    BY DEF CondInv
  <1>1. CondTyped
    BY DEF Init, CondTyped, Places, Locals, NoLocals, At
  <1>2. MonitorHeld /\ GateShut
    BY DEF Init, MonitorHeld, GateShut
  <1>3. Counted = {} /\ Taken = {} /\ At("post") = {}
    BY DEF Init, Counted, Taken, At
  <1>4. Cardinality(Counted) = 0 /\ Cardinality(Taken) = 0
    BY <1>3, FS_EmptySet
  <1>5. Unposted = 0
    <2>1. Tokens({}, [t \in Threads |-> local[t].nsignal]) = {}
      BY DEF Tokens
    <2> QED
      BY <1>3, <2>1, FS_EmptySet DEF Unposted
  <1>6. Draining = 0
    BY NothingToDrain DEF Init
  <1>7. WaitersCounted /\ TokensCounted
    BY <1>4, <1>5, <1>6 DEF Init, WaitersCounted, TokensCounted
  <1>8. CallsFollow
    BY DEF Init, CallsFollow, NoLocals
  <1> QED
    BY <1>1, <1>2, <1>7, <1>8 DEF Sound

LEMMA NextSound == CondInv /\ [Next]_vars => CondInv'
  <1> SUFFICES ASSUME CondInv, [Next]_vars, ~raced' PROVE Sound'
    BY DEF CondInv
  <1>1. Sound
    BY RacedStays DEF CondInv
  <1>2. CASE UNCHANGED vars
    <2>1. UNCHANGED <<platform, pc, local, ret, cond, sem_queue, sem_gate, monitor, sleepers,
                      clock, called>>
      BY <1>2 DEF vars, condVars, history
    <2>2. CondTyped'
      BY <1>1, <2>1 DEF Sound, CondTyped, At
    <2>3. MonitorHeld' /\ GateShut' /\ WaitersCounted' /\ TokensCounted'
      BY <1>1, <2>1, NothingCounted
    <2>4. CallsFollow'
      BY <1>1, <2>1 DEF Sound, CallsFollow
    <2> QED
      BY <2>2, <2>3, <2>4 DEF Sound
  <1>3. CASE Tick
    BY <1>1, <1>3, TickKeeps DEF Tick, Staying
  <1>4. CASE \E t \in Threads : ThreadStep(t) \/ SleepEnds(t)
    BY <1>1, <1>4, StepKeeps
  <1> QED
    BY <1>2, <1>3, <1>4 DEF Next

LEMMA AlwaysSound == Spec => []CondInv
  BY InitSound, NextSound, PTL DEF Spec

-----------------------------------------------------------------------------
\* The tokens of a batch are as many as the threads that are to be unblocked.
THEOREM TokensAreMatched == Spec => []TokensMatch
  <1>1. CondInv => TokensMatch
    BY DEF CondInv, Sound, TokensCounted, TokensMatch
  <1> QED
    BY <1>1, AlwaysSound, PTL

\* A wait that succeeds has been called.
THEOREM WakeupsAreCalled == Spec => NoSpuriousWakeup
  <1>1. CondInv /\ [Next]_vars =>
          [\A t \in Threads :
              platform = "msvc" /\ Relock(t) /\ ret'[t] = "success"
                  => raced \/ t \in called]_vars
    <2>1. ASSUME CondInv, NEW t \in Threads, platform = "msvc", Relock(t),
                 ret'[t] = "success", ~raced
          PROVE  t \in called
      <3>1. Sound
        BY <2>1 DEF CondInv
      <3>2. pc[t] = "relock" /\ (local[t].timeout => ret'[t] = "busy")
        BY <2>1, <3>1 DEF Relock, Return, Sound, CondTyped
      <3> QED
        BY <2>1, <3>1, <3>2 DEF Sound, CallsFollow
    <2> QED
      BY <2>1
  <1> QED
    BY <1>1, AlwaysSound, PTL DEF Spec, NoSpuriousWakeup
=============================================================================
