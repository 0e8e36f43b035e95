-------------------------- MODULE FreeList_proofs ---------------------------
(***************************************************************************)
(* Theorems about FreeList, for any number of threads and tables.          *)
(***************************************************************************)
EXTENDS FreeList, TLAPS

Places == {"client", "create", "alloc", "tail", "walk", "link", "swing", "count", "wake"}

\* The list after i links: MAP_DUMMY is its first node.
At(i)     == IF i = 0 THEN Dummy ELSE linked[i]
Linked(n) == \E i \in 0 .. Len(linked) : n = At(i)

Pending(th)   == pc[th] \in {"tail", "walk", "link"}
Searching(th) == pc[th] \in {"walk", "link"}

ListTyped ==
    /\ pc \in [Threads -> Places]
    /\ next \in [AllNodes -> Nodes \union {NULL}]
    /\ new_node \in [Threads -> Nodes \union {NULL}]
    /\ p \in [Threads -> AllNodes \union {NULL}]
    /\ linked \in Seq(Nodes) /\ taken \in Seq(Nodes)

\* Each node points to the one linked after it, the last one and every node that
\* is not linked to none; no node is linked twice.
ChainInv ==
    /\ \A i \in 0 .. Len(linked) :
          next[At(i)] = IF i = Len(linked) THEN NULL ELSE linked[i + 1]
    /\ \A i, j \in 0 .. Len(linked) : At(i) = At(j) => i = j
    /\ \A n \in AllNodes : ~ Linked(n) => next[n] = NULL

\* The head is the last node taken; those taken are the first ones linked.
HeadInv ==
    /\ Len(taken) <= Len(linked)
    /\ \A i \in 1 .. Len(taken) : taken[i] = linked[i]
    /\ map_free_head = At(Len(taken))

\* A thread that appends has a node of its own that is not linked yet, and
\* searches on nodes that are, from wherever the tail was.
PendingInv ==
    /\ \A th \in Threads : Pending(th) => new_node[th] \in Nodes /\ ~ Linked(new_node[th])
    /\ \A th, u \in Threads : Pending(th) /\ Pending(u) /\ new_node[th] = new_node[u] => th = u
    /\ \A th \in Threads : Searching(th) => Linked(p[th])
    /\ \A th \in Threads : pc[th] = "swing" => Linked(new_node[th])
    /\ Linked(map_free_tail)

ListInv == ListTyped /\ ChainInv /\ HeadInv /\ PendingInv

LEMMA InitList == Init => ListInv
  <1> SUFFICES ASSUME Init PROVE ListInv
    OBVIOUS
  <1>1. Len(linked) = 0 /\ Len(taken) = 0 /\ linked \in Seq(Nodes) /\ taken \in Seq(Nodes)
    BY DEF Init
  <1>2. At(0) = Dummy /\ Dummy \in AllNodes
    BY DEF At, AllNodes
  <1>3. ListTyped
    BY <1>1 DEF Init, ListTyped, Places
  <1>4. ChainInv
    BY <1>1, <1>2 DEF Init, ChainInv
  <1>5. HeadInv
    BY <1>1, <1>2 DEF Init, HeadInv
  <1>6. PendingInv
    BY <1>1, <1>2 DEF Init, PendingInv, Pending, Searching, Linked
  <1> QED
    BY <1>3, <1>4, <1>5, <1>6 DEF ListInv

LEMMA AtNode ==
  ASSUME ListTyped, NEW i \in 0 .. Len(linked)
  PROVE  At(i) \in AllNodes /\ (i # 0 => At(i) \in Nodes)
  BY DEF ListTyped, At, AllNodes

\* A thread's walk and the tail stay on the list.
LEMMA WalkOn ==
  ASSUME ListInv, NEW n, Linked(n)
  PROVE  /\ n \in AllNodes
         /\ next[n] # NULL => Linked(next[n])
  <1>1. PICK i \in 0 .. Len(linked) : n = At(i)
    BY DEF Linked
  <1>2. Len(linked) \in Nat
    BY DEF ListInv, ListTyped
  <1>3. n \in AllNodes
    BY <1>1, AtNode DEF ListInv
  <1>4. next[n] # NULL => i + 1 \in 0 .. Len(linked) /\ next[n] = At(i + 1)
    BY <1>1, <1>2 DEF ListInv, ChainInv, At
  <1> QED
    BY <1>3, <1>4 DEF Linked

\* The steps that link no node and take none.
Still ==
    /\ UNCHANGED <<next, map_free_head, linked, taken>>
    /\ pc' \in [Threads -> Places]
    /\ new_node' \in [Threads -> Nodes \union {NULL}]
    /\ p' \in [Threads -> AllNodes \union {NULL}]

LEMMA StillKept ==
  ASSUME ListInv, Still
  PROVE  /\ ListTyped' /\ ChainInv' /\ HeadInv'
         /\ \A n : Linked(n)' = Linked(n)
  <1>1. \A i : At(i)' = At(i)
    BY DEF Still, At
  <1>2. \A n : Linked(n)' = Linked(n)
    BY <1>1 DEF Still, Linked
  <1>3. ListTyped'
    BY DEF ListInv, ListTyped, Still
  <1>4. ChainInv'
    BY <1>2 DEF ListInv, ChainInv, Still, At, Linked
  <1>5. HeadInv'
    BY DEF ListInv, HeadInv, Still, At
  <1> QED
    BY <1>2, <1>3, <1>4, <1>5

LEMMA UnusedFresh ==
  ASSUME ListInv, NEW n \in Unused
  PROVE  n \in Nodes /\ ~ Linked(n) /\ \A th \in Threads : new_node[th] # n
  <1>1. n \in Nodes /\ n # Dummy /\ Len(linked) \in Nat
    BY ListAssumption DEF Unused, ListInv, ListTyped
  <1>2. ASSUME NEW i \in 1 .. Len(linked) PROVE At(i) # n
    <2>1. i - 1 \in 0 .. Len(linked) /\ i - 1 # Len(linked) /\ (i - 1) + 1 = i /\ i # 0
      BY <1>1
    <2>2. next[At(i - 1)] = linked[i] /\ At(i - 1) \in AllNodes
      BY <2>1, AtNode DEF ListInv, ChainInv
    <2> QED
      BY <2>1, <2>2 DEF Unused, At
  <1>3. At(0) # n
    BY <1>1 DEF At
  <1> QED
    BY <1>1, <1>2, <1>3 DEF Unused, Linked

LEMMA ClientStill ==
  ASSUME ListInv, NEW th \in Threads, Client(th), linked' = linked
  PROVE  Still /\ PendingInv'
  <1>1. CASE TestAndSet(th) \/ Create(th) \/ Count(th) \/ Wake(th)
    <2>1. Still
      BY <1>1 DEF TestAndSet, Create, Count, Wake, Goto, locals, list, ListInv, ListTyped, Still,
                  Places
    <2>2. \A n : Linked(n)' = Linked(n)
      BY <2>1, StillKept
    <2>3. UNCHANGED map_free_tail /\ pc'[th] \in {"alloc", "create", "wake", "client"}
      BY <1>1 DEF TestAndSet, Create, Count, Wake, Goto, list, ListInv, ListTyped
    <2>4. \A u \in Threads \ {th} : UNCHANGED <<pc[u], new_node[u], p[u]>>
      BY <1>1 DEF TestAndSet, Create, Count, Wake, Goto, locals, ListInv, ListTyped
    <2> QED
      BY <2>1, <2>2, <2>3, <2>4 DEF ListInv, PendingInv, Pending, Searching
  <1>2. CASE Alloc(th)
    <2>1. PICK n \in Unused : new_node' = [new_node EXCEPT ![th] = n]
      BY <1>2 DEF Alloc
    <2>2. n \in Nodes /\ ~ Linked(n) /\ \A u \in Threads : new_node[u] # n
      BY <2>1, UnusedFresh
    <2>3. Still
      BY <1>2, <2>1, <2>2 DEF Alloc, Goto, list, ListInv, ListTyped, Still, Places
    <2>4. \A m : Linked(m)' = Linked(m)
      BY <2>3, StillKept
    <2>5. /\ pc'[th] = "tail" /\ new_node'[th] = n /\ UNCHANGED <<p, map_free_tail>>
          /\ \A u \in Threads \ {th} : UNCHANGED <<pc[u], new_node[u]>>
      BY <1>2, <2>1 DEF Alloc, Goto, list, ListInv, ListTyped
    <2> QED
      BY <2>2, <2>3, <2>4, <2>5 DEF ListInv, PendingInv, Pending, Searching
  <1>3. CASE LoadTail(th)
    <2>1. map_free_tail \in AllNodes
      BY WalkOn DEF ListInv, PendingInv
    <2>2. Still
      BY <1>3, <2>1 DEF LoadTail, Goto, list, ListInv, ListTyped, Still, Places
    <2>3. \A n : Linked(n)' = Linked(n)
      BY <2>2, StillKept
    <2>4. /\ pc[th] = "tail" /\ pc'[th] = "walk" /\ p'[th] = map_free_tail
          /\ UNCHANGED <<new_node, map_free_tail>>
          /\ \A u \in Threads \ {th} : UNCHANGED <<pc[u], p[u]>>
      BY <1>3 DEF LoadTail, Goto, list, ListInv, ListTyped
    <2> QED
      BY <2>2, <2>3, <2>4 DEF ListInv, PendingInv, Pending, Searching
  <1>4. CASE Walk(th) \/ Link(th)
    <2>1. p[th] \in AllNodes /\ Linked(p[th]) /\ (next[p[th]] # NULL => Linked(next[p[th]]))
      BY <1>4, WalkOn DEF Walk, Link, ListInv, PendingInv, Searching
    <2>2. /\ p'[th] \in AllNodes /\ Linked(p'[th]) /\ pc'[th] \in {"walk", "link"}
          /\ \/ UNCHANGED p
             \/ p' = [p EXCEPT ![th] = next[p[th]]] /\ next[p[th]] \in AllNodes
          /\ UNCHANGED <<next, map_free_head, map_free_tail, new_node, linked, taken>>
          /\ \/ UNCHANGED pc
             \/ Goto(th, "link") \/ Goto(th, "walk")
      <3>1. CASE Walk(th)
        <4>1. next[p[th]] # NULL => next[p[th]] \in AllNodes
          BY <2>1, WalkOn
        <4> QED
          BY <2>1, <3>1, <4>1 DEF Walk, HasNext, Goto, list, ListInv, ListTyped
      <3>2. CASE Link(th)
        <4>1. ~ Linkable(p[th])
          <5>1. Append(linked, new_node[th]) # linked \/ ~ (new_node[th] \in Nodes)
            BY DEF ListInv, ListTyped
          <5>2. new_node[th] \in Nodes
            BY <3>2 DEF Link, ListInv, PendingInv, Pending
          <5> QED
            BY <3>2, <5>1, <5>2 DEF Link
        <4> QED
          BY <2>1, <3>2, <4>1 DEF Link, Goto, locals, ListInv, ListTyped
      <3> QED
        BY <1>4, <3>1, <3>2
    <2>3. Still
      BY <2>2 DEF Goto, ListInv, ListTyped, Still, Places
    <2>4. \A n : Linked(n)' = Linked(n)
      BY <2>3, StillKept
    <2>5. /\ \A u \in Threads \ {th} : UNCHANGED <<pc[u], p[u]>>
          /\ pc[th] \in {"walk", "link"}
      BY <1>4, <2>2 DEF Walk, Link, Goto, ListInv, ListTyped
    <2> QED
      BY <2>2, <2>3, <2>4, <2>5 DEF ListInv, PendingInv, Pending, Searching
  <1>5. CASE Swing(th)
    <2>1. Still
      BY <1>5 DEF Swing, Goto, locals, ListInv, ListTyped, Still, Places
    <2>2. \A n : Linked(n)' = Linked(n)
      BY <2>1, StillKept
    <2>3. /\ pc'[th] = "count" /\ UNCHANGED <<new_node, p>>
          /\ map_free_tail' \in {map_free_tail, new_node[th]} /\ pc[th] = "swing"
          /\ \A u \in Threads \ {th} : UNCHANGED pc[u]
      BY <1>5 DEF Swing, Goto, locals, ListInv, ListTyped
    <2> QED
      BY <2>1, <2>2, <2>3 DEF ListInv, PendingInv, Pending, Searching
  <1> QED
    BY <1>1, <1>2, <1>3, <1>4, <1>5 DEF Client

LEMMA FreerStill ==
  ASSUME ListInv, Check \/ Wait \/ Spurious \/ Done \/ UNCHANGED vars
  PROVE  Still /\ PendingInv'
  <1>1. UNCHANGED <<list, pc, locals, taken, linked>>
    BY DEF Check, Wait, Spurious, Done, vars
  <1>2. Still
    BY <1>1 DEF list, locals, ListInv, ListTyped, Still
  <1>3. \A n : Linked(n)' = Linked(n)
    BY <1>2, StillKept
  <1> QED
    BY <1>1, <1>2, <1>3 DEF list, locals, ListInv, PendingInv, Pending, Searching

\* A thread links its node after the last one.
Links(th) == Link(th) /\ linked' # linked

LEMMA LinkLast ==
  ASSUME ListInv, NEW th \in Threads, Links(th)
  PROVE  /\ p[th] = At(Len(linked)) /\ new_node[th] \in Nodes /\ ~ Linked(new_node[th])
         /\ next' = [next EXCEPT ![p[th]] = new_node[th]]
         /\ linked' = Append(linked, new_node[th])
         /\ pc' = [pc EXCEPT ![th] = "swing"]
         /\ UNCHANGED <<map_free_head, map_free_tail, new_node, p, taken>>
         /\ pc[th] = "link"
  <1>1. pc[th] = "link" /\ next[p[th]] = NULL /\ Linked(p[th])
    BY DEF Links, Link, Linkable, ListInv, PendingInv, Searching
  <1>2. PICK i \in 0 .. Len(linked) : p[th] = At(i)
    BY <1>1 DEF Linked
  <1>3. Len(linked) \in Nat /\ \A j \in 1 .. Len(linked) : linked[j] # NULL
    BY ListAssumption DEF ListInv, ListTyped
  <1>4. i = Len(linked)
    BY <1>1, <1>2, <1>3 DEF ListInv, ChainInv
  <1> QED
    BY <1>1, <1>2, <1>4 DEF Links, Link, Linkable, Goto, locals, ListInv, PendingInv, Pending

LEMMA LinkKept ==
  ASSUME ListInv, NEW th \in Threads, Links(th)
  PROVE  ListInv'
  <1>0. PICK n, k : n = new_node[th] /\ k = Len(linked)
    OBVIOUS
  <1>1. /\ p[th] = At(k) /\ n \in Nodes /\ ~ Linked(n)
        /\ next' = [next EXCEPT ![At(k)] = n] /\ linked' = Append(linked, n)
        /\ pc' = [pc EXCEPT ![th] = "swing"]
        /\ UNCHANGED <<map_free_head, map_free_tail, new_node, p, taken>>
        /\ pc[th] = "link"
    BY <1>0, LinkLast
  <1>2. k \in Nat /\ linked \in Seq(Nodes) /\ Len(taken) \in Nat /\ At(k) \in AllNodes
    BY <1>0, AtNode DEF ListInv, ListTyped
  <1>3. /\ linked' \in Seq(Nodes) /\ Len(linked') = k + 1 /\ linked'[k + 1] = n
        /\ \A i \in 1 .. k : linked'[i] = linked[i]
    BY <1>0, <1>1, <1>2
  <1>4. At(k + 1)' = n /\ \A i \in 0 .. k : At(i)' = At(i)
    BY <1>2, <1>3 DEF At
  <1>5. \A m : Linked(m)' <=> Linked(m) \/ m = n
    <2>1. \A i \in 0 .. k + 1 : i \in 0 .. k \/ i = k + 1
      BY <1>0, <1>2
    <2>2. k + 1 \in 0 .. k + 1 /\ \A i \in 0 .. k : i \in 0 .. k + 1
      BY <1>0, <1>2
    <2> QED
      BY <1>0, <1>3, <1>4, <2>1, <2>2 DEF Linked
  <1>6. \A i \in 0 .. k : At(i) # n
    BY <1>0, <1>1 DEF Linked
  <1>7. ListTyped'
    BY <1>0, <1>1, <1>2, <1>3 DEF ListInv, ListTyped, Places
  <1>8. ChainInv'
    <2>1. ASSUME NEW i \in 0 .. k + 1
          PROVE  next'[At(i)'] = IF i = k + 1 THEN NULL ELSE linked'[i + 1]
      <3>1. CASE i = k + 1
        <4>1. next[n] = NULL /\ n # At(k) /\ n \in AllNodes
          BY <1>0, <1>1, <1>2, <1>6 DEF ListInv, ChainInv, AllNodes
        <4> QED
          BY <1>0, <1>1, <1>4, <3>1, <4>1 DEF ListInv, ListTyped
      <3>2. CASE i = k
        BY <1>0, <1>1, <1>2, <1>3, <1>4, <3>2 DEF ListInv, ListTyped
      <3>3. CASE i \in 0 .. k /\ i # k
        <4>1. At(i) # At(k) /\ At(i) \in AllNodes /\ i + 1 \in 1 .. k
          BY <1>0, <1>2, <3>3, AtNode DEF ListInv, ChainInv
        <4>2. next[At(i)] = linked[i + 1]
          BY <1>0, <1>2, <3>3 DEF ListInv, ChainInv
        <4> QED
          BY <1>0, <1>1, <1>2, <1>3, <1>4, <3>3, <4>1, <4>2 DEF ListInv, ListTyped
      <3> QED
        BY <1>0, <1>2, <3>1, <3>2, <3>3
    <2>2. ASSUME NEW i \in 0 .. k + 1, NEW j \in 0 .. k + 1, At(i)' = At(j)' PROVE i = j
      <3>1. CASE i \in 0 .. k /\ j \in 0 .. k
        BY <1>0, <1>4, <2>2, <3>1 DEF ListInv, ChainInv
      <3>2. CASE i = k + 1 \/ j = k + 1
        BY <1>0, <1>2, <1>4, <1>6, <2>2, <3>2
      <3> QED
        BY <1>0, <1>2, <3>1, <3>2
    <2>3. ASSUME NEW m \in AllNodes, ~ Linked(m)' PROVE next'[m] = NULL
      <3>1. ~ Linked(m) /\ m # At(k)
        BY <1>0, <1>2, <1>5, <2>3 DEF Linked
      <3> QED
        BY <1>0, <1>1, <3>1 DEF ListInv, ListTyped, ChainInv
    <2> QED
      BY <1>0, <1>3, <2>1, <2>2, <2>3 DEF ChainInv
  <1>9. HeadInv'
    BY <1>0, <1>1, <1>2, <1>3, <1>4 DEF ListInv, HeadInv
  <1>10. PendingInv'
    <2>1. /\ pc'[th] = "swing" /\ \A u \in Threads \ {th} : pc'[u] = pc[u]
      BY <1>0, <1>1 DEF ListInv, ListTyped
    <2>2. \A u \in Threads \ {th} : Pending(u) => new_node[u] # n
      BY <1>0, <1>1 DEF ListInv, PendingInv, Pending
    <2> QED
      BY <1>0, <1>1, <1>5, <2>1, <2>2 DEF ListInv, PendingInv, Pending, Searching
  <1> QED
    BY <1>0, <1>7, <1>8, <1>9, <1>10 DEF ListInv

\* The freeing thread takes the first node that is linked and not taken.
Takes == Pop /\ next[map_free_head] # NULL

LEMMA TakeFirst ==
  ASSUME ListInv, Takes
  PROVE  /\ Len(taken) < Len(linked)
         /\ taken' = Append(taken, linked[Len(taken) + 1])
         /\ map_free_head' = linked[Len(taken) + 1]
         /\ UNCHANGED <<next, map_free_tail, pc, new_node, p, linked>>
  <1>1. Len(taken) \in 0 .. Len(linked) /\ map_free_head = At(Len(taken))
    BY DEF ListInv, ListTyped, HeadInv
  <1>2. next[map_free_head] = IF Len(taken) = Len(linked) THEN NULL ELSE linked[Len(taken) + 1]
    BY <1>1 DEF ListInv, ChainInv
  <1> QED
    BY <1>1, <1>2 DEF Takes, Pop, locals

LEMMA TakeKept ==
  ASSUME ListInv, Takes
  PROVE  ListInv'
  <1>0. PICK d, k : d = Len(taken) /\ k = Len(linked)
    OBVIOUS
  <1>1. /\ d \in Nat /\ k \in Nat /\ d < k /\ taken \in Seq(Nodes) /\ linked \in Seq(Nodes)
        /\ taken' = Append(taken, linked[d + 1]) /\ map_free_head' = linked[d + 1]
        /\ UNCHANGED <<next, map_free_tail, pc, new_node, p, linked>>
    BY <1>0, TakeFirst DEF ListInv, ListTyped
  <1>2. linked[d + 1] \in Nodes
    BY <1>0, <1>1
  <1>3. /\ taken' \in Seq(Nodes) /\ Len(taken') = d + 1 /\ taken'[d + 1] = linked[d + 1]
        /\ \A i \in 1 .. d : taken'[i] = taken[i]
    BY <1>0, <1>1, <1>2
  <1>4. \A n : Linked(n)' = Linked(n)
    BY <1>1 DEF Linked, At
  <1>5. ListTyped'
    BY <1>1, <1>3 DEF ListInv, ListTyped
  <1>6. ChainInv'
    BY <1>1, <1>4 DEF ListInv, ChainInv, At, Linked
  <1>7. HeadInv'
    <2>1. map_free_head' = At(Len(taken))'
      BY <1>1, <1>3 DEF At
    <2>2. \A i \in 1 .. d + 1 : taken'[i] = linked[i]
      <3>1. \A i \in 1 .. d : taken[i] = linked[i]
        BY <1>0 DEF ListInv, HeadInv
      <3>2. \A i \in 1 .. d + 1 : i \in 1 .. d \/ i = d + 1
        BY <1>1
      <3> QED
        BY <1>3, <3>1, <3>2
    <2> QED
      BY <1>0, <1>1, <1>3, <2>1, <2>2 DEF HeadInv
  <1>8. PendingInv'
    BY <1>1, <1>4 DEF ListInv, PendingInv, Pending, Searching
  <1> QED
    BY <1>5, <1>6, <1>7, <1>8 DEF ListInv

\* Every step links a node, takes one, or does neither.
LEMMA ThreeKinds ==
  ASSUME ListInv, [Next]_vars
  PROVE  (\E th \in Threads : Links(th)) \/ Takes \/ (Still /\ PendingInv')
  <1>1. CASE Pop /\ ~ Takes
    <2>1. UNCHANGED <<list, pc, locals, taken, linked>>
      BY <1>1 DEF Pop, Takes, list
    <2>2. Still
      BY <2>1 DEF list, locals, ListInv, ListTyped, Still
    <2>3. \A n : Linked(n)' = Linked(n)
      BY <2>2, StillKept
    <2> QED
      BY <2>1, <2>2, <2>3 DEF list, locals, ListInv, PendingInv, Pending, Searching
  <1>2. ASSUME NEW th \in Threads, Client(th), linked' # linked PROVE Links(th)
    BY <1>2 DEF Client, Links, TestAndSet, Create, Alloc, LoadTail, Walk, Swing, Count, Wake
  <1> QED
    BY <1>1, <1>2, ClientStill, FreerStill DEF Next, Freer

LEMMA StepList ==
  ASSUME ListInv, [Next]_vars
  PROVE  ListInv'
  BY ThreeKinds, LinkKept, TakeKept, StillKept DEF ListInv

LEMMA ListAlways == Spec => []ListInv
  BY InitList, StepList, PTL DEF Spec

-----------------------------------------------------------------------------
(* The list is a queue.                                                    *)

WaitingFact ==
    /\ Waiting \in Seq(Nodes) /\ Len(Waiting) = Len(linked) - Len(taken)
    /\ \A i \in 1 .. Len(linked) - Len(taken) : Waiting[i] = linked[Len(taken) + i]

LEMMA WaitingIs == ListInv => WaitingFact
  <1> SUFFICES ASSUME ListInv PROVE WaitingFact
    OBVIOUS
  <1>1. /\ Len(linked) \in Nat /\ Len(taken) \in Nat /\ Len(linked) - Len(taken) \in Nat
        /\ \A i \in 1 .. Len(linked) : linked[i] \in Nodes
    BY DEF ListInv, ListTyped, HeadInv
  <1>2. \A i \in 1 .. Len(linked) - Len(taken) : linked[Len(taken) + i] \in Nodes
    BY <1>1
  <1>3. Waiting \in [1 .. Len(linked) - Len(taken) -> Nodes]
    BY <1>2 DEF Waiting
  <1> QED
    BY <1>1, <1>3 DEF Waiting, WaitingFact

LEMMA StillStutters ==
  ASSUME ListInv, Still
  PROVE  UNCHANGED <<Waiting, taken>>
  BY DEF Still, Waiting

Longer(r, s, x) ==
    /\ r \in Seq(Nodes) /\ Len(r) = Len(s) + 1
    /\ \A i \in 1 .. Len(s) + 1 : r[i] = IF i = Len(s) + 1 THEN x ELSE s[i]

LEMMA AppendFacts ==
  ASSUME NEW s \in Seq(Nodes), NEW x \in Nodes
  PROVE  Longer(Append(s, x), s, x)
  BY DEF Longer

LEMMA LinkEnqueues ==
  ASSUME ListInv, ListInv', NEW th \in Threads, Links(th)
  PROVE  Queue!Enqueue(new_node[th])
  <1>0. PICK n, k, d : n = new_node[th] /\ k = Len(linked) /\ d = Len(taken)
    OBVIOUS
  <1>1. /\ n \in Nodes /\ ~ Linked(n) /\ linked' = Append(linked, n) /\ taken' = taken
        /\ linked \in Seq(Nodes) /\ k \in Nat /\ d \in Nat /\ d <= k
    BY <1>0, LinkLast DEF ListInv, ListTyped, HeadInv
  <1>2. /\ Len(linked') = k + 1 /\ linked'[k + 1] = n
        /\ \A i \in 1 .. k : linked'[i] = linked[i] /\ linked[i] # n
    <2>1. \A i \in 1 .. k : linked[i] # n
      BY <1>0, <1>1 DEF Linked, At
    <2> QED
      BY <1>0, <1>1, <2>1
  <1>3. /\ Waiting \in Seq(Nodes) /\ Len(Waiting) = k - d /\ DOMAIN Waiting = 1 .. k - d
        /\ \A i \in 1 .. k - d : Waiting[i] = linked[d + i]
    <2>1. WaitingFact
      BY WaitingIs
    <2>2. /\ Waiting \in Seq(Nodes) /\ Len(Waiting) = k - d
          /\ \A i \in 1 .. k - d : Waiting[i] = linked[d + i]
      BY <1>0, <2>1 DEF WaitingFact
    <2> QED
      BY <1>1, <2>2
  <1>4. /\ Waiting' \in Seq(Nodes) /\ Len(Waiting') = k + 1 - d
        /\ \A i \in 1 .. k + 1 - d : Waiting'[i] = linked'[d + i]
    <2>1. WaitingFact'
      BY WaitingIs, PTL
    <2>2. Len(linked') - Len(taken') = k + 1 - d /\ Len(taken') = d
      BY <1>0, <1>1, <1>2
    <2> QED
      BY <2>1, <2>2 DEF WaitingFact
  <1>5. Waiting' = Append(Waiting, n)
    <2>1. Longer(Append(Waiting, n), Waiting, n)
      BY <1>1, <1>3, AppendFacts
    <2>2. ASSUME NEW i \in 1 .. k + 1 - d PROVE Waiting'[i] = Append(Waiting, n)[i]
      <3>1. CASE i = k + 1 - d
        <4>1. d + i = k + 1 /\ i = Len(Waiting) + 1
          BY <1>1, <1>3, <3>1
        <4> QED
          BY <1>2, <1>3, <1>4, <2>1, <4>1 DEF Longer
      <3>2. CASE i # k + 1 - d
        <4>1. i \in 1 .. k - d /\ d + i \in 1 .. k /\ i \in 1 .. Len(Waiting) + 1
              /\ i # Len(Waiting) + 1
          BY <1>1, <1>3, <3>2
        <4> QED
          BY <1>2, <1>3, <1>4, <2>1, <4>1 DEF Longer
      <3> QED
        BY <3>1, <3>2
    <2>3. Len(Append(Waiting, n)) = k + 1 - d
      BY <1>1, <1>3, <2>1 DEF Longer
    <2> QED
      BY <1>4, <2>1, <2>2, <2>3 DEF Longer
  <1>6. \A i \in DOMAIN Waiting : Waiting[i] # n
    <2>1. \A i \in 1 .. k - d : d + i \in 1 .. k
      BY <1>1
    <2> QED
      BY <1>2, <1>3, <2>1
  <1>7. \A i \in DOMAIN taken : taken[i] # n
    <2>1. DOMAIN taken = 1 .. d /\ \A i \in 1 .. d : i \in 1 .. k /\ taken[i] = linked[i]
      BY <1>0, <1>1 DEF ListInv, ListTyped, HeadInv
    <2> QED
      BY <1>2, <2>1
  <1> QED
    BY <1>0, <1>1, <1>5, <1>6, <1>7 DEF Queue!Enqueue

LEMMA TakeDequeues ==
  ASSUME ListInv, ListInv', Takes
  PROVE  Queue!Dequeue
  <1>0. PICK k, d : k = Len(linked) /\ d = Len(taken)
    OBVIOUS
  <1>1. /\ d < k /\ k \in Nat /\ d \in Nat /\ linked' = linked /\ taken \in Seq(Nodes)
        /\ taken' = Append(taken, linked[d + 1]) /\ Len(taken') = d + 1
    BY <1>0, TakeFirst DEF ListInv, ListTyped
  <1>2. /\ Waiting \in Seq(Nodes) /\ Len(Waiting) = k - d
        /\ \A i \in 1 .. k - d : Waiting[i] = linked[d + i]
    BY <1>0, WaitingIs DEF WaitingFact
  <1>3. /\ Waiting' \in Seq(Nodes) /\ Len(Waiting') = k - (d + 1)
        /\ \A i \in 1 .. k - (d + 1) : Waiting'[i] = linked[d + 1 + i]
    <2>1. WaitingFact'
      BY WaitingIs, PTL
    <2> QED
      BY <1>0, <1>1, <2>1 DEF WaitingFact
  <1>4. Waiting # <<>> /\ Head(Waiting) = linked[d + 1]
    BY <1>1, <1>2
  <1>5. Waiting' = Tail(Waiting)
    <2>1. Tail(Waiting) \in Seq(Nodes) /\ Len(Tail(Waiting)) = k - (d + 1)
      BY <1>1, <1>2, <1>4
    <2>2. ASSUME NEW i \in 1 .. k - (d + 1) PROVE Waiting'[i] = Tail(Waiting)[i]
      <3>1. i + 1 \in 1 .. k - d /\ d + (i + 1) = d + 1 + i
        BY <1>1
      <3>2. Tail(Waiting)[i] = Waiting[i + 1]
        BY <1>1, <1>2, <1>4, <2>1
      <3> QED
        BY <1>2, <1>3, <3>1, <3>2
    <2> QED
      BY <1>3, <2>1, <2>2
  <1> QED
    BY <1>1, <1>4, <1>5 DEF Queue!Dequeue

\* However the appends of several threads and the takes interleave, and however
\* far the tail pointer lags behind, the list is a queue: no table is lost,
\* taken twice or taken out of order.
THEOREM ListIsQueue == Spec => ImplementsFreeQueue
  <1>1. Init => Queue!Init
    <2> SUFFICES ASSUME Init PROVE Queue!Init
      OBVIOUS
    <2>1. taken = <<>> /\ Len(linked) = 0 /\ Len(taken) = 0
      BY DEF Init
    <2>2. Waiting \in Seq(Nodes) /\ Len(Waiting) = 0
      BY <2>1, InitList, WaitingIs DEF WaitingFact
    <2> QED
      BY <2>1, <2>2 DEF Queue!Init
  <1>2. ListInv /\ ListInv' /\ [Next]_vars => [Queue!Next]_<<Waiting, taken>>
    <2> SUFFICES ASSUME ListInv, ListInv', [Next]_vars
                 PROVE  Queue!Next \/ UNCHANGED <<Waiting, taken>>
      OBVIOUS
    <2>1. ASSUME NEW th \in Threads, Links(th) PROVE Queue!Next
      <3>1. new_node[th] \in Nodes
        BY <2>1, LinkLast
      <3> QED
        BY <2>1, <3>1, LinkEnqueues DEF Queue!Next
    <2>2. CASE Takes
      BY <2>2, TakeDequeues DEF Queue!Next
    <2>3. CASE Still
      BY <2>3, StillStutters
    <2> QED
      BY <2>1, <2>2, <2>3, ThreeKinds
  <1> QED
    BY <1>1, <1>2, ListAlways, PTL DEF Spec, ImplementsFreeQueue, Queue!Spec

=============================================================================
