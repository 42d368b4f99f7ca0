---------------------------- MODULE KernelLists ----------------------------
(***************************************************************************)
(* The lists of tasks.  The tail queue macros keep a list a list when they *)
(* are given an element that is on none, or one that is on the list: shown *)
(* here of any heap.  So does ReadyAdd, which also keeps ReadyList sorted. *)
(***************************************************************************)
EXTENDS KernelProofs, FiniteSetTheorems, WellFoundedInduction

(* WaitList is not among the lists: _TaskNotify leaves on it the task that  *)
(* it wakes.                                                               *)
Heads == Mutexes \cup {ReadyList}

(* on says on which list each task is, if on any.                           *)
Places == [Tasks -> Heads \cup {NULL}]

Slots(on, l) == {l} \cup {t \in Tasks : on[t] = l}

(* A list closed to a ring: after the last slot comes the head again.       *)
Succ(h, l, s) == IF h.next[s] = NULL THEN l ELSE h.next[s]

(* Around each ring, links forward and back are the inverse of each other,  *)
(* and some numbering of the elements grows from each to the next.          *)
Linked(h, on, pos) ==
  \A l \in Heads : \A s \in Slots(on, l) :
    /\ Succ(h, l, s) \in Slots(on, l) /\ h.back[Succ(h, l, s)] = s
    /\ h.back[s] \in Slots(on, l) /\ Succ(h, l, h.back[s]) = s
    /\ s \in Tasks /\ h.next[s] # NULL => pos[s] < pos[h.next[s]]

Numbers == [Tasks -> Nat]

Lists(h, on) == h \in TQ!Heap /\ \E pos \in Numbers : Linked(h, on, pos)

(* ReadyList in the order of priorities p.                                  *)
Sorted(h, on, p) ==
  \A t \in Tasks : on[t] = ReadyList /\ h.next[t] # NULL => p[t] <= p[h.next[t]]

-----------------------------------------------------------------------------
LEMMA ReadyHead == ReadyList \in Heads
BY DEF Heads

(* The operations of queue.h.                                               *)
LEMMA Distinct ==
  /\ NULL \notin TQ!Slot /\ TQ!Slot = Tasks \cup Heads \cup {WaitList}
  /\ WaitList \notin Tasks \cup Heads
  /\ \A t \in Tasks, l \in Heads : t # l
BY NullNotTask, ListsDistinct DEF TQ!Slot, Heads

LEMMA HeadsAreSlots == \A l \in Heads : l \in TQ!Slot
BY Distinct

LEMMA SlotsType ==
  ASSUME NEW on \in Places, NEW l \in Heads
  PROVE  /\ Slots(on, l) \subseteq TQ!Slot
         /\ \A s \in Slots(on, l) : s # NULL
BY Distinct DEF Slots

LEMMA SlotsApart ==
  ASSUME NEW on \in Places, NEW l \in Heads, NEW m \in Heads, l # m
  PROVE  Slots(on, l) \cap Slots(on, m) = {}
BY Distinct DEF Slots

LEMMA SuccType ==
  ASSUME NEW h \in TQ!Heap, NEW l \in Heads, NEW s \in TQ!Slot
  PROVE  /\ Succ(h, l, s) \in TQ!Slot
         /\ Succ(h, l, s) \in Heads <=> h.next[s] = NULL
         /\ h.next[s] # NULL => Succ(h, l, s) = h.next[s] /\ h.next[s] \in Tasks
BY Distinct DEF Succ, TQ!Heap

(* g is h with e put behind slot s of list l.                               *)
Inserted(h, g, l, s, e) ==
  /\ g.next[e] = h.next[s] /\ g.next[s] = e
  /\ \A u \in TQ!Slot \ {e, s} : g.next[u] = h.next[u]
  /\ g.back[e] = s /\ g.back[Succ(h, l, s)] = e
  /\ \A u \in TQ!Slot \ {e, Succ(h, l, s)} : g.back[u] = h.back[u]

LEMMA InsertedLinks ==
  ASSUME NEW h \in TQ!Heap, NEW g \in TQ!Heap, NEW on \in Places, NEW pos \in Numbers,
         NEW l \in Heads, NEW s \in Slots(on, l), NEW e \in Tasks, on[e] = NULL,
         Linked(h, on, pos), Inserted(h, g, l, s, e),
         NEW q \in Numbers, \A t \in Tasks \ {e} : q[t] = 2 * pos[t] + 1,
         q[e] = IF s = l THEN 0 ELSE 2 * pos[s] + 2
  PROVE  Linked(g, [on EXCEPT ![e] = l], q)
<1> DEFINE to == [on EXCEPT ![e] = l]
           a == Succ(h, l, s)
<1>1. to \in Places /\ to[e] = l /\ \A t \in Tasks \ {e} : to[t] = on[t]
  BY DEF Places
<1>2. /\ Slots(to, l) = Slots(on, l) \cup {e} /\ e \notin Slots(on, l)
      /\ \A m \in Heads \ {l} : Slots(to, m) = Slots(on, m)
      /\ \A m \in Heads : e \notin Slots(on, m)
  BY <1>1, Distinct DEF Slots, Places
<1>3. a \in Slots(on, l) /\ h.back[a] = s /\ a # e /\ s # e
  BY <1>2 DEF Linked
<1> HIDE DEF to, a
<1>5. SUFFICES ASSUME NEW m \in Heads, NEW u \in Slots(to, m)
               PROVE  /\ Succ(g, m, u) \in Slots(to, m) /\ g.back[Succ(g, m, u)] = u
                      /\ g.back[u] \in Slots(to, m) /\ Succ(g, m, g.back[u]) = u
                      /\ u \in Tasks /\ g.next[u] # NULL => q[u] < q[g.next[u]]
  BY DEF Linked, to
<1>6. /\ u \in TQ!Slot /\ s \in TQ!Slot /\ e \in TQ!Slot /\ a \in TQ!Slot /\ e # NULL
      /\ \A t \in Slots(on, m) : t \in TQ!Slot /\ h.back[t] \in TQ!Slot
  BY <1>1, <1>3, SlotsType, Distinct DEF Linked
<1>7. CASE m # l
  <2>1. Slots(to, m) = Slots(on, m) /\ u \in Slots(on, m)
    BY <1>2, <1>7
  <2>2. /\ Succ(h, m, u) \in Slots(on, m) /\ h.back[Succ(h, m, u)] = u
        /\ h.back[u] \in Slots(on, m) /\ Succ(h, m, h.back[u]) = u
        /\ u \in Tasks /\ h.next[u] # NULL => pos[u] < pos[h.next[u]]
    BY <2>1 DEF Linked
  <2>3. \A t \in Slots(on, m) : t \notin {e, s, a} /\ t \in TQ!Slot
    BY <1>2, <1>3, <1>6, <1>7, SlotsApart
  <2>4. \A t \in Slots(on, m) :
          g.next[t] = h.next[t] /\ g.back[t] = h.back[t] /\ Succ(g, m, t) = Succ(h, m, t)
    BY <2>3 DEF a, Inserted, Succ
  <2>5. ASSUME u \in Tasks, g.next[u] # NULL PROVE q[u] < q[g.next[u]]
    <3>1. h.next[u] # NULL /\ g.next[u] = h.next[u]
      BY <2>1, <2>4, <2>5
    <3>2. h.next[u] \in Slots(on, m) /\ h.next[u] \in Tasks
      BY <1>6, <2>2, <3>1, SuccType
    <3>3. pos[u] < pos[h.next[u]] /\ u # e /\ h.next[u] # e
      BY <2>1, <2>2, <2>3, <2>5, <3>1, <3>2
    <3>4. QED
      BY <2>5, <3>1, <3>2, <3>3 DEF Numbers
  <2>6. QED
    BY <2>1, <2>2, <2>4, <2>5
<1>8. CASE m = l
  <2>1. /\ g.next[e] = h.next[s] /\ Succ(g, l, e) = a /\ g.next[s] = e /\ Succ(g, l, s) = e
        /\ \A t \in TQ!Slot \ {e, s} : g.next[t] = h.next[t] /\ Succ(g, l, t) = Succ(h, l, t)
        /\ g.back[e] = s /\ g.back[a] = e
        /\ \A t \in TQ!Slot \ {e, a} : g.back[t] = h.back[t]
    BY <1>3, <1>6 DEF a, Inserted, Succ
  <2>2. /\ \A t \in Slots(on, l) :
             /\ Succ(h, l, t) \in Slots(on, l) /\ h.back[Succ(h, l, t)] = t
             /\ h.back[t] \in Slots(on, l) /\ Succ(h, l, h.back[t]) = t
             /\ t \in Tasks /\ h.next[t] # NULL => pos[t] < pos[h.next[t]]
        /\ \A t \in Slots(on, l) : t # e /\ t \in TQ!Slot
    BY <1>2, <1>6, <1>8 DEF Linked
  <2>3. \A t \in Slots(on, l) : h.next[t] # NULL =>
          h.next[t] \in Slots(on, l) /\ h.next[t] \in Tasks /\ h.next[t] # e
    <3>1. \A t \in Slots(on, l) : h.next[t] # NULL => Succ(h, l, t) = h.next[t]
      BY DEF Succ
    <3>2. \A t \in Slots(on, l) : h.next[t] \in Tasks \cup {NULL}
      BY <2>2 DEF TQ!Heap
    <3>3. QED
      BY <2>2, <3>1, <3>2
  <2>4. CASE u = e
    <3>1. ASSUME g.next[u] # NULL PROVE q[u] < q[g.next[u]]
      <4>1. g.next[u] = h.next[s] /\ h.next[s] \in Tasks \ {e} /\ pos[h.next[s]] \in Nat
        BY <2>1, <2>3, <2>4, <3>1 DEF Numbers
      <4>2. q[g.next[u]] = 2 * pos[h.next[s]] + 1
        BY <4>1
      <4>3. CASE s = l
        BY <2>4, <4>1, <4>2, <4>3
      <4>4. CASE s # l
        <5>1. s \in Tasks /\ pos[s] \in Nat
          BY <4>4 DEF Slots, Numbers
        <5>2. pos[s] < pos[h.next[s]]
          BY <2>2, <2>1, <2>4, <3>1, <5>1
        <5>3. q[u] = 2 * pos[s] + 2
          BY <2>4, <4>4
        <5>4. QED
          BY <4>1, <4>2, <5>1, <5>2, <5>3
      <4>5. QED
        BY <4>3, <4>4
    <3>2. QED
      BY <1>2, <1>3, <1>8, <2>1, <2>4, <3>1
  <2>5. CASE u = s
    <3>1. u \in Tasks => q[u] < q[g.next[u]]
      <4>1. SUFFICES ASSUME u \in Tasks PROVE q[u] < q[e]
        BY <2>1, <2>5
      <4>2. u # e /\ s # l /\ pos[s] \in Nat
        BY <1>3, <2>5, <4>1, Distinct DEF Numbers
      <4>3. q[u] = 2 * pos[s] + 1 /\ q[e] = 2 * pos[s] + 2
        BY <2>5, <4>1, <4>2
      <4>4. QED
        BY <4>2, <4>3
    <3>2. g.back[u] \in Slots(to, l) /\ Succ(g, l, g.back[u]) = u
      <4>1. CASE s = a
        BY <1>2, <1>3, <2>1, <2>5, <4>1
      <4>2. CASE s # a
        <5>1. g.back[s] = h.back[s] /\ h.back[s] \in Slots(on, l) /\ Succ(h, l, h.back[s]) = s
          BY <1>3, <1>6, <2>1, <2>2, <4>2
        <5>2. h.back[s] # s /\ h.back[s] # e /\ h.back[s] \in TQ!Slot
          BY <2>2, <4>2, <5>1 DEF a
        <5>3. QED
          BY <1>2, <2>1, <2>5, <5>1, <5>2
      <4>3. QED
        BY <4>1, <4>2
    <3>3. QED
      BY <1>2, <1>8, <2>1, <2>5, <3>1, <3>2
  <2>6. CASE u \notin {e, s}
    <3>1. u \in Slots(on, l) \ {s, e}
      BY <1>2, <1>8, <2>6
    <3> DEFINE v == Succ(h, l, u)
    <3>2. /\ v \in Slots(on, l) /\ h.back[v] = u /\ v # a /\ v # e /\ v \in TQ!Slot
          /\ Succ(g, l, u) = v
      BY <1>3, <1>6, <2>1, <2>2, <3>1
    <3>3. g.back[v] = u
      BY <2>1, <3>2
    <3>4. g.back[u] \in Slots(to, l) /\ Succ(g, l, g.back[u]) = u
      <4>1. CASE u = a
        BY <1>2, <2>1, <4>1
      <4>2. CASE u # a
        <5>1. g.back[u] = h.back[u] /\ h.back[u] \in Slots(on, l) /\ Succ(h, l, h.back[u]) = u
          BY <1>6, <2>1, <2>2, <3>1, <4>2
        <5>2. h.back[u] # s /\ h.back[u] # e /\ h.back[u] \in TQ!Slot
          BY <2>2, <4>2, <5>1 DEF a
        <5>3. QED
          BY <1>2, <2>1, <5>1, <5>2
      <4>3. QED
        BY <4>1, <4>2
    <3>5. ASSUME u \in Tasks, g.next[u] # NULL PROVE q[u] < q[g.next[u]]
      <4>1. g.next[u] = h.next[u] /\ h.next[u] # NULL
        BY <1>6, <2>1, <2>6, <3>5
      <4>2. h.next[u] \in Tasks \ {e} /\ pos[h.next[u]] \in Nat /\ pos[u] \in Nat
        BY <2>3, <3>1, <3>5, <4>1 DEF Numbers
      <4>3. pos[u] < pos[h.next[u]]
        <5> HIDE DEF v
        <5>1. u \in Slots(on, l)
          BY <3>1
        <5>2. QED
          BY <2>2, <3>5, <4>1, <5>1
      <4>4. q[u] = 2 * pos[u] + 1 /\ q[h.next[u]] = 2 * pos[h.next[u]] + 1
        BY <2>6, <3>5, <4>2
      <4>5. QED
        BY <4>1, <4>2, <4>3, <4>4
    <3>6. QED
      BY <1>2, <1>8, <3>1, <3>2, <3>3, <3>4, <3>5
  <2>7. QED
    BY <2>4, <2>5, <2>6
<1>9. QED
  BY <1>7, <1>8

(* g is h without e, which was on list l.                                   *)
Removed(h, g, l, e) ==
  /\ g.next[h.back[e]] = h.next[e]
  /\ \A u \in TQ!Slot \ {h.back[e]} : g.next[u] = h.next[u]
  /\ g.back[Succ(h, l, e)] = h.back[e]
  /\ \A u \in TQ!Slot \ {Succ(h, l, e)} : g.back[u] = h.back[u]

LEMMA RemovedLinks ==
  ASSUME NEW h \in TQ!Heap, NEW g \in TQ!Heap, NEW on \in Places, NEW pos \in Numbers,
         NEW l \in Heads, NEW e \in Tasks, on[e] = l,
         Linked(h, on, pos), Removed(h, g, l, e)
  PROVE  Linked(g, [on EXCEPT ![e] = NULL], pos)
<1> DEFINE to == [on EXCEPT ![e] = NULL]
           a == Succ(h, l, e)
           b == h.back[e]
<1>1. to \in Places /\ to[e] = NULL /\ \A t \in Tasks \ {e} : to[t] = on[t]
  BY DEF Places
<1>2. /\ Slots(to, l) = Slots(on, l) \ {e} /\ e \in Slots(on, l) /\ e # l
      /\ \A m \in Heads \ {l} : Slots(to, m) = Slots(on, m)
  BY <1>1, Distinct DEF Slots, Places
<1> HIDE DEF to
<1>3. /\ a \in Slots(on, l) /\ h.back[a] = e /\ b \in Slots(on, l) /\ Succ(h, l, b) = e
      /\ e \in Tasks /\ h.next[e] # NULL => pos[e] < pos[h.next[e]]
  BY <1>2 DEF Linked
<1>4. a # e /\ b # e
  <2>1. a = IF h.next[e] = NULL THEN l ELSE h.next[e]
    BY DEF Succ
  <2>2. pos[e] \in Nat
    BY DEF Numbers
  <2>3. h.next[e] = NULL \/ h.next[e] # e
    BY <1>3, <2>2
  <2>4. a # e
    BY <1>2, <2>1, <2>3
  <2>5. QED
    BY <1>3, <2>4
<1>5. a \in TQ!Slot /\ b \in TQ!Slot /\ e \in TQ!Slot
  BY <1>2, <1>3, SlotsType
<1>6. /\ g.next[b] = h.next[e] /\ \A u \in TQ!Slot \ {b} : g.next[u] = h.next[u]
      /\ g.back[a] = b /\ \A u \in TQ!Slot \ {a} : g.back[u] = h.back[u]
  BY DEF Removed
<1>7. Succ(g, l, b) = a
  BY <1>6 DEF Succ
<1> HIDE DEF a, b
<1>8. SUFFICES ASSUME NEW m \in Heads, NEW u \in Slots(to, m)
               PROVE  /\ Succ(g, m, u) \in Slots(to, m) /\ g.back[Succ(g, m, u)] = u
                      /\ g.back[u] \in Slots(to, m) /\ Succ(g, m, g.back[u]) = u
                      /\ u \in Tasks /\ g.next[u] # NULL => pos[u] < pos[g.next[u]]
  BY DEF Linked, to
<1>9. u \in Slots(on, m)
  BY <1>2
<1>10. /\ Succ(h, m, u) \in Slots(on, m) /\ h.back[Succ(h, m, u)] = u
       /\ h.back[u] \in Slots(on, m) /\ Succ(h, m, h.back[u]) = u
       /\ u \in Tasks /\ h.next[u] # NULL => pos[u] < pos[h.next[u]]
  BY <1>9 DEF Linked
<1>11. CASE m # l
  <2>1. Slots(to, m) = Slots(on, m)
    BY <1>2, <1>11
  <2>2. \A t \in Slots(on, m) : t \notin {e, b, a} /\ t \in TQ!Slot
    BY <1>2, <1>3, <1>11, SlotsApart, SlotsType
  <2>3. \A t \in Slots(on, m) :
          g.next[t] = h.next[t] /\ g.back[t] = h.back[t] /\ Succ(g, m, t) = Succ(h, m, t)
    BY <1>6, <2>2 DEF Succ
  <2>4. QED
    BY <1>9, <1>10, <2>1, <2>3
<1>12. CASE m = l
  <2>1. u \in Slots(on, l) /\ u # e /\ u \in TQ!Slot
    BY <1>2, <1>12, SlotsType
  <2>2. Succ(g, l, u) \in Slots(to, l) /\ g.back[Succ(g, l, u)] = u
    <3>1. CASE u = b
      BY <1>2, <1>3, <1>4, <1>6, <1>7, <3>1
    <3>2. CASE u # b
      <4>1. g.next[u] = h.next[u]
        BY <1>6, <2>1, <3>2
      <4>2. Succ(g, l, u) = Succ(h, l, u)
        BY <4>1 DEF Succ
      <4>3. Succ(h, l, u) # e /\ Succ(h, l, u) # a
        BY <1>3, <1>10, <1>12, <2>1, <3>2 DEF b
      <4>4. Succ(h, l, u) \in TQ!Slot
        BY <1>10, <1>12, SlotsType
      <4>5. QED
        BY <1>2, <1>6, <1>10, <1>12, <4>2, <4>3, <4>4
    <3>3. QED
      BY <3>1, <3>2
  <2>3. g.back[u] \in Slots(to, l) /\ Succ(g, l, g.back[u]) = u
    <3>1. CASE u = a
      BY <1>2, <1>3, <1>4, <1>6, <1>7, <3>1
    <3>2. CASE u # a
      <4>1. g.back[u] = h.back[u] /\ h.back[u] \in TQ!Slot
        BY <1>6, <1>10, <1>12, <2>1, <3>2, SlotsType
      <4>2. h.back[u] # e /\ h.back[u] # b
        BY <1>3, <1>10, <1>12, <2>1, <3>2 DEF a
      <4>3. g.next[h.back[u]] = h.next[h.back[u]]
        BY <1>6, <4>1, <4>2
      <4>4. Succ(g, l, h.back[u]) = Succ(h, l, h.back[u])
        BY <4>3 DEF Succ
      <4>5. QED
        BY <1>2, <1>10, <1>12, <4>1, <4>2, <4>4
    <3>3. QED
      BY <3>1, <3>2
  <2>4. ASSUME u \in Tasks, g.next[u] # NULL PROVE pos[u] < pos[g.next[u]]
    <3>1. CASE u = b
      <4>1. g.next[u] = h.next[e] /\ h.next[e] # NULL
        BY <1>6, <2>4, <3>1
      <4>2. h.next[b] = e
        BY <1>2, <1>3 DEF Succ
      <4>3. pos[b] < pos[e] /\ pos[e] < pos[h.next[e]]
        BY <1>3, <1>10, <2>4, <3>1, <4>1, <4>2, Distinct
      <4>4. h.next[e] \in Tasks
        BY <1>5, <4>1 DEF TQ!Heap
      <4>5. pos[b] \in Nat /\ pos[e] \in Nat /\ pos[h.next[e]] \in Nat
        BY <2>4, <3>1, <4>4 DEF Numbers
      <4>6. QED
        BY <3>1, <4>1, <4>3, <4>5
    <3>2. CASE u # b
      BY <1>6, <1>10, <2>1, <2>4, <3>2
    <3>3. QED
      BY <3>1, <3>2
  <2>5. QED
    BY <1>12, <2>2, <2>3, <2>4
<1>13. QED
  BY <1>11, <1>12

(* Any pair of numbers keeps the order when a number is put between.        *)
LEMMA InsertedLists ==
  ASSUME NEW h \in TQ!Heap, NEW g \in TQ!Heap, NEW on \in Places, Lists(h, on),
         NEW l \in Heads, NEW s \in Slots(on, l), NEW e \in Tasks, on[e] = NULL,
         Inserted(h, g, l, s, e)
  PROVE  Lists(g, [on EXCEPT ![e] = l])
<1>1. PICK pos \in Numbers : Linked(h, on, pos)
  BY DEF Lists
<1> DEFINE q == [t \in Tasks |-> IF t = e THEN IF s = l THEN 0 ELSE 2 * pos[s] + 2
                                 ELSE 2 * pos[t] + 1]
<1>2. q \in Numbers
  <2>1. \A t \in Tasks : pos[t] \in Nat
    BY DEF Numbers
  <2>2. s # l => s \in Tasks
    BY DEF Slots
  <2>3. \A t \in Tasks : q[t] \in Nat
    BY <2>1, <2>2
  <2>4. QED
    BY <2>3 DEF Numbers
<1>3. /\ \A t \in Tasks \ {e} : q[t] = 2 * pos[t] + 1
      /\ q[e] = IF s = l THEN 0 ELSE 2 * pos[s] + 2
  OBVIOUS
<1> HIDE DEF q
<1>4. Linked(g, [on EXCEPT ![e] = l], q)
  BY <1>1, <1>2, <1>3, InsertedLinks
<1>5. QED
  BY <1>2, <1>4 DEF Lists

LEMMA InsertTailLists ==
  ASSUME NEW h \in TQ!Heap, NEW on \in Places, Lists(h, on),
         NEW l \in Heads, NEW e \in Tasks, on[e] = NULL
  PROVE  /\ h.back[l] \in Slots(on, l) /\ h.next[h.back[l]] = NULL
         /\ Inserted(h, TQ!InsertTail(h, l, e), l, h.back[l], e)
         /\ Lists(TQ!InsertTail(h, l, e), [on EXCEPT ![e] = l])
<1> DEFINE g == TQ!InsertTail(h, l, e)
           s == h.back[l]
<1>1. l \in Slots(on, l) /\ l \in TQ!Slot /\ e \in TQ!Slot
  BY Distinct DEF Slots
<1>2. s \in Slots(on, l) /\ Succ(h, l, s) = l
  BY <1>1 DEF Lists, Linked
<1>3. s \in TQ!Slot /\ s # e /\ l # e
  BY <1>2, SlotsType, Distinct DEF Slots
<1>4. h.next[s] \in Tasks \cup {NULL}
  BY <1>3 DEF TQ!Heap
<1>5. h.next[s] = NULL
  BY <1>2, <1>4, Distinct DEF Succ
<1>6. g \in TQ!Heap
  BY <1>1, InsertTailType
<1>7. /\ g.next = [h.next EXCEPT ![e] = NULL, ![s] = e]
      /\ g.back = [h.back EXCEPT ![e] = s, ![l] = e]
  BY DEF TQ!InsertTail
<1>8. /\ h.next \in [TQ!Slot -> Tasks \cup {NULL}]
      /\ h.back \in [TQ!Slot -> TQ!Slot \cup {NULL}]
  BY DEF TQ!Heap
<1> HIDE DEF g, s
<1>9. /\ g.next[e] = NULL /\ g.next[s] = e
      /\ \A u \in TQ!Slot \ {e, s} : g.next[u] = h.next[u]
      /\ g.back[e] = s /\ g.back[l] = e
      /\ \A u \in TQ!Slot \ {e, l} : g.back[u] = h.back[u]
  BY <1>1, <1>3, <1>7, <1>8
<1>10. Inserted(h, g, l, s, e)
  BY <1>2, <1>5, <1>9 DEF Inserted
<1>11. Lists(g, [on EXCEPT ![e] = l])
  BY <1>2, <1>6, <1>10, InsertedLists
<1>12. QED
  BY <1>2, <1>5, <1>10, <1>11 DEF g, s

LEMMA InsertBeforeLists ==
  ASSUME NEW h \in TQ!Heap, NEW on \in Places, Lists(h, on),
         NEW l \in Heads, NEW x \in Tasks, on[x] = l, NEW e \in Tasks, on[e] = NULL
  PROVE  /\ h.back[x] \in Slots(on, l) /\ h.next[h.back[x]] = x
         /\ Inserted(h, TQ!InsertBefore(h, x, e), l, h.back[x], e)
         /\ Lists(TQ!InsertBefore(h, x, e), [on EXCEPT ![e] = l])
<1> DEFINE g == TQ!InsertBefore(h, x, e)
           s == h.back[x]
<1>1. x \in Slots(on, l) /\ x \in TQ!Slot /\ e \in TQ!Slot /\ x # e /\ x # l
  BY Distinct DEF Slots, Places
<1>2. s \in Slots(on, l) /\ Succ(h, l, s) = x
  BY <1>1 DEF Lists, Linked
<1>3. s \in TQ!Slot /\ s # e
  BY <1>2, SlotsType, Distinct DEF Slots
<1>5. h.next[s] = x
  BY <1>1, <1>2 DEF Succ
<1>6. g \in TQ!Heap
  BY InsertBeforeType
<1>7. /\ g.next = [h.next EXCEPT ![e] = x, ![s] = e]
      /\ g.back = [h.back EXCEPT ![e] = s, ![x] = e]
  BY DEF TQ!InsertBefore
<1>8. /\ h.next \in [TQ!Slot -> Tasks \cup {NULL}]
      /\ h.back \in [TQ!Slot -> TQ!Slot \cup {NULL}]
  BY DEF TQ!Heap
<1> HIDE DEF g, s
<1>9. /\ g.next[e] = x /\ g.next[s] = e
      /\ \A u \in TQ!Slot \ {e, s} : g.next[u] = h.next[u]
      /\ g.back[e] = s /\ g.back[x] = e
      /\ \A u \in TQ!Slot \ {e, x} : g.back[u] = h.back[u]
  BY <1>1, <1>3, <1>7, <1>8
<1>10. Inserted(h, g, l, s, e)
  BY <1>2, <1>5, <1>9 DEF Inserted
<1>11. Lists(g, [on EXCEPT ![e] = l])
  BY <1>2, <1>6, <1>10, InsertedLists
<1>12. QED
  BY <1>2, <1>5, <1>10, <1>11 DEF g, s

LEMMA RemoveLists ==
  ASSUME NEW h \in TQ!Heap, NEW on \in Places, Lists(h, on),
         NEW l \in Heads, NEW e \in Tasks, on[e] = l
  PROVE  /\ Removed(h, TQ!Remove(h, l, e), l, e)
         /\ Lists(TQ!Remove(h, l, e), [on EXCEPT ![e] = NULL])
         /\ TQ!Remove(h, l, e).next[WaitList] = h.next[WaitList]
<1> DEFINE g == TQ!Remove(h, l, e)
           b == h.back[e]
           a == Succ(h, l, e)
<1>1. e \in Slots(on, l) /\ l \in TQ!Slot /\ e \in TQ!Slot
  BY Distinct DEF Slots
<1>2. b \in Slots(on, l) /\ a \in Slots(on, l)
  BY <1>1 DEF Lists, Linked
<1>3. b \in TQ!Slot /\ a \in TQ!Slot
  BY <1>2, SlotsType
<1>4. g \in TQ!Heap
  BY <1>1, RemoveType
<1>5. /\ g.next = [h.next EXCEPT ![b] = h.next[e]]
      /\ g.back = [h.back EXCEPT ![a] = b]
  BY DEF TQ!Remove, Succ
<1>6. /\ h.next \in [TQ!Slot -> Tasks \cup {NULL}]
      /\ h.back \in [TQ!Slot -> TQ!Slot \cup {NULL}]
  BY DEF TQ!Heap
<1> HIDE DEF g, a, b
<1>7. /\ g.next[b] = h.next[e] /\ \A u \in TQ!Slot \ {b} : g.next[u] = h.next[u]
      /\ g.back[a] = b /\ \A u \in TQ!Slot \ {a} : g.back[u] = h.back[u]
  BY <1>3, <1>5, <1>6
<1>8. Removed(h, g, l, e)
  BY <1>7 DEF Removed, a, b
<1>9. PICK pos \in Numbers : Linked(h, on, pos)
  BY DEF Lists
<1>10. Linked(g, [on EXCEPT ![e] = NULL], pos)
  BY <1>4, <1>8, <1>9, RemovedLinks
<1>11. g.next[WaitList] = h.next[WaitList]
  <2>1. WaitList # b /\ WaitList \in TQ!Slot
    BY <1>2, Distinct DEF Slots
  <2>2. QED
    BY <1>7, <2>1
<1>12. QED
  BY <1>4, <1>8, <1>9, <1>10, <1>11 DEF Lists, g

(* No insertion into a list touches the head of WaitList.                   *)
LEMMA InsertedElsewhere ==
  ASSUME NEW h, NEW g, NEW on \in Places, NEW l \in Heads, NEW s \in Slots(on, l),
         NEW e \in Tasks, Inserted(h, g, l, s, e)
  PROVE  g.next[WaitList] = h.next[WaitList]
<1>1. WaitList \in TQ!Slot \ {e, s}
  BY Distinct DEF Slots
<1>2. QED
  BY <1>1 DEF Inserted

(* A task that goes to WaitList, where nobody is, or the task itself still  *)
(* is, links nothing of the lists.                                         *)
LEMMA WaiterLists ==
  ASSUME NEW h \in TQ!Heap, NEW on \in Places, Lists(h, on), NEW p, Sorted(h, on, p),
         NEW e \in Tasks, on[e] = NULL, h.next[WaitList] = NULL \/ h.next[WaitList] = e
  PROVE  /\ Lists(TQ!InsertHead(h, WaitList, e), on)
         /\ Sorted(TQ!InsertHead(h, WaitList, e), on, p)
         /\ TQ!InsertHead(h, WaitList, e).next[WaitList] = e
<1> DEFINE g == TQ!InsertHead(h, WaitList, e)
<1>1. WaitList \in TQ!Slot /\ e \in TQ!Slot /\ WaitList # e
  BY Distinct
<1>2. g \in TQ!Heap
  BY <1>1, InsertHeadType
<1>3. /\ h.next \in [TQ!Slot -> Tasks \cup {NULL}]
      /\ h.back \in [TQ!Slot -> TQ!Slot \cup {NULL}]
  BY DEF TQ!Heap
<1>4. /\ g.next[WaitList] = e
      /\ \A u \in TQ!Slot \ {e, WaitList} : g.next[u] = h.next[u] /\ g.back[u] = h.back[u]
  BY <1>1, <1>3 DEF TQ!InsertHead
<1> HIDE DEF g
<1>5. \A l \in Heads : \A s \in Slots(on, l) : s \in TQ!Slot \ {e, WaitList}
  BY Distinct DEF Slots
<1>6. PICK pos \in Numbers : Linked(h, on, pos)
  BY DEF Lists
<1>7. Linked(g, on, pos)
  <2>1. SUFFICES ASSUME NEW l \in Heads, NEW s \in Slots(on, l)
                 PROVE  /\ Succ(g, l, s) \in Slots(on, l) /\ g.back[Succ(g, l, s)] = s
                        /\ g.back[s] \in Slots(on, l) /\ Succ(g, l, g.back[s]) = s
                        /\ s \in Tasks /\ g.next[s] # NULL => pos[s] < pos[g.next[s]]
    BY DEF Linked
  <2>2. /\ Succ(h, l, s) \in Slots(on, l) /\ h.back[Succ(h, l, s)] = s
        /\ h.back[s] \in Slots(on, l) /\ Succ(h, l, h.back[s]) = s
        /\ s \in Tasks /\ h.next[s] # NULL => pos[s] < pos[h.next[s]]
    BY <1>6 DEF Linked
  <2>3. \A t \in Slots(on, l) :
          g.next[t] = h.next[t] /\ g.back[t] = h.back[t] /\ Succ(g, l, t) = Succ(h, l, t)
    BY <1>4, <1>5 DEF Succ
  <2>4. QED
    BY <2>2, <2>3
<1>8. Sorted(g, on, p)
  <2>1. \A t \in Tasks : on[t] = ReadyList => g.next[t] = h.next[t]
    BY <1>4, Distinct, ReadyHead
  <2>2. QED
    BY <2>1 DEF Sorted
<1>9. QED
  BY <1>2, <1>4, <1>6, <1>7, <1>8 DEF Lists, g

-----------------------------------------------------------------------------
(* Induction on the natural numbers, for sets of them.                      *)
LEMMA NatMin ==
  ASSUME NEW S \in SUBSET Nat, S # {}
  PROVE  \E m \in S : \A k \in S : m <= k
<1> DEFINE R == OpToRel(<, Nat)
<1>1. IsWellFoundedOn(R, Nat)
  BY NatLessThanWellFounded
<1>2. \A k, m \in Nat : k < m => <<k, m>> \in R
  BY DEF OpToRel
<1> HIDE DEF R
<1>3. PICK m \in S : \A k \in S : ~(<<k, m>> \in R)
  BY <1>1, WFMin
<1>4. ASSUME NEW k \in S PROVE m <= k
  <2>1. ~(k < m)
    BY <1>2, <1>3
  <2>2. QED
    BY <2>1
<1>5. QED
  BY <1>4

LEMMA NatInduct ==
  ASSUME NEW S \in SUBSET Nat, 0 \in S, \A k \in S : k + 1 \in S
  PROVE  S = Nat
<1>1. SUFFICES ASSUME Nat \ S # {} PROVE FALSE
  OBVIOUS
<1>2. PICK m \in Nat \ S : \A k \in Nat \ S : m <= k
  BY <1>1, NatMin
<1>3. m - 1 \in Nat /\ (m - 1) + 1 = m
  BY <1>2
<1>4. m - 1 \in S
  BY <1>2, <1>3
<1>5. QED
  BY <1>2, <1>3, <1>4

(* The first of the tasks of a set, as a numbering has them.                *)
LEMMA FirstNumbered ==
  ASSUME NEW pos \in Numbers, NEW S \in SUBSET Tasks, S # {}
  PROVE  \E t \in S : \A u \in S : pos[t] <= pos[u]
<1> DEFINE N == {pos[t] : t \in S}
<1>1. N \in SUBSET Nat /\ N # {}
  BY DEF Numbers
<1> HIDE DEF N
<1>2. PICK m \in N : \A k \in N : m <= k
  BY <1>1, NatMin
<1>3. QED
  BY <1>2 DEF N

-----------------------------------------------------------------------------
(* The walk of TAILQ_FOREACH.                                               *)
NTasks == TQ!Cardinality(Tasks)

LEMMA NTasksType == NTasks = Cardinality(Tasks) /\ NTasks \in Nat
<1>1. TQ!Cardinality(Tasks) = Cardinality(Tasks)
  BY DEF TQ!Cardinality, Cardinality
<1>2. QED
  BY <1>1, TasksAssumption, FS_CardinalityType DEF NTasks

(* The definition of Nth has a solution, which CHOOSE then finds.           *)
LEMMA WalkExists ==
  ASSUME NEW h \in TQ!Heap, NEW l \in TQ!Slot
  PROVE  \E f \in [0..NTasks -> Tasks \cup {NULL}] :
           f = [n \in 0..NTasks |->
                  IF n = 0 THEN h.next[l]
                  ELSE IF f[n - 1] = NULL THEN NULL ELSE h.next[f[n - 1]]]
<1> DEFINE Walks(k, f) ==
             f[0] = h.next[l]
             /\ \A n \in 0..k : n > 0 =>
                  f[n] = IF f[n - 1] = NULL THEN NULL ELSE h.next[f[n - 1]]
           S == {k \in Nat : \E f \in [0..k -> Tasks \cup {NULL}] : Walks(k, f)}
<1>1. h.next[l] \in Tasks \cup {NULL} /\ \A t \in Tasks : h.next[t] \in Tasks \cup {NULL}
  BY Distinct DEF TQ!Heap
<1>2. 0 \in S
  <2> DEFINE f == [n \in 0..0 |-> h.next[l]]
  <2>1. f \in [0..0 -> Tasks \cup {NULL}] /\ Walks(0, f)
    BY <1>1
  <2>2. QED
    BY <2>1
<1>3. ASSUME NEW k \in S PROVE k + 1 \in S
  <2>1. PICK f \in [0..k -> Tasks \cup {NULL}] : Walks(k, f)
    OBVIOUS
  <2> DEFINE last == IF f[k] = NULL THEN NULL ELSE h.next[f[k]]
             g == [n \in 0..(k + 1) |-> IF n = k + 1 THEN last ELSE f[n]]
  <2>2. k \in Nat /\ f[k] \in Tasks \cup {NULL}
    OBVIOUS
  <2>3. last \in Tasks \cup {NULL}
    BY <1>1, <2>2
  <2> HIDE DEF last
  <2>4. g \in [0..(k + 1) -> Tasks \cup {NULL}]
    BY <2>2, <2>3
  <2>5. g[k + 1] = last /\ \A n \in 0..k : g[n] = f[n]
    BY <2>2
  <2> HIDE DEF g
  <2>6. g[0] = h.next[l]
    BY <2>1, <2>2, <2>5
  <2>7. ASSUME NEW n \in 0..(k + 1), n > 0
        PROVE  g[n] = IF g[n - 1] = NULL THEN NULL ELSE h.next[g[n - 1]]
    <3>1. CASE n = k + 1
      <4>1. n - 1 = k /\ k \in 0..k
        BY <2>2, <3>1
      <4>2. g[n - 1] = f[k]
        BY <2>5, <4>1
      <4>3. QED
        BY <2>5, <3>1, <4>2 DEF last
    <3>2. CASE n # k + 1
      <4>1. n \in 0..k /\ n - 1 \in 0..k
        BY <2>2, <2>7, <3>2
      <4>2. g[n] = f[n] /\ g[n - 1] = f[n - 1]
        BY <2>5, <4>1
      <4>3. QED
        BY <2>1, <2>7, <4>1, <4>2
    <3>3. QED
      BY <3>1, <3>2
  <2>8. Walks(k + 1, g)
    BY <2>6, <2>7
  <2>9. QED
    BY <2>2, <2>4, <2>8
<1>4. S = Nat
  <2> HIDE DEF S
  <2>1. S \in SUBSET Nat
    BY DEF S
  <2>2. QED
    BY <1>2, <1>3, <2>1, NatInduct
<1>5. PICK f \in [0..NTasks -> Tasks \cup {NULL}] : Walks(NTasks, f)
  BY <1>4, NTasksType
<1>6. \A n \in 0..NTasks : f[n] = IF n = 0 THEN h.next[l]
                                  ELSE IF f[n - 1] = NULL THEN NULL ELSE h.next[f[n - 1]]
  BY <1>5, NTasksType
<1>7. QED
  BY <1>6

LEMMA Walk ==
  ASSUME NEW h \in TQ!Heap, NEW l \in TQ!Slot
  PROVE  /\ TQ!Nth(h, l) \in [0..NTasks -> Tasks \cup {NULL}]
         /\ TQ!Nth(h, l)[0] = h.next[l]
         /\ \A n \in 0..NTasks : n > 0 =>
              TQ!Nth(h, l)[n] = IF TQ!Nth(h, l)[n - 1] = NULL THEN NULL
                                ELSE h.next[TQ!Nth(h, l)[n - 1]]
<1> DEFINE at == TQ!Nth(h, l)
<1>1. at = CHOOSE f : f = [n \in 0..NTasks |->
                             IF n = 0 THEN h.next[l]
                             ELSE IF f[n - 1] = NULL THEN NULL ELSE h.next[f[n - 1]]]
  BY DEF TQ!Nth, NTasks
<1>2. \E f : f = [n \in 0..NTasks |->
                    IF n = 0 THEN h.next[l]
                    ELSE IF f[n - 1] = NULL THEN NULL ELSE h.next[f[n - 1]]]
  <2>1. PICK f \in [0..NTasks -> Tasks \cup {NULL}] :
          f = [n \in 0..NTasks |->
                 IF n = 0 THEN h.next[l]
                 ELSE IF f[n - 1] = NULL THEN NULL ELSE h.next[f[n - 1]]]
    BY WalkExists
  <2>2. QED
    BY <2>1
<1> HIDE DEF at
<1>3. at = [n \in 0..NTasks |->
              IF n = 0 THEN h.next[l]
              ELSE IF at[n - 1] = NULL THEN NULL ELSE h.next[at[n - 1]]]
  BY <1>1, <1>2
<1>4. 0 \in 0..NTasks
  BY NTasksType
<1> DEFINE step(n) == IF n = 0 THEN h.next[l]
                      ELSE IF at[n - 1] = NULL THEN NULL ELSE h.next[at[n - 1]]
<1>5. at = [n \in 0..NTasks |-> step(n)]
  BY <1>3
<1> HIDE DEF step
<1>6. \A n \in 0..NTasks : at[n] = step(n)
  BY <1>5
<1>7. /\ at[0] = h.next[l]
      /\ \A n \in 0..NTasks : n > 0 =>
           at[n] = IF at[n - 1] = NULL THEN NULL ELSE h.next[at[n - 1]]
  BY <1>4, <1>6 DEF step
<1>8. \A n \in 0..NTasks : at[n] \in Tasks \cup {NULL}
  <2> DEFINE S == {n \in Nat : n \in 0..NTasks => at[n] \in Tasks \cup {NULL}}
  <2>1. h.next[l] \in Tasks \cup {NULL} /\ \A t \in Tasks : h.next[t] \in Tasks \cup {NULL}
    BY Distinct DEF TQ!Heap
  <2>2. 0 \in S
    BY <1>7, <2>1
  <2>3. ASSUME NEW k \in S PROVE k + 1 \in S
    <3>1. SUFFICES ASSUME k + 1 \in 0..NTasks PROVE at[k + 1] \in Tasks \cup {NULL}
      OBVIOUS
    <3>2. k \in Nat /\ k \in 0..NTasks /\ k + 1 > 0 /\ (k + 1) - 1 = k
      BY <3>1, NTasksType
    <3>3. at[k] \in Tasks \cup {NULL}
      BY <3>2
    <3>4. at[k + 1] = IF at[k] = NULL THEN NULL ELSE h.next[at[k]]
      BY <1>7, <3>1, <3>2
    <3>5. QED
      BY <2>1, <3>3, <3>4
  <2>4. S = Nat
    <3> HIDE DEF S
    <3>1. S \in SUBSET Nat
      BY DEF S
    <3>2. QED
      BY <2>2, <2>3, <3>1, NatInduct
  <2>5. QED
    BY <2>4, NTasksType
<1>9. QED
  BY <1>3, <1>7, <1>8 DEF at

(* On a list, the walk meets its elements in the order of their numbers,    *)
(* and no other.                                                           *)
LEMMA WalkGrows ==
  ASSUME NEW h \in TQ!Heap, NEW on \in Places, NEW pos \in Numbers, NEW l \in Heads,
         Linked(h, on, pos), NEW n \in 0..NTasks, TQ!Nth(h, l)[n] # NULL
  PROVE  /\ TQ!Nth(h, l)[n] \in Tasks /\ on[TQ!Nth(h, l)[n]] = l
         /\ \A k \in 0..NTasks : k < n =>
              TQ!Nth(h, l)[k] # NULL /\ pos[TQ!Nth(h, l)[k]] < pos[TQ!Nth(h, l)[n]]
<1> DEFINE at == TQ!Nth(h, l)
           Good(i) == i \in 0..NTasks /\ at[i] # NULL =>
                        /\ at[i] \in Tasks /\ on[at[i]] = l
                        /\ \A k \in 0..NTasks : k < i => at[k] # NULL /\ pos[at[k]] < pos[at[i]]
           S == {i \in Nat : Good(i)}
<1>1. /\ at \in [0..NTasks -> Tasks \cup {NULL}] /\ at[0] = h.next[l]
      /\ \A i \in 0..NTasks : i > 0 =>
           at[i] = IF at[i - 1] = NULL THEN NULL ELSE h.next[at[i - 1]]
  BY Walk, HeadsAreSlots
<1> HIDE DEF at
<1>2. ASSUME NEW s \in Slots(on, l), h.next[s] # NULL
      PROVE  on[h.next[s]] = l /\ h.next[s] \in Tasks /\ (s \in Tasks => pos[s] < pos[h.next[s]])
  <2>1. s \in TQ!Slot
    BY SlotsType
  <2>2. h.next[s] \in Tasks
    BY <1>2, <2>1 DEF TQ!Heap
  <2>3. Succ(h, l, s) = h.next[s]
    BY <1>2 DEF Succ
  <2>4. h.next[s] \in Slots(on, l) /\ (s \in Tasks => pos[s] < pos[h.next[s]])
    BY <1>2, <2>3 DEF Linked
  <2>5. QED
    BY <2>2, <2>4, Distinct DEF Slots
<1>3. Good(0)
  <2>1. l \in Slots(on, l)
    BY DEF Slots
  <2>2. \A k \in 0..NTasks : ~(k < 0)
    BY NTasksType
  <2>3. QED
    BY <1>1, <1>2, <2>1, <2>2
<1>4. ASSUME NEW i \in Nat, Good(i) PROVE Good(i + 1)
  <2>1. SUFFICES ASSUME i + 1 \in 0..NTasks, at[i + 1] # NULL
                 PROVE  /\ at[i + 1] \in Tasks /\ on[at[i + 1]] = l
                        /\ \A k \in 0..NTasks : k < i + 1 =>
                             at[k] # NULL /\ pos[at[k]] < pos[at[i + 1]]
    OBVIOUS
  <2>2. i \in 0..NTasks /\ i + 1 > 0 /\ (i + 1) - 1 = i
    BY <2>1, NTasksType
  <2>3. at[i] # NULL /\ at[i + 1] = h.next[at[i]]
    BY <1>1, <2>1, <2>2
  <2>4. /\ at[i] \in Tasks /\ on[at[i]] = l
        /\ \A k \in 0..NTasks : k < i => at[k] # NULL /\ pos[at[k]] < pos[at[i]]
    BY <1>4, <2>2, <2>3
  <2>5. at[i] \in Slots(on, l)
    BY <2>4 DEF Slots
  <2>6. at[i + 1] \in Tasks /\ on[at[i + 1]] = l /\ pos[at[i]] < pos[at[i + 1]]
    BY <1>2, <2>1, <2>3, <2>4, <2>5
  <2>7. ASSUME NEW k \in 0..NTasks, k < i + 1
        PROVE  at[k] # NULL /\ pos[at[k]] < pos[at[i + 1]]
    <3>1. CASE k = i
      BY <2>3, <2>6, <3>1
    <3>2. CASE k # i
      <4>1. k < i
        BY <2>2, <2>7, <3>2, NTasksType
      <4>2. at[k] # NULL /\ pos[at[k]] < pos[at[i]]
        BY <2>4, <4>1
      <4>3. at[k] \in Tasks
        BY <1>1, <4>2
      <4>4. pos[at[k]] \in Nat /\ pos[at[i]] \in Nat /\ pos[at[i + 1]] \in Nat
        BY <2>4, <2>6, <4>3 DEF Numbers
      <4>5. QED
        BY <2>6, <4>2, <4>4
    <3>3. QED
      BY <3>1, <3>2
  <2>8. QED
    BY <2>6, <2>7
<1>5. S = Nat
  <2> HIDE DEF Good
  <2>1. S \in SUBSET Nat /\ 0 \in S /\ \A i \in S : i + 1 \in S
    BY <1>3, <1>4
  <2> HIDE DEF S
  <2>2. QED
    BY <2>1, NatInduct
<1>6. Good(n)
  <2>1. n \in Nat
    BY NTasksType
  <2>2. QED
    BY <1>5, <2>1
<1>7. QED
  BY <1>6 DEF at

(* There are not as many tasks as the walk has steps: it ends.              *)
LEMMA WalkEnds ==
  ASSUME NEW h \in TQ!Heap, NEW on \in Places, Lists(h, on), NEW l \in Heads
  PROVE  TQ!Ends(h, l) /\ TQ!Nth(h, l)[NTasks] = NULL
<1> DEFINE at == TQ!Nth(h, l)
<1>1. PICK pos \in Numbers : Linked(h, on, pos)
  BY DEF Lists
<1>2. SUFFICES ASSUME at[NTasks] # NULL PROVE FALSE
  BY DEF TQ!Ends, NTasks
<1>3. NTasks \in 0..NTasks
  BY NTasksType
<1>4. \A k \in 0..NTasks : at[k] # NULL
  BY <1>1, <1>2, <1>3, NTasksType, WalkGrows
<1>5. \A k \in 0..NTasks : at[k] \in Tasks
  BY <1>1, <1>4, WalkGrows
<1>6. at \in [0..NTasks -> Tasks]
  BY <1>5, Walk, HeadsAreSlots
<1>7. ASSUME NEW i \in 0..NTasks, NEW k \in 0..NTasks, at[i] = at[k] PROVE i = k
  <2>1. i < k => pos[at[i]] < pos[at[k]]
    BY <1>1, <1>4, WalkGrows
  <2>2. k < i => pos[at[k]] < pos[at[i]]
    BY <1>1, <1>4, WalkGrows
  <2>3. pos[at[i]] \in Nat
    BY <1>5 DEF Numbers
  <2> HIDE DEF at
  <2>4. ~(i < k) /\ ~(k < i)
    BY <1>7, <2>1, <2>2, <2>3
  <2>5. QED
    BY <2>4, NTasksType
<1> HIDE DEF at
<1>8. IsFiniteSet(0..NTasks) /\ Cardinality(0..NTasks) = NTasks + 1
  <2>1. 0 \in Int /\ NTasks \in Int /\ 0 <= NTasks
    BY NTasksType
  <2>2. /\ IsFiniteSet(0..NTasks)
        /\ Cardinality(0..NTasks) = IF 0 > NTasks THEN 0 ELSE NTasks - 0 + 1
    BY <2>1, FS_Interval
  <2>3. QED
    BY <2>1, <2>2
<1>9. \E i, k \in 0..NTasks : i # k /\ at[i] = at[k]
  <2>1. Cardinality(Tasks) < Cardinality(0..NTasks)
    BY <1>8, NTasksType
  <2>2. QED
    BY <1>6, <1>8, <2>1, TasksAssumption, FS_PigeonHole
<1>10. QED
  BY <1>7, <1>9

(* The elements of a list are those that the walk meets.                    *)
LEMMA MembersAre ==
  ASSUME NEW h \in TQ!Heap, NEW on \in Places, Lists(h, on), NEW l \in Heads
  PROVE  TQ!Members(h, l) = {t \in Tasks : on[t] = l}
<1> DEFINE at == TQ!Nth(h, l)
           S == {t \in Tasks : on[t] = l /\ t \notin TQ!Members(h, l)}
<1>1. PICK pos \in Numbers : Linked(h, on, pos)
  BY DEF Lists
<1>2. TQ!Members(h, l) = {at[n] : n \in 0..NTasks} \ {NULL}
  BY DEF TQ!Members, NTasks
<1>3. \A n \in 0..NTasks : at[n] # NULL => at[n] \in Tasks /\ on[at[n]] = l
  BY <1>1, WalkGrows
<1>4. SUFFICES ASSUME S # {} PROVE FALSE
  BY <1>2, <1>3
<1>5. PICK t \in S : \A u \in S : pos[t] <= pos[u]
  BY <1>4, FirstNumbered
<1> DEFINE b == h.back[t]
<1>6. t \in Slots(on, l) /\ t \in Tasks /\ t # l
  BY <1>5, Distinct DEF Slots
<1>7. b \in Slots(on, l) /\ Succ(h, l, b) = t
  BY <1>1, <1>6 DEF Linked
<1>8. h.next[b] = t /\ t # NULL
  BY <1>6, <1>7, Distinct DEF Succ
<1> HIDE DEF b
<1>9. \E n \in 0..NTasks : at[n] = t
  <2>1. CASE b = l
    BY <1>8, <2>1, Walk, HeadsAreSlots, NTasksType
  <2>2. CASE b # l
    <3>1. b \in Tasks /\ on[b] = l
      BY <1>7, <2>2 DEF Slots
    <3>2. pos[b] < pos[t] /\ pos[b] \in Nat /\ pos[t] \in Nat
      BY <1>1, <1>6, <1>7, <1>8, <3>1 DEF Linked, Numbers
    <3>3. b \notin S
      BY <1>5, <3>2
    <3>4. b \in TQ!Members(h, l)
      BY <3>1, <3>3
    <3>5. PICK n \in 0..NTasks : at[n] = b
      BY <1>2, <3>4
    <3>6. n # NTasks
      BY <3>1, <3>5, WalkEnds, Distinct
    <3>7. n + 1 \in 0..NTasks /\ n + 1 > 0 /\ (n + 1) - 1 = n
      BY <3>6, NTasksType
    <3>8. at[n + 1] = IF at[n] = NULL THEN NULL ELSE h.next[at[n]]
      BY <3>7, Walk, HeadsAreSlots
    <3>9. b # NULL
      BY <3>1, Distinct
    <3>10. QED
      BY <1>8, <3>5, <3>7, <3>8, <3>9
  <2>3. QED
    BY <2>1, <2>2
<1>10. t \in TQ!Members(h, l)
  BY <1>2, <1>8, <1>9
<1>11. QED
  BY <1>5, <1>10

LEMMA ListIsWellFormed ==
  ASSUME NEW h \in TQ!Heap, NEW on \in Places, Lists(h, on), NEW l \in Heads
  PROVE  TQ!WellFormed(h, l)
<1>1. PICK pos \in Numbers : Linked(h, on, pos)
  BY DEF Lists
<1>2. {l} \cup TQ!Members(h, l) = Slots(on, l)
  BY MembersAre DEF Slots
<1>3. \A e \in TQ!Members(h, l) : h.back[e] \in Slots(on, l) /\ h.next[h.back[e]] = e
  <2>1. SUFFICES ASSUME NEW e \in TQ!Members(h, l)
                 PROVE  h.back[e] \in Slots(on, l) /\ h.next[h.back[e]] = e
    OBVIOUS
  <2>2. e \in Slots(on, l) /\ e \in Tasks
    BY <1>2, MembersAre
  <2>3. h.back[e] \in Slots(on, l) /\ Succ(h, l, h.back[e]) = e
    BY <1>1, <2>2 DEF Linked
  <2>4. QED
    BY <2>2, <2>3, Distinct DEF Succ
<1>4. h.back[l] \in Slots(on, l) /\ h.next[h.back[l]] = NULL
  <2>1. l \in Slots(on, l)
    BY DEF Slots
  <2>2. h.back[l] \in Slots(on, l) /\ Succ(h, l, h.back[l]) = l
    BY <1>1, <2>1 DEF Linked
  <2>3. h.next[h.back[l]] \in Tasks \cup {NULL}
    BY <2>2, SlotsType DEF TQ!Heap
  <2>4. QED
    BY <2>2, <2>3, Distinct DEF Succ
<1>5. QED
  BY <1>2, <1>3, <1>4, WalkEnds DEF TQ!WellFormed

LEMMA FirstOfList ==
  ASSUME NEW h \in TQ!Heap, NEW on \in Places, Lists(h, on), NEW l \in Heads
  PROVE  /\ h.next[l] # NULL => h.next[l] \in Tasks /\ on[h.next[l]] = l
         /\ h.next[l] = NULL => \A t \in Tasks : on[t] # l
<1>1. l \in Slots(on, l) /\ l \in TQ!Slot
  BY Distinct DEF Slots
<1>2. Succ(h, l, l) \in Slots(on, l) /\ h.back[Succ(h, l, l)] = l
  BY <1>1 DEF Lists, Linked
<1>3. h.next[l] # NULL => h.next[l] \in Tasks /\ on[h.next[l]] = l
  <2>1. h.next[l] # NULL => h.next[l] \in Tasks
    BY <1>1 DEF TQ!Heap
  <2>2. QED
    BY <1>2, <2>1, Distinct DEF Succ, Slots
<1>4. ASSUME h.next[l] = NULL, NEW t \in Tasks, on[t] = l PROVE FALSE
  <2>1. t \in TQ!Members(h, l)
    BY <1>4, MembersAre
  <2>2. PICK n \in 0..NTasks : TQ!Nth(h, l)[n] = t
    BY <2>1 DEF TQ!Members, NTasks
  <2>3. t # NULL /\ 0 \in 0..NTasks
    BY Distinct, NTasksType
  <2>4. TQ!Nth(h, l)[0] = NULL
    BY <1>4, Walk, HeadsAreSlots
  <2>5. PICK pos \in Numbers : Linked(h, on, pos)
    BY DEF Lists
  <2>6. ~(0 < n)
    BY <2>2, <2>3, <2>4, <2>5, WalkGrows
  <2>7. n = 0
    BY <2>6, NTasksType
  <2>8. QED
    BY <2>2, <2>3, <2>4, <2>7
<1>5. QED
  BY <1>3, <1>4

(* The walk over an empty list meets nothing, well linked or not.           *)
LEMMA EmptyWalk ==
  ASSUME NEW h \in TQ!Heap, NEW l \in TQ!Slot, h.next[l] = NULL
  PROVE  TQ!Members(h, l) = {}
<1> DEFINE at == TQ!Nth(h, l)
           S == {n \in Nat : n \in 0..NTasks => at[n] = NULL}
<1>1. /\ at[0] = NULL
      /\ \A n \in 0..NTasks : n > 0 =>
           at[n] = IF at[n - 1] = NULL THEN NULL ELSE h.next[at[n - 1]]
  BY Walk
<1> HIDE DEF at
<1>2. ASSUME NEW k \in S PROVE k + 1 \in S
  <2>1. SUFFICES ASSUME k + 1 \in 0..NTasks PROVE at[k + 1] = NULL
    OBVIOUS
  <2>2. k \in 0..NTasks /\ k + 1 > 0 /\ (k + 1) - 1 = k
    BY <2>1, NTasksType
  <2>3. at[k] = NULL
    BY <2>2
  <2>4. QED
    BY <1>1, <2>1, <2>2, <2>3
<1>3. 0 \in S
  BY <1>1
<1>4. S = Nat
  <2> HIDE DEF S
  <2>1. S \in SUBSET Nat
    BY DEF S
  <2>2. QED
    BY <1>2, <1>3, <2>1, NatInduct
<1>5. \A n \in 0..NTasks : at[n] = NULL
  BY <1>4, NTasksType
<1>6. QED
  BY <1>5 DEF TQ!Members, NTasks, at

-----------------------------------------------------------------------------
Priorities == [Tasks -> Prios]

LEMMA PrioNat ==
  ASSUME NEW p \in Priorities
  PROVE  \A t \in Tasks : p[t] \in Nat
<1>1. \A r \in Prios : r \in 0..255
  BY PriosAssumption
<1>2. \A t \in Tasks : p[t] \in Prios
  BY DEF Priorities
<1>3. QED
  BY <1>1, <1>2

(* The first task on ReadyList is one of the highest priority.              *)
LEMMA FirstIsHighest ==
  ASSUME NEW h \in TQ!Heap, NEW on \in Places, Lists(h, on), NEW p \in Priorities,
         Sorted(h, on, p), NEW t \in Tasks, on[t] = ReadyList
  PROVE  /\ TQ!First(h, ReadyList) \in Tasks /\ on[TQ!First(h, ReadyList)] = ReadyList
         /\ p[TQ!First(h, ReadyList)] <= p[t]
<1> DEFINE first == TQ!First(h, ReadyList)
           S == {u \in Tasks : on[u] = ReadyList /\ ~(first \in Tasks /\ p[first] <= p[u])}
<1>1. PICK pos \in Numbers : Linked(h, on, pos)
  BY DEF Lists
<1>2. S = {}
  <2>1. SUFFICES ASSUME S # {} PROVE FALSE
    OBVIOUS
  <2>2. PICK v \in S : \A u \in S : pos[v] <= pos[u]
    BY <2>1, FirstNumbered
  <2> DEFINE b == h.back[v]
  <2>3. v \in Slots(on, ReadyList) /\ v \in Tasks /\ v # ReadyList
    BY <2>2, Distinct, ReadyHead DEF Slots
  <2>4. b \in Slots(on, ReadyList) /\ Succ(h, ReadyList, b) = v
    BY <1>1, <2>3, ReadyHead DEF Linked
  <2>5. h.next[b] = v /\ v # NULL
    BY <2>3, <2>4, Distinct DEF Succ
  <2>6. b # ReadyList
    BY <2>2, <2>3, <2>5, PrioNat DEF TQ!First
  <2> HIDE DEF b
  <2>7. b \in Tasks /\ on[b] = ReadyList
    BY <2>4, <2>6 DEF Slots
  <2>8. pos[b] < pos[v] /\ pos[b] \in Nat /\ pos[v] \in Nat
    BY <1>1, <2>3, <2>4, <2>5, <2>7, ReadyHead DEF Linked, Numbers
  <2>9. first \in Tasks /\ p[first] <= p[b]
    BY <2>2, <2>7, <2>8
  <2>10. p[b] <= p[v]
    BY <2>5, <2>7 DEF Sorted
  <2>11. p[first] \in Nat /\ p[b] \in Nat /\ p[v] \in Nat
    BY <2>3, <2>7, <2>9, PrioNat
  <2>12. QED
    BY <2>2, <2>9, <2>10, <2>11
<1>3. first \in Tasks /\ p[first] <= p[t]
  BY <1>2
<1>4. on[first] = ReadyList
  <2>1. ReadyList \in Slots(on, ReadyList)
    BY DEF Slots
  <2>2. Succ(h, ReadyList, ReadyList) \in Slots(on, ReadyList)
    BY <1>1, <2>1, ReadyHead DEF Linked
  <2>3. QED
    BY <1>3, <2>2, Distinct, ReadyHead DEF Succ, Slots, TQ!First
<1>5. QED
  BY <1>3, <1>4

(* What LowerPrio finds: NULL if no task on ReadyList has a lower priority, *)
(* else one that has, behind none that has.                                *)
LEMMA LowerPrioFinds ==
  ASSUME NEW h \in TQ!Heap, NEW on \in Places, Lists(h, on), NEW p \in Priorities,
         NEW tsk \in Tasks
  PROVE  /\ LowerPrio(h, p, tsk) = NULL =>
              \A t \in Tasks : on[t] = ReadyList => p[t] <= p[tsk]
         /\ LowerPrio(h, p, tsk) # NULL =>
              /\ LowerPrio(h, p, tsk) \in Tasks /\ on[LowerPrio(h, p, tsk)] = ReadyList
              /\ p[tsk] < p[LowerPrio(h, p, tsk)]
              /\ \A b \in Tasks : on[b] = ReadyList /\ h.next[b] = LowerPrio(h, p, tsk) =>
                                    p[b] <= p[tsk]
<1> DEFINE at == TQ!Nth(h, ReadyList)
           x == LowerPrio(h, p, tsk)
           Found(e) == \E n \in 0..NTasks :
                         /\ at[n] = e /\ p[e] > p[tsk]
                         /\ \A k \in 0..NTasks : k < n => at[k] # NULL /\ p[at[k]] <= p[tsk]
           found == {e \in Tasks : Found(e)}
<1>1. PICK pos \in Numbers : Linked(h, on, pos)
  BY DEF Lists
<1>2. DOMAIN at = 0..NTasks
  BY Walk, HeadsAreSlots, ReadyHead
<1>3. x = IF found = {} THEN NULL ELSE CHOOSE e \in found : TRUE
  BY <1>2 DEF LowerPrio
<1> HIDE DEF x
<1>4. ASSUME x = NULL, NEW t \in Tasks, on[t] = ReadyList PROVE p[t] <= p[tsk]
  <2>1. found = {}
    BY <1>3, <1>4, Distinct
  <2>2. SUFFICES ASSUME p[t] > p[tsk] PROVE FALSE
    BY PrioNat
  <2> DEFINE S == {n \in 0..NTasks : at[n] # NULL /\ p[at[n]] > p[tsk]}
  <2>3. t \in TQ!Members(h, ReadyList)
    BY <1>4, MembersAre, ReadyHead
  <2>4. S # {}
    BY <2>2, <2>3 DEF TQ!Members, NTasks
  <2>5. S \in SUBSET Nat
    BY NTasksType
  <2> HIDE DEF S
  <2>6. PICK n \in S : \A k \in S : n <= k
    BY <2>4, <2>5, NatMin
  <2>7. n \in 0..NTasks /\ at[n] # NULL /\ p[at[n]] > p[tsk]
    BY DEF S
  <2>8. at[n] \in Tasks
    BY <1>1, <2>7, WalkGrows, ReadyHead
  <2>9. ASSUME NEW k \in 0..NTasks, k < n PROVE at[k] # NULL /\ p[at[k]] <= p[tsk]
    <3>1. at[k] # NULL
      BY <1>1, <2>7, <2>9, WalkGrows, ReadyHead
    <3>2. at[k] \in Tasks
      BY <1>1, <3>1, WalkGrows, ReadyHead
    <3>3. k \notin S
      BY <2>6, <2>7, <2>9, NTasksType
    <3>4. ~(p[at[k]] > p[tsk])
      BY <3>1, <3>3 DEF S
    <3>5. p[at[k]] \in Nat /\ p[tsk] \in Nat
      BY <3>2, PrioNat
    <3>6. QED
      BY <3>1, <3>4, <3>5
  <2>10. at[n] \in found
    BY <2>7, <2>8, <2>9
  <2>11. QED
    BY <2>1, <2>10
<1>5. ASSUME x # NULL
      PROVE  /\ x \in Tasks /\ on[x] = ReadyList /\ p[tsk] < p[x]
             /\ \A b \in Tasks : on[b] = ReadyList /\ h.next[b] = x => p[b] <= p[tsk]
  <2>1. x \in found
    BY <1>3, <1>5
  <2>2. x \in Tasks
    BY <2>1
  <2>3. PICK n \in 0..NTasks :
          /\ at[n] = x /\ p[x] > p[tsk]
          /\ \A k \in 0..NTasks : k < n => at[k] # NULL /\ p[at[k]] <= p[tsk]
    BY <2>1
  <2>4. on[x] = ReadyList
    BY <1>1, <1>5, <2>3, WalkGrows, ReadyHead
  <2>5. p[tsk] < p[x]
    BY <2>2, <2>3, PrioNat
  <2>6. ASSUME NEW b \in Tasks, on[b] = ReadyList, h.next[b] = x PROVE p[b] <= p[tsk]
    <3>1. b \in TQ!Members(h, ReadyList)
      BY <2>6, MembersAre, ReadyHead
    <3>2. PICK k \in 0..NTasks : at[k] = b
      BY <3>1 DEF TQ!Members, NTasks
    <3>3. b \in Slots(on, ReadyList)
      BY <2>6 DEF Slots
    <3>4. pos[b] < pos[x] /\ pos[b] \in Nat /\ pos[x] \in Nat
      BY <1>1, <1>5, <2>2, <2>6, <3>3, ReadyHead DEF Linked, Numbers
    <3>5. n < k => pos[at[n]] < pos[at[k]]
      BY <1>1, <2>6, <3>2, Distinct, WalkGrows, ReadyHead
    <3>6. k < n
      BY <2>3, <3>2, <3>4, <3>5, NTasksType
    <3>7. QED
      BY <2>3, <3>2, <3>6
  <2>7. QED
    BY <2>2, <2>4, <2>5, <2>6
<1>6. QED
  BY <1>4, <1>5 DEF x

(* ReadyAdd puts a task into its place on ReadyList.                        *)
LEMMA ReadyAddLists ==
  ASSUME NEW h \in TQ!Heap, NEW on \in Places, Lists(h, on), NEW p \in Priorities,
         Sorted(h, on, p), NEW e \in Tasks, on[e] = NULL
  PROVE  /\ Lists(ReadyAdd(h, p, e), [on EXCEPT ![e] = ReadyList])
         /\ Sorted(ReadyAdd(h, p, e), [on EXCEPT ![e] = ReadyList], p)
         /\ ReadyAdd(h, p, e).next[WaitList] = h.next[WaitList]
<1> DEFINE g == ReadyAdd(h, p, e)
           x == LowerPrio(h, p, e)
           to == [on EXCEPT ![e] = ReadyList]
<1>1. \A t \in Tasks : to[t] = IF t = e THEN ReadyList ELSE on[t]
  BY DEF Places
<1>2. ASSUME NEW s \in Slots(on, ReadyList), Inserted(h, g, ReadyList, s, e),
             s # ReadyList => p[s] <= p[e],
             h.next[s] # NULL => p[e] <= p[h.next[s]]
      PROVE  Sorted(g, to, p)
  <2>1. /\ g.next[e] = h.next[s] /\ g.next[s] = e
        /\ \A u \in TQ!Slot \ {e, s} : g.next[u] = h.next[u]
    BY <1>2 DEF Inserted
  <2>2. SUFFICES ASSUME NEW t \in Tasks, to[t] = ReadyList, g.next[t] # NULL
                 PROVE  p[t] <= p[g.next[t]]
    BY DEF Sorted
  <2>3. CASE t = e
    BY <1>2, <2>1, <2>2, <2>3
  <2>4. CASE t = s
    BY <1>2, <2>1, <2>2, <2>4, Distinct, ReadyHead
  <2>5. CASE t \notin {e, s}
    <3>1. on[t] = ReadyList /\ g.next[t] = h.next[t]
      BY <1>1, <2>1, <2>2, <2>5, Distinct
    <3>2. QED
      BY <2>2, <3>1 DEF Sorted
  <2>6. QED
    BY <2>3, <2>4, <2>5
<1>3. CASE x = NULL
  <2>1. g = TQ!InsertTail(h, ReadyList, e)
    BY <1>3 DEF ReadyAdd
  <2> DEFINE s == h.back[ReadyList]
  <2>2. /\ s \in Slots(on, ReadyList) /\ h.next[s] = NULL
        /\ Inserted(h, g, ReadyList, s, e) /\ Lists(g, to)
    BY <2>1, InsertTailLists, ReadyHead
  <2> HIDE DEF s, g, x, to
  <2>3. s # ReadyList => p[s] <= p[e]
    BY <1>3, <2>2, LowerPrioFinds DEF Slots, x
  <2>4. Sorted(g, to, p)
    BY <1>2, <2>2, <2>3
  <2>5. QED
    BY <2>2, <2>4, InsertedElsewhere, ReadyHead DEF g, to
<1>4. CASE x # NULL
  <2>1. g = TQ!InsertBefore(h, x, e)
    BY <1>4 DEF ReadyAdd
  <2>2. /\ x \in Tasks /\ on[x] = ReadyList /\ p[e] < p[x]
        /\ \A b \in Tasks : on[b] = ReadyList /\ h.next[b] = x => p[b] <= p[e]
    BY <1>4, LowerPrioFinds
  <2> DEFINE s == h.back[x]
  <2> HIDE DEF x
  <2>3. /\ s \in Slots(on, ReadyList) /\ h.next[s] = x
        /\ Inserted(h, g, ReadyList, s, e) /\ Lists(g, to)
    BY <2>1, <2>2, InsertBeforeLists, ReadyHead
  <2> HIDE DEF s, g, to
  <2>4. s # ReadyList => p[s] <= p[e]
    BY <2>2, <2>3 DEF Slots
  <2>5. p[e] <= p[x]
    BY <2>2, PrioNat
  <2>6. Sorted(g, to, p)
    BY <1>2, <2>3, <2>4, <2>5
  <2>7. QED
    BY <2>3, <2>6, InsertedElsewhere, ReadyHead DEF g, to
<1>5. QED
  BY <1>3, <1>4

(* Taking a task off any list leaves ReadyList sorted, also if the task     *)
(* gets another priority.                                                  *)
LEMMA RemoveSorted ==
  ASSUME NEW h \in TQ!Heap, NEW on \in Places, Lists(h, on),
         NEW p \in Priorities, NEW q \in Priorities,
         Sorted(h, on, p), NEW l \in Heads, NEW e \in Tasks, on[e] = l,
         \A t \in Tasks \ {e} : q[t] = p[t]
  PROVE  Sorted(TQ!Remove(h, l, e), [on EXCEPT ![e] = NULL], q)
<1> DEFINE g == TQ!Remove(h, l, e)
           to == [on EXCEPT ![e] = NULL]
           b == h.back[e]
<1>1. PICK pos \in Numbers : Linked(h, on, pos)
  BY DEF Lists
<1>2. \A t \in Tasks : to[t] = IF t = e THEN NULL ELSE on[t]
  BY DEF Places
<1>3. g.next[b] = h.next[e] /\ \A u \in TQ!Slot \ {b} : g.next[u] = h.next[u]
  BY RemoveLists, ZenonT(40) DEF Removed
<1>4. e \in Slots(on, l) /\ b \in Slots(on, l) /\ Succ(h, l, b) = e
  BY <1>1, Distinct DEF Linked, Slots
<1>5. h.next[b] = e
  BY <1>4, Distinct DEF Succ
<1> HIDE DEF g, to, b
<1>6. SUFFICES ASSUME NEW t \in Tasks, to[t] = ReadyList, g.next[t] # NULL
               PROVE  q[t] <= q[g.next[t]]
  BY DEF Sorted, g, to
<1>7. t # e /\ on[t] = ReadyList /\ t \in TQ!Slot /\ e \in TQ!Slot
  BY <1>2, <1>6, Distinct, ReadyHead
<1>8. ASSUME NEW u \in Tasks, on[u] = ReadyList, h.next[u] # NULL
      PROVE  h.next[u] \in Tasks /\ p[u] <= p[h.next[u]] /\ pos[u] < pos[h.next[u]]
  <2>1. u \in TQ!Slot
    BY Distinct
  <2>2. QED
    BY <1>1, <1>8, <2>1, ReadyHead DEF Sorted, TQ!Heap, Linked, Slots
<1>9. CASE t = b
  <2>1. g.next[t] = h.next[e] /\ l = ReadyList
    BY <1>3, <1>4, <1>7, <1>9, Distinct DEF Slots
  <2>2. h.next[e] \in Tasks /\ p[e] <= p[h.next[e]] /\ pos[e] < pos[h.next[e]]
    BY <1>6, <1>8, <2>1
  <2>3. p[t] <= p[e]
    BY <1>5, <1>7, <1>8, <1>9, Distinct
  <2>4. h.next[e] # e
    BY <2>2 DEF Numbers
  <2>5. q[t] = p[t] /\ q[h.next[e]] = p[h.next[e]]
    BY <1>7, <2>2, <2>4
  <2>6. p[t] \in Nat /\ p[e] \in Nat /\ p[h.next[e]] \in Nat
    BY <2>2, PrioNat
  <2>7. QED
    BY <2>1, <2>2, <2>3, <2>5, <2>6
<1>10. CASE t # b
  <2>1. g.next[t] = h.next[t]
    BY <1>3, <1>7, <1>10
  <2>2. h.next[t] \in Tasks /\ p[t] <= p[h.next[t]]
    BY <1>6, <1>7, <1>8, <2>1
  <2>3. h.next[t] # e
    <3>1. SUFFICES ASSUME h.next[t] = e PROVE FALSE
      OBVIOUS
    <3>2. t \in Slots(on, ReadyList)
      BY <1>7 DEF Slots
    <3>3. Succ(h, ReadyList, t) = e
      BY <3>1, Distinct DEF Succ
    <3>4. h.back[e] = t
      BY <1>1, <3>2, <3>3, ReadyHead DEF Linked
    <3>5. QED
      BY <1>10, <3>4 DEF b
  <2>4. QED
    BY <1>7, <2>1, <2>2, <2>3
<1>11. QED
  BY <1>9, <1>10
=============================================================================
