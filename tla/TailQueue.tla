----------------------------- MODULE TailQueue -----------------------------
(***************************************************************************)
(* The tail queues of include/system/queue.h, at the level of pointers.    *)
(*                                                                         *)
(* An element has one link (tqe_next, tqe_prev) whatever the list it is    *)
(* on, and a list has a head (tqh_first, tqh_last).  A slot is a place     *)
(* that holds a pointer to an element: the tqe_next of an element or the   *)
(* tqh_first of a list; it is named by the element or the list it is in.   *)
(*   h.next[s]  the element that slot s points to (tqe_next, tqh_first)    *)
(*   h.back[s]  the slot whose address is kept beside it (tqe_prev,        *)
(*              tqh_last)                                                  *)
(* The macros assign in order and read what they have just written; the    *)
(* order of the EXCEPT clauses keeps that, so the operators are right also *)
(* for an element that is on a list already.                               *)
(***************************************************************************)
EXTENDS Naturals, FiniteSets

CONSTANTS Elem,   \* the elements, each with one TAILQ_ENTRY
          List,   \* the list heads, distinct from the elements
          NULL    \* neither an element nor a list

Slot == Elem \cup List

Heap == [next : [Slot -> Elem \cup {NULL}], back : [Slot -> Slot \cup {NULL}]]

(* bzero'ed elements and initialised heads.                                *)
EmptyHeap == [next |-> [s \in Slot |-> NULL],
              back |-> [s \in Slot |-> IF s \in List THEN s ELSE NULL]]

First(h, l) == h.next[l]

InsertHead(h, l, e) ==
  LET first == h.next[l]
  IN  [next |-> [h.next EXCEPT ![e] = first, ![l] = e],
       back |-> [h.back EXCEPT ![IF first = NULL THEN l ELSE first] = e, ![e] = l]]

InsertTail(h, l, e) ==
  [next |-> [h.next EXCEPT ![e] = NULL, ![h.back[l]] = e],
   back |-> [h.back EXCEPT ![e] = h.back[l], ![l] = e]]

InsertBefore(h, x, e) ==
  [next |-> [h.next EXCEPT ![e] = x, ![h.back[x]] = e],
   back |-> [h.back EXCEPT ![e] = h.back[x], ![x] = e]]

Remove(h, l, e) ==
  LET after == h.next[e]
  IN  [next |-> [h.next EXCEPT ![h.back[e]] = after],
       back |-> [h.back EXCEPT ![IF after = NULL THEN l ELSE after] = h.back[e]]]

-----------------------------------------------------------------------------
(* The n-th element that TAILQ_FOREACH meets on l, NULL after the last.     *)
(* A list that is not NULL-terminated after all elements goes in a cycle.  *)
Nth(h, l) ==
  LET at[n \in 0..Cardinality(Elem)] ==
        IF n = 0 THEN h.next[l]
        ELSE IF at[n - 1] = NULL THEN NULL ELSE h.next[at[n - 1]]
  IN  at

Members(h, l) == {Nth(h, l)[n] : n \in 0..Cardinality(Elem)} \ {NULL}

Ends(h, l) == Nth(h, l)[Cardinality(Elem)] = NULL

(* The list is what the macros promise: it ends, every back pointer names   *)
(* the slot that points to the element, and tqh_last names the last slot.  *)
WellFormed(h, l) ==
  /\ Ends(h, l)
  /\ \A e \in Members(h, l) :
       /\ h.back[e] \in {l} \cup Members(h, l)
       /\ h.next[h.back[e]] = e
  /\ h.back[l] \in {l} \cup Members(h, l)
  /\ h.next[h.back[l]] = NULL
=============================================================================
