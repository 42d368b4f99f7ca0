----------------------------- MODULE EventFifo -----------------------------
(***************************************************************************)
(* What PushEvent, PushEventISR and PopEvent promise: a queue of at most   *)
(* QUEUELEN events, first in first out.  A call takes effect once, in one  *)
(* step between its begin and its return.  An event is dropped only when   *)
(* the queue is full, and PopEvent finds none only when it is empty.       *)
(***************************************************************************)
EXTENDS Naturals, Sequences

CONSTANTS QUEUELEN, EventT,
          Producers,   \* tasks and interrupt service routines
          Consumers    \* tasks

VARIABLES queue,    \* the events waiting, the oldest first
          call,     \* the call that has yet to take effect
          pushed,   \* the argument of PushEvent or PushEventISR
          event     \* the buffer that each task passes to PopEvent

Init ==
  /\ queue = <<>>
  /\ call = [x \in Producers \cup Consumers |-> "none"]
  /\ pushed \in [Producers -> EventT]
  /\ event \in [Consumers -> EventT]

BeginPush(x, ev) ==
  /\ call[x] = "none"
  /\ call' = [call EXCEPT ![x] = "push"]
  /\ pushed' = [pushed EXCEPT ![x] = ev]
  /\ UNCHANGED <<queue, event>>

Push(x) ==
  /\ call[x] = "push" /\ call' = [call EXCEPT ![x] = "none"]
  /\ Len(queue) < QUEUELEN
  /\ queue' = Append(queue, pushed[x])
  /\ UNCHANGED <<pushed, event>>

Drop(x) ==
  /\ call[x] = "push" /\ call' = [call EXCEPT ![x] = "none"]
  /\ Len(queue) = QUEUELEN
  /\ UNCHANGED <<queue, pushed, event>>

BeginPop(t) ==
  /\ call[t] = "none" /\ call' = [call EXCEPT ![t] = "pop"]
  /\ UNCHANGED <<queue, pushed, event>>

Pop(t) ==
  /\ call[t] = "pop" /\ call' = [call EXCEPT ![t] = "none"]
  /\ queue # <<>>
  /\ event' = [event EXCEPT ![t] = Head(queue)]
  /\ queue' = Tail(queue)
  /\ UNCHANGED pushed

FindEmpty(t) ==
  /\ call[t] = "pop" /\ call' = [call EXCEPT ![t] = "none"]
  /\ queue = <<>>
  /\ UNCHANGED <<queue, pushed, event>>

Next ==
  \/ \E x \in Producers : (\E ev \in EventT : BeginPush(x, ev)) \/ Push(x) \/ Drop(x)
  \/ \E t \in Consumers : BeginPop(t) \/ Pop(t) \/ FindEmpty(t)

Spec == Init /\ [][Next]_<<queue, call, pushed, event>>
=============================================================================
