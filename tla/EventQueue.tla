----------------------------- MODULE EventQueue -----------------------------
(***************************************************************************)
(* The event queue of system/drivers/event.c, an assignment to shared      *)
(* memory at a time: interrupt service routines of the keyboard and the    *)
(* mouse and tasks push, tasks push and pop.                               *)
(*                                                                         *)
(* An actor is a task or the interrupt level of a service routine.  The    *)
(* processor runs the service routine of the highest level begun, or the   *)
(* current task if there is none.  What keeps actors out of each other's   *)
(* way is the IPL alone: interrupts of a level at or below it wait, and    *)
(* the scheduler changes tasks only at IPL 0 (Kernel!MaskMatchesNesting).  *)
(*                                                                         *)
(* QUEUELEN is 32: & (QUEUELEN - 1) takes the index QUEUELEN back to 0.    *)
(***************************************************************************)
EXTENDS Naturals, Sequences

CONSTANTS QUEUELEN, EventT,
          Tasks,
          Levels      \* the interrupt levels of the producers, below 7

ASSUME QueueLenAssumption == QUEUELEN \in Nat \ {0}
ASSUME LevelsAssumption == Levels \subseteq 1..6 /\ Tasks \cap Levels = {}

VARIABLES queue, head, tail, used,
          CurrentTask, ipl,
          sr,        \* the IPL below a service routine, in its exception frame
          pc,        \* what an actor does next
          oldipl,    \* the result of SetIPL in PushEventISR
          pushed,    \* the event an actor pushes
          event      \* the buffer that a task passes to PopEvent

shared == <<queue, head, tail, used>>
cpu == <<CurrentTask, ipl, sr>>
vars == <<shared, cpu, pc, oldipl, pushed, event>>

Actors == Tasks \cup Levels

Labels == {"out", "test", "write", "tail", "count", "unmask",
           "popTest", "popRead", "popHead", "popCount"}

TypeOK ==
  /\ queue \in [0..(QUEUELEN - 1) -> EventT]
  /\ head \in 0..(QUEUELEN - 1) /\ tail \in 0..(QUEUELEN - 1)
  /\ used \in 0..QUEUELEN
  /\ CurrentTask \in Tasks /\ ipl \in {0, 7} \cup Levels
  /\ sr \in [Levels -> {0} \cup Levels]
  /\ pc \in [Actors -> Labels \cup {"none"}]
  /\ oldipl \in [Levels -> {0, 7} \cup Levels]
  /\ pushed \in [Actors -> EventT]
  /\ event \in [Tasks -> EventT]

(* Buffers hold anything before they are used.                              *)
Init ==
  /\ head = 0 /\ tail = 0 /\ used = 0
  /\ CurrentTask \in Tasks /\ ipl = 0
  /\ sr = [l \in Levels |-> 0]
  /\ pc = [x \in Actors |-> IF x \in Tasks THEN "out" ELSE "none"]
  /\ oldipl = [l \in Levels |-> l]
  /\ \E ev \in EventT : /\ queue = [i \in 0..(QUEUELEN - 1) |-> ev]
                        /\ pushed = [x \in Actors |-> ev]
                        /\ event = [t \in Tasks |-> ev]

-----------------------------------------------------------------------------
Begun == {l \in Levels : pc[l] # "none"}

Runs(x) ==
  IF x \in Levels THEN x \in Begun /\ \A l \in Begun : l <= x
                  ELSE x = CurrentTask /\ Begun = {}

At(x, label) == Runs(x) /\ pc[x] = label

Goto(x, label) == pc' = [pc EXCEPT ![x] = label]

Wrap(i) == IF i < QUEUELEN THEN i ELSE i - QUEUELEN

(* IntrDisable or SetIPL(SR_IM), then _PushEvent.                           *)
PushEvent(t, ev) ==
  /\ At(t, "out")
  /\ ipl' = 7
  /\ pushed' = [pushed EXCEPT ![t] = ev]
  /\ Goto(t, "test")
  /\ UNCHANGED <<shared, CurrentTask, sr, oldipl, event>>

(* Mistaken variant: a service routine is taken to run undisturbed.         *)
PushEventUnmasked(l, ev) ==
  /\ At(l, "out")
  /\ oldipl' = [oldipl EXCEPT ![l] = ipl]
  /\ pushed' = [pushed EXCEPT ![l] = ev]
  /\ Goto(l, "test")
  /\ UNCHANGED <<shared, cpu, sr, event>>

PushEventISR(l, ev) ==
  /\ At(l, "out")
  /\ oldipl' = [oldipl EXCEPT ![l] = ipl]
  /\ ipl' = 7
  /\ pushed' = [pushed EXCEPT ![l] = ev]
  /\ Goto(l, "test")
  /\ UNCHANGED <<shared, CurrentTask, sr, event>>

(* Mistaken variant: one event too many.                                    *)
PushTestFull(x) ==
  /\ At(x, "test")
  /\ Goto(x, IF used <= QUEUELEN THEN "write" ELSE "unmask")
  /\ UNCHANGED <<shared, cpu, oldipl, pushed, event>>

PushTest(x) ==
  /\ At(x, "test")
  /\ Goto(x, IF used < QUEUELEN THEN "write" ELSE "unmask")
  /\ UNCHANGED <<shared, cpu, oldipl, pushed, event>>

PushWrite(x) ==
  /\ At(x, "write")
  /\ queue' = [queue EXCEPT ![tail] = pushed[x]]
  /\ Goto(x, "tail")
  /\ UNCHANGED <<head, tail, used, cpu, oldipl, pushed, event>>

PushTail(x) ==
  /\ At(x, "tail")
  /\ tail' = Wrap(tail + 1)
  /\ Goto(x, "count")
  /\ UNCHANGED <<queue, head, used, cpu, oldipl, pushed, event>>

PushCount(x) ==
  /\ At(x, "count")
  /\ used' = used + 1
  /\ Goto(x, "unmask")
  /\ UNCHANGED <<queue, head, tail, cpu, oldipl, pushed, event>>

(* SetIPL(ipl) of PushEventISR, or IntrEnable.                              *)
Unmask(x) ==
  /\ At(x, "unmask")
  /\ ipl' = IF x \in Levels THEN oldipl[x] ELSE 0
  /\ Goto(x, "out")
  /\ UNCHANGED <<shared, CurrentTask, sr, oldipl, pushed, event>>

PopEvent(t) ==
  /\ At(t, "out")
  /\ ipl' = 7
  /\ Goto(t, "popTest")
  /\ UNCHANGED <<shared, CurrentTask, sr, oldipl, pushed, event>>

PopTest(t) ==
  /\ At(t, "popTest")
  /\ Goto(t, IF used > 0 THEN "popRead" ELSE "unmask")
  /\ UNCHANGED <<shared, cpu, oldipl, pushed, event>>

PopRead(t) ==
  /\ At(t, "popRead")
  /\ event' = [event EXCEPT ![t] = queue[head]]
  /\ Goto(t, "popHead")
  /\ UNCHANGED <<shared, cpu, oldipl, pushed>>

PopHead(t) ==
  /\ At(t, "popHead")
  /\ head' = Wrap(head + 1)
  /\ Goto(t, "popCount")
  /\ UNCHANGED <<queue, tail, used, cpu, oldipl, pushed, event>>

PopCount(t) ==
  /\ At(t, "popCount")
  /\ used' = used - 1
  /\ Goto(t, "unmask")
  /\ UNCHANGED <<queue, head, tail, cpu, oldipl, pushed, event>>

-----------------------------------------------------------------------------
(* The processor.                                                          *)
EnterIntr(l) ==
  /\ pc[l] = "none" /\ ipl < l
  /\ sr' = [sr EXCEPT ![l] = ipl]
  /\ ipl' = l
  /\ Goto(l, "out")
  /\ UNCHANGED <<shared, CurrentTask, oldipl, pushed, event>>

LeaveIntr(l) ==
  /\ At(l, "out")
  /\ ipl' = sr[l]
  /\ Goto(l, "none")
  /\ UNCHANGED <<shared, CurrentTask, sr, oldipl, pushed, event>>

TaskSwitch(t) ==
  /\ Begun = {} /\ ipl = 0
  /\ CurrentTask' = t
  /\ UNCHANGED <<shared, ipl, sr, pc, oldipl, pushed, event>>

Next ==
  \/ \E x \in Actors :
       PushTest(x) \/ PushWrite(x) \/ PushTail(x) \/ PushCount(x) \/ Unmask(x)
  \/ \E t \in Tasks :
       \/ \E ev \in EventT : PushEvent(t, ev)
       \/ PopEvent(t) \/ PopTest(t) \/ PopRead(t) \/ PopHead(t) \/ PopCount(t)
       \/ TaskSwitch(t)
  \/ \E l \in Levels :
       \/ \E ev \in EventT : PushEventISR(l, ev)
       \/ EnterIntr(l) \/ LeaveIntr(l)

Spec == Init /\ [][Next]_vars

-----------------------------------------------------------------------------
(* The events waiting.  An event is in once used counts it, and out once    *)
(* PopEvent has read it.                                                   *)
First == IF \E t \in Tasks : pc[t] = "popHead" THEN Wrap(head + 1) ELSE head

Waiting ==
  IF \E t \in Tasks : pc[t] \in {"popHead", "popCount"} THEN used - 1 ELSE used

Contents == [i \in 1..Waiting |-> queue[Wrap(First + i - 1)]]

Call == [x \in Actors |->
           IF pc[x] \in {"test", "write", "tail", "count"} THEN "push"
           ELSE IF pc[x] \in {"popTest", "popRead"} THEN "pop" ELSE "none"]

Fifo == INSTANCE EventFifo
          WITH Producers <- Actors, Consumers <- Tasks, queue <- Contents, call <- Call

(* Every push and pop takes effect once and in order, and an event is       *)
(* dropped only from a full queue, whatever service routine or task comes  *)
(* in between two assignments of another.                                  *)
RefinesFifo == Fifo!Spec
=============================================================================
