------------------------------- MODULE Serial -------------------------------
(***************************************************************************)
(* The serial port of system/drivers/serial.c: two rings of characters     *)
(* between tasks, the transmit and receive interrupts, and the registers   *)
(* of the port.                                                            *)
(*                                                                         *)
(* A call is split where its task is preempted or the hardware steps in:   *)
(* IntrDisable, and what follows up to TaskWait or IntrEnable.  The        *)
(* service routines share no data but for that with masked tasks, so each  *)
(* is one step.  With interrupts enabled a pending interrupt comes before  *)
(* the next step of a task, that of the receiver (level 5) before that of  *)
(* the transmitter (level 1).                                              *)
(*                                                                         *)
(* Of the scheduler the module takes what task.h promises: a task in       *)
(* TaskWait runs again after its event, with interrupts masked.  (The      *)
(* runs of Kernel show where WaitList breaks the promise.)  Characters     *)
(* arrive more slowly than the service routine takes them.                 *)
(***************************************************************************)
EXTENDS Naturals, Sequences

CONSTANTS QUEUELEN, Tasks, Char,
          NONE,            \* the character -1, and an empty register
          Newline, Return, \* '\n' and '\r'
          Writes,          \* the calls of clients: pairs of a task and a buffer
          Reads,           \* pairs of a task and a number of bytes
          Incoming         \* the characters that the line receives

ASSUME QueueLenAssumption == QUEUELEN \in 1..128
ASSUME CharAssumption ==
  /\ {Newline, Return} \cup Incoming \subseteq Char /\ NONE \notin Char
  /\ Newline # Return

(* Calls of no bytes change nothing.                                        *)
ASSUME ClientAssumption ==
  Writes \subseteq Tasks \X (Seq(Char) \ {<<>>}) /\ Reads \subseteq Tasks \X (Nat \ {0})

VARIABLES port, nonblock,     \* *f: not allocated, open or freed; its flags
          sendq, recvq,
          serdat, serdatr,    \* transmit and receive buffer, NONE if empty
          intreq,             \* requests in INTREQ, of INTF_TBE and INTF_RBF
          CurrentTask, ipl,
          pc,
          out,                \* what a call of SerialWrite has yet to push
          left, got           \* SerialRead: bytes yet to read, the byte read last

queues == <<sendq, recvq>>
regs == <<serdat, serdatr, intreq>>
cpu == <<CurrentTask, ipl>>
vars == <<port, nonblock, queues, regs, cpu, pc, out, left, got>>

Indices == 0..(QUEUELEN - 1)

(* What the bytes of a queue hold before they are written.                  *)
AnyChar == CHOOSE c \in Char : TRUE

(* Labels of pc: "out" of calls; "push" and "pop" in the loops of           *)
(* SerialWrite and SerialRead; "masked push" and "masked pop" behind       *)
(* IntrDisable; "TBE" and "RBF" in TaskWait; "sent" and "came" woken.       *)
Labels == {"out", "push", "masked push", "TBE", "sent",
           "pop", "masked pop", "RBF", "came"}

CharQueueT == [head : Indices, tail : Indices, used : 0..QUEUELEN,
               data : [Indices -> Char]]

(* Every variable keeps to its type: no index or count leaves its ring.     *)
TypeOK ==
  /\ port \in {"closed", "open", "freed"} /\ nonblock \in BOOLEAN
  /\ sendq \in CharQueueT /\ recvq \in CharQueueT
  /\ serdat \in Char \cup {NONE} /\ serdatr \in Char \cup {NONE}
  /\ intreq \subseteq {"TBE", "RBF"}
  /\ CurrentTask \in Tasks /\ ipl \in {0, 7}
  /\ pc \in [Tasks -> Labels]
  /\ out \in [Tasks -> Seq(Char)]
  /\ left \in [Tasks -> Nat]
  /\ got \in [Tasks -> Char \cup {NONE}]

EmptyQueue == [head |-> 0, tail |-> 0, used |-> 0, data |-> [i \in Indices |-> AnyChar]]

Init ==
  /\ port = "closed" /\ nonblock = FALSE
  /\ sendq = EmptyQueue /\ recvq = EmptyQueue
  /\ serdat = NONE /\ serdatr = NONE /\ intreq = {}
  /\ CurrentTask \in Tasks /\ ipl = 0
  /\ pc = [t \in Tasks |-> "out"]
  /\ out = [t \in Tasks |-> <<>>]
  /\ left = [t \in Tasks |-> 0] /\ got = [t \in Tasks |-> NONE]

-----------------------------------------------------------------------------
(* Mistaken variant: the index runs on.                                     *)
WrapNot(i) == i

(* i & (QUEUELEN - 1), the sum of the bits that both have.  The mask of 80  *)
(* is 79, or 1001111 in binary, which takes 16 to 0.                       *)
Bit(n, weight) == (n \div weight) % 2
Wrap(i) ==
  LET common(weight) == IF Bit(i, weight) = 1 /\ Bit(QUEUELEN - 1, weight) = 1
                        THEN weight ELSE 0
  IN  common(1) + common(2) + common(4) + common(8) + common(16) + common(32) + common(64)

(* _PushChar and _PopChar; a full queue drops the character.                *)
Pushed(q, c) ==
  IF q.used < QUEUELEN
  THEN [q EXCEPT !.data[q.tail] = c, !.tail = Wrap(@ + 1), !.used = @ + 1]
  ELSE q

Popped(q) == [q EXCEPT !.head = Wrap(@ + 1), !.used = @ - 1]

-----------------------------------------------------------------------------
(* The processor.  Woken tasks run on with interrupts masked.               *)
Ready(p) == {t \in Tasks : p[t] \notin {"TBE", "RBF"}}

IplOf(t, p) == IF p[t] \in {"sent", "came", "masked push", "masked pop"} THEN 7 ELSE 0

RunTask(t, p) == CurrentTask' = t /\ ipl' = IplOf(t, p)

(* TaskSwitch after TaskWait; with no task ready the processor idles.       *)
Sleep(label) ==
  /\ pc' = [pc EXCEPT ![CurrentTask] = label]
  /\ IF Ready(pc') = {} THEN ipl' = 0 /\ UNCHANGED CurrentTask
                        ELSE \E t \in Ready(pc') : RunTask(t, pc')

(* TaskNotifyISR(event) and LeaveIntr: a woken task may preempt.            *)
Notify(event, woken) ==
  LET tasks == {t \in Tasks : pc[t] = event}
  IN  /\ pc' = [t \in Tasks |-> IF t \in tasks THEN woken ELSE pc[t]]
      /\ IF Ready(pc') = {}
         THEN UNCHANGED cpu
         ELSE \E t \in (tasks \cup {CurrentTask}) \cap Ready(pc') : RunTask(t, pc')

(* Preemption by whatever else the system does.                             *)
TaskSwitch(t) ==
  /\ ipl = 0 /\ intreq = {}
  /\ t \in Ready(pc) \ {CurrentTask}
  /\ RunTask(t, pc)
  /\ UNCHANGED <<port, nonblock, queues, regs, pc, out, left, got>>

Goto(label) == pc' = [pc EXCEPT ![CurrentTask] = label]

(* The current task is at a label with interrupts enabled.                  *)
At(label) == pc[CurrentTask] = label /\ ipl = 0 /\ intreq = {}

-----------------------------------------------------------------------------
(* Sending.  SerialWrite pushes '\r' after each '\n'.                       *)
Rest(text) == IF Head(text) = Newline THEN [text EXCEPT ![1] = Return] ELSE Tail(text)

SerialWrite(text) ==
  /\ At("out") /\ port = "open"
  /\ <<CurrentTask, text>> \in Writes
  /\ out' = [out EXCEPT ![CurrentTask] = text]
  /\ Goto("push")
  /\ UNCHANGED <<port, nonblock, queues, regs, cpu, left, got>>

(* PushChar up to IntrDisable.                                              *)
PushChar ==
  /\ At("push")
  /\ Goto("masked push") /\ ipl' = 7
  /\ UNCHANGED <<port, nonblock, queues, regs, CurrentTask, out, left, got>>

(* IntrEnable, and back to the loop of SerialWrite.                         *)
CharDone ==
  /\ out' = [out EXCEPT ![CurrentTask] = Rest(@)]
  /\ Goto(IF Rest(out[CurrentTask]) = <<>> THEN "out" ELSE "push")
  /\ ipl' = 0
  /\ UNCHANGED <<port, nonblock, recvq, serdatr, intreq, CurrentTask, left, got>>

(* Mistaken variants: only serdat is tested, or the queue is always used.   *)
DirectPastQueue == serdat = NONE
DirectNever == FALSE

(* The queue and serdat are empty: the character need not be queued.        *)
Direct == sendq.used = 0 /\ serdat = NONE

PushDirectly ==
  /\ pc[CurrentTask] = "masked push" /\ Direct
  /\ serdat' = Head(out[CurrentTask])
  /\ CharDone
  /\ UNCHANGED sendq

(* The loop in PushChar: entered at first, or again behind TaskWait.        *)
PushOrWait ==
  /\ \/ pc[CurrentTask] = "masked push" /\ ~Direct
     \/ pc[CurrentTask] = "sent" /\ ipl = 7
  /\ IF sendq.used = QUEUELEN /\ ~nonblock
     THEN /\ Sleep("TBE")
          /\ UNCHANGED <<port, nonblock, queues, regs, out, left, got>>
     ELSE /\ sendq' = Pushed(sendq, Head(out[CurrentTask]))
          /\ CharDone
          /\ UNCHANGED serdat

(* Mistaken variant: notifies once the queue is empty.                      *)
SendIntHandlerLate ==
  /\ port = "open" /\ ipl = 0 /\ intreq = {"TBE"}
  /\ intreq' = {}
  /\ IF sendq.used > 0
     THEN /\ serdat' = sendq.data[sendq.head]
          /\ sendq' = Popped(sendq)
          /\ IF nonblock \/ sendq'.used > 0 THEN UNCHANGED <<pc, cpu>>
                                           ELSE Notify("TBE", "sent")
     ELSE UNCHANGED <<serdat, sendq, pc, cpu>>
  /\ UNCHANGED <<port, nonblock, recvq, serdatr, out, left, got>>

SendIntHandler ==
  /\ port = "open" /\ ipl = 0 /\ intreq = {"TBE"}
  /\ intreq' = {}
  /\ IF sendq.used > 0
     THEN /\ serdat' = sendq.data[sendq.head]
          /\ sendq' = Popped(sendq)
          /\ IF nonblock THEN UNCHANGED <<pc, cpu>> ELSE Notify("TBE", "sent")
     ELSE UNCHANGED <<serdat, sendq, pc, cpu>>
  /\ UNCHANGED <<port, nonblock, recvq, serdatr, out, left, got>>

(* The port: serdat goes to the shift register, which requests INTF_TBE.    *)
Transmit ==
  /\ serdat # NONE
  /\ serdat' = NONE
  /\ intreq' = intreq \cup {"TBE"}
  /\ UNCHANGED <<port, nonblock, queues, serdatr, cpu, pc, out, left, got>>

-----------------------------------------------------------------------------
(* Receiving.                                                              *)
SerialRead(n) ==
  /\ At("out") /\ port = "open"
  /\ <<CurrentTask, n>> \in Reads
  /\ left' = [left EXCEPT ![CurrentTask] = n]
  /\ Goto("pop")
  /\ UNCHANGED <<port, nonblock, queues, regs, cpu, out, got>>

PopChar ==
  /\ At("pop")
  /\ Goto("masked pop") /\ ipl' = 7
  /\ UNCHANGED <<port, nonblock, queues, regs, CurrentTask, out, left, got>>

(* IntrEnable; SerialRead stops after a newline or nbyte characters.        *)
CharRead(c) ==
  /\ got' = [got EXCEPT ![CurrentTask] = c]
  /\ left' = [left EXCEPT ![CurrentTask] = IF c = Newline THEN 0 ELSE @ - 1]
  /\ Goto(IF left'[CurrentTask] = 0 THEN "out" ELSE "pop")
  /\ ipl' = 0
  /\ UNCHANGED CurrentTask

(* The loop in PopChar: entered at first, or again behind TaskWait.         *)
PopOrWait ==
  /\ pc[CurrentTask] \in {"masked pop", "came"} /\ ipl = 7
  /\ IF recvq.used > 0
     THEN recvq' = Popped(recvq) /\ CharRead(recvq.data[recvq.head])
     ELSE /\ IF nonblock THEN CharRead(NONE) ELSE Sleep("RBF") /\ UNCHANGED <<left, got>>
          /\ UNCHANGED recvq
  /\ UNCHANGED <<port, nonblock, sendq, regs, out>>

RecvIntHandler ==
  /\ port = "open" /\ ipl = 0 /\ "RBF" \in intreq
  /\ intreq' = intreq \ {"RBF"}
  /\ recvq' = Pushed(recvq, serdatr) /\ serdatr' = NONE
  /\ IF nonblock THEN UNCHANGED <<pc, cpu>> ELSE Notify("RBF", "came")
  /\ UNCHANGED <<port, nonblock, sendq, serdat, out, left, got>>

(* The port: a character comes in, and requests INTF_RBF.                   *)
Arrive(c) ==
  /\ port = "open" /\ serdatr = NONE
  /\ serdatr' = c
  /\ intreq' = intreq \cup {"RBF"}
  /\ UNCHANGED <<port, nonblock, queues, serdat, cpu, pc, out, left, got>>

-----------------------------------------------------------------------------
(* OpenSerial initialises the port once: f is static, and SerialClose does  *)
(* not reset it.  A later call returns f as it is.  Clients close the port  *)
(* when no call is under way, and do not use it afterwards.                *)
OpenSerial ==
  /\ At("out") /\ port = "closed"
  /\ port' = "open" /\ nonblock' \in BOOLEAN
  /\ intreq' = {}
  /\ UNCHANGED <<queues, serdat, serdatr, cpu, pc, out, left, got>>

SerialClose ==
  /\ At("out") /\ port = "open" /\ \A t \in Tasks : pc[t] = "out"
  /\ port' = "freed"
  /\ intreq' = {}
  /\ UNCHANGED <<nonblock, queues, serdat, serdatr, cpu, pc, out, left, got>>

Next ==
  \/ OpenSerial \/ SerialClose
  \/ (\E call \in Writes : SerialWrite(call[2])) \/ PushChar \/ PushDirectly \/ PushOrWait
  \/ (\E call \in Reads : SerialRead(call[2])) \/ PopChar \/ PopOrWait
  \/ SendIntHandler \/ Transmit
  \/ RecvIntHandler \/ \E c \in Incoming : Arrive(c)
  \/ \E t \in Tasks : TaskSwitch(t)

Spec == Init /\ [][Next]_vars

-----------------------------------------------------------------------------
Contents(q) == [i \in 1..q.used |-> q.data[Wrap(q.head + i - 1)]]

Streams == INSTANCE CharStreams
  WITH sending <- (IF serdat = NONE THEN <<>> ELSE <<serdat>>) \o Contents(sendq),
       arrived <- serdatr, receiving <- Contents(recvq),
       Texts <- {call[2] : call \in Writes}

(* Whatever interrupts and other tasks do between the steps of a call, a    *)
(* character goes through the port once and in order, or is dropped from a  *)
(* full queue as O_NONBLOCK allows: serdat is not overwritten, and a        *)
(* character sent directly does not overtake the queue.                    *)
StreamsKept == Streams!Spec

(* A task sleeps in TaskWait only while there is cause: the send queue is   *)
(* full, or the receive queue is empty.  No notification is missed.        *)
SleepersHaveCause ==
  \A t \in Tasks : /\ pc[t] = "TBE" => sendq.used = QUEUELEN
                   /\ pc[t] = "RBF" => recvq.used = 0

(* Characters in the send queue are on their way: the transmitter is busy,  *)
(* or its interrupt is pending.                                            *)
SendqMoves ==
  port = "open" /\ sendq.used > 0 => serdat # NONE \/ "TBE" \in intreq

(* The send queue comes to a standstill in one way only, and never with     *)
(* O_NONBLOCK: a task that slept on a full queue finds it empty when it     *)
(* runs, and queues its character without testing serdat again.  Whatever   *)
(* else tasks and interrupts do, what is queued stays on its way.           *)
SendqKeepsMoving ==
  [][SendqMoves /\ ~SendqMoves' =>
       ~nonblock /\ pc[CurrentTask] = "sent" /\ sendq.used = 0]_vars
=============================================================================
