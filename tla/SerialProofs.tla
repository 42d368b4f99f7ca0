---------------------------- MODULE SerialProofs ----------------------------
(***************************************************************************)
(* The serial port, for every length of its rings up to 128, every set of  *)
(* tasks and whatever they write and read.                                 *)
(***************************************************************************)
EXTENDS Serial, SequenceTheorems, TLAPS

Masked == {"masked push", "masked pop"}
Writing == {"push", "masked push", "TBE", "sent"}
Reading == {"pop", "masked pop", "RBF", "came"}
Blocking == {"TBE", "sent", "RBF", "came"}

(* The mask is that of the current task; tasks that masked interrupts hold  *)
(* on to the processor until they sleep.                                   *)
Masks ==
  /\ ipl = IplOf(CurrentTask, pc)
  /\ \A t \in Tasks : pc[t] \in Masked => t = CurrentTask

(* In the loops there is more to write or to read.                          *)
Rests ==
  \A t \in Tasks : /\ out[t] # <<>> <=> pc[t] \in Writing
                   /\ left[t] > 0 <=> pc[t] \in Reading

(* Calls use an open port, and only ports without O_NONBLOCK make them wait. *)
Calls ==
  /\ port # "open" => \A t \in Tasks : pc[t] = "out"
  /\ port = "closed" => sendq.used = 0
  /\ nonblock => \A t \in Tasks : pc[t] \notin Blocking

(* The request of the receiver comes with a character.                      *)
Requests == port = "open" /\ "RBF" \in intreq => serdatr # NONE

(* With O_NONBLOCK the send queue never stands still.                       *)
SendqMovesNonblock == nonblock => SendqMoves

IInv == /\ TypeOK /\ Masks /\ Rests /\ Calls /\ Requests
        /\ SleepersHaveCause /\ SendqMovesNonblock

-----------------------------------------------------------------------------
(* Indices.                                                                 *)
LEMMA BitSum ==
  ASSUME NEW m \in 0..127
  PROVE  m = Bit(m, 1) + 2 * Bit(m, 2) + 4 * Bit(m, 4) + 8 * Bit(m, 8) + 16 * Bit(m, 16)
             + 32 * Bit(m, 32) + 64 * Bit(m, 64)
BY DEF Bit

LEMMA WrapInRing ==
  ASSUME NEW i \in Nat
  PROVE  Wrap(i) \in Indices
<1> DEFINE m == QUEUELEN - 1
           common(weight) == IF Bit(i, weight) = 1 /\ Bit(m, weight) = 1 THEN weight ELSE 0
<1>1. m \in 0..127
  BY QueueLenAssumption
<1>2. m = Bit(m, 1) + 2 * Bit(m, 2) + 4 * Bit(m, 4) + 8 * Bit(m, 8) + 16 * Bit(m, 16)
          + 32 * Bit(m, 32) + 64 * Bit(m, 64)
  BY <1>1, BitSum
<1>3. /\ Bit(m, 1) \in {0, 1} /\ Bit(m, 2) \in {0, 1} /\ Bit(m, 4) \in {0, 1}
      /\ Bit(m, 8) \in {0, 1} /\ Bit(m, 16) \in {0, 1} /\ Bit(m, 32) \in {0, 1}
      /\ Bit(m, 64) \in {0, 1}
  BY <1>1 DEF Bit
<1>4. Wrap(i) = common(1) + common(2) + common(4) + common(8) + common(16) + common(32)
                + common(64)
  BY DEF Wrap
<1> HIDE DEF m
<1>5. Wrap(i) \in 0..m
  BY <1>1, <1>2, <1>3, <1>4
<1>6. QED
  BY <1>5 DEF Indices, m

LEMMA PushedTypes ==
  ASSUME NEW q \in CharQueueT, NEW c \in Char
  PROVE  /\ Pushed(q, c) \in CharQueueT
         /\ q.used < QUEUELEN => Pushed(q, c).used = q.used + 1
         /\ q.used = QUEUELEN => Pushed(q, c) = q
<1>1. q.tail + 1 \in Nat /\ q.used \in 0..QUEUELEN /\ QUEUELEN \in Nat
  BY QueueLenAssumption DEF CharQueueT, Indices
<1>2. Wrap(q.tail + 1) \in Indices
  BY <1>1, WrapInRing
<1>3. CASE q.used < QUEUELEN
  <2>1. Pushed(q, c) = [q EXCEPT !.data[q.tail] = c, !.tail = Wrap(@ + 1), !.used = @ + 1]
    BY <1>3 DEF Pushed
  <2>2. q.used + 1 \in 0..QUEUELEN /\ q.used # QUEUELEN
    BY <1>1, <1>3
  <2>3. [q.data EXCEPT ![q.tail] = c] \in [Indices -> Char]
    BY DEF CharQueueT
  <2>4. Pushed(q, c) = [head |-> q.head, tail |-> Wrap(q.tail + 1), used |-> q.used + 1,
                        data |-> [q.data EXCEPT ![q.tail] = c]]
    BY <2>1 DEF CharQueueT
  <2>5. q.head \in Indices
    BY DEF CharQueueT
  <2>6. QED
    BY <1>2, <2>2, <2>3, <2>4, <2>5 DEF CharQueueT
<1>4. CASE ~(q.used < QUEUELEN)
  BY <1>4 DEF Pushed
<1>5. QED
  BY <1>3, <1>4

LEMMA PoppedTypes ==
  ASSUME NEW q \in CharQueueT, q.used > 0
  PROVE  /\ Popped(q) \in CharQueueT /\ Popped(q).used = q.used - 1
         /\ q.data[q.head] \in Char
<1>1. q.head + 1 \in Nat /\ q.used - 1 \in 0..QUEUELEN
  BY QueueLenAssumption DEF CharQueueT, Indices
<1>2. Wrap(q.head + 1) \in Indices
  BY <1>1, WrapInRing
<1>3. QED
  BY <1>1, <1>2 DEF CharQueueT, Popped

-----------------------------------------------------------------------------
(* The processor.                                                           *)
LEMMA GotoStep ==
  ASSUME TypeOK, Masks, NEW label \in Labels, Goto(label), UNCHANGED CurrentTask,
         ipl' = IF label \in Masked \cup {"sent", "came"} THEN 7 ELSE 0
  PROVE  /\ pc' \in [Tasks -> Labels] /\ pc'[CurrentTask] = label
         /\ \A t \in Tasks : t # CurrentTask => pc'[t] = pc[t]
         /\ ipl' \in {0, 7} /\ CurrentTask' \in Tasks
         /\ Masks'
BY DEF TypeOK, Masks, Goto, IplOf, Masked

LEMMA SleepStep ==
  ASSUME TypeOK, Masks, NEW label \in {"TBE", "RBF"}, Sleep(label)
  PROVE  /\ pc' \in [Tasks -> Labels] /\ pc'[CurrentTask] = label
         /\ \A t \in Tasks : t # CurrentTask => pc'[t] = pc[t]
         /\ ipl' \in {0, 7} /\ CurrentTask' \in Tasks
         /\ Masks'
<1>1. /\ pc' \in [Tasks -> Labels] /\ pc'[CurrentTask] = label
      /\ \A t \in Tasks : t # CurrentTask => pc'[t] = pc[t]
  BY DEF TypeOK, Sleep, Labels
<1>2. \A t \in Tasks : pc'[t] \notin Masked
  BY <1>1 DEF Masks, Masked
<1>3. CurrentTask' \in Tasks /\ ipl' = IplOf(CurrentTask', pc')
  <2>1. CASE Ready(pc') = {}
    BY <1>1, <2>1 DEF Sleep, IplOf, TypeOK
  <2>2. CASE Ready(pc') # {}
    BY <2>2 DEF Sleep, RunTask, Ready
  <2>3. QED
    BY <2>1, <2>2
<1>4. QED
  BY <1>1, <1>2, <1>3 DEF Masks, IplOf

LEMMA NotifyStep ==
  ASSUME TypeOK, Masks, ipl = 0, NEW event \in {"TBE", "RBF"}, NEW woken \in {"sent", "came"},
         Notify(event, woken)
  PROVE  /\ pc' \in [Tasks -> Labels]
         /\ \A t \in Tasks : pc'[t] = IF pc[t] = event THEN woken ELSE pc[t]
         /\ ipl' \in {0, 7} /\ CurrentTask' \in Tasks
         /\ Masks'
         /\ ipl' = 0 \/ pc'[CurrentTask'] = woken
<1>1. /\ pc' \in [Tasks -> Labels]
      /\ \A t \in Tasks : pc'[t] = IF pc[t] = event THEN woken ELSE pc[t]
  <2>1. pc' = [t \in Tasks |-> IF t \in {u \in Tasks : pc[u] = event} THEN woken ELSE pc[t]]
    BY DEF Notify
  <2>2. QED
    BY <2>1 DEF TypeOK, Labels
<1>2. \A t \in Tasks : pc[t] \notin Masked /\ pc'[t] \notin Masked
  <2>1. pc[CurrentTask] \notin Masked
    <3>1. IplOf(CurrentTask, pc) = 0
      BY DEF Masks
    <3>2. pc[CurrentTask] \in Masked => IplOf(CurrentTask, pc) = 7
      BY DEF IplOf, Masked
    <3>3. QED
      BY <3>1, <3>2
  <2>2. \A t \in Tasks : pc[t] \notin Masked
    BY <2>1 DEF Masks
  <2>3. QED
    BY <1>1, <2>2 DEF Masked
<1>3. /\ CurrentTask' \in Tasks /\ ipl' = IplOf(CurrentTask', pc')
      /\ ipl' = 0 \/ pc'[CurrentTask'] = woken
  <2>1. CASE Ready(pc') = {}
    <3>1. CurrentTask' = CurrentTask /\ CurrentTask \in Tasks /\ ipl' = 0
      BY <2>1 DEF Notify, cpu, TypeOK
    <3>2. pc'[CurrentTask] \in {"TBE", "RBF"}
      BY <2>1, <3>1 DEF Ready
    <3>3. QED
      BY <3>1, <3>2 DEF IplOf
  <2>2. CASE Ready(pc') # {}
    <3>1. PICK t \in ({u \in Tasks : pc[u] = event} \cup {CurrentTask}) \cap Ready(pc') :
            RunTask(t, pc')
      BY <2>2 DEF Notify
    <3>2. /\ CurrentTask' = t /\ t \in Tasks /\ ipl' = IplOf(t, pc')
          /\ t = CurrentTask \/ pc[t] = event
      BY <3>1 DEF RunTask, Ready
    <3>3. CASE pc[t] = event
      BY <1>1, <3>2, <3>3
    <3>4. CASE pc[t] # event
      <4>1. pc'[t] = pc[t] /\ t = CurrentTask
        BY <1>1, <3>2, <3>4
      <4>2. ipl' = 0
        BY <3>2, <4>1 DEF Masks, IplOf
      <4>3. QED
        BY <3>2, <4>2
    <3>5. QED
      BY <3>3, <3>4
  <2>3. QED
    BY <2>1, <2>2
<1>4. QED
  BY <1>1, <1>2, <1>3 DEF Masks, IplOf

-----------------------------------------------------------------------------
LEMMA InitIInv == Init => IInv
<1> SUFFICES ASSUME Init PROVE IInv
  OBVIOUS
<1> USE DEF Init
<1>1. EmptyQueue \in CharQueueT /\ EmptyQueue.used = 0
  <2>1. AnyChar \in Char
    BY CharAssumption DEF AnyChar
  <2>2. 0 \in Indices /\ 0 \in 0..QUEUELEN
    BY QueueLenAssumption DEF Indices
  <2>3. QED
    BY <2>1, <2>2 DEF EmptyQueue, CharQueueT
<1>2. TypeOK
  <2>1. <<>> \in Seq(Char)
    OBVIOUS
  <2>2. QED
    BY <1>1, <2>1 DEF TypeOK, Labels
<1>3. \A t \in Tasks : pc[t] = "out" /\ out[t] = <<>> /\ left[t] = 0
  OBVIOUS
<1>4. Masks /\ Rests /\ Calls /\ Requests
  BY <1>1, <1>3 DEF Masks, Masked, IplOf, Rests, Writing, Reading, Calls, Blocking, Requests
<1>5. SleepersHaveCause /\ SendqMovesNonblock
  BY <1>3 DEF SleepersHaveCause, SendqMovesNonblock, SendqMoves
<1>6. QED
  BY <1>2, <1>4, <1>5 DEF IInv

LEMMA OpenSerialKeeps ==
  ASSUME IInv, OpenSerial
  PROVE  IInv'
<1> USE DEF OpenSerial, queues, cpu, IInv
<1>1. \A t \in Tasks : pc[t] = "out"
  BY DEF Calls
<1>2. TypeOK' /\ Masks' /\ Rests' /\ Requests'
  BY DEF TypeOK, Masks, Masked, IplOf, Rests, Requests
<1>3. Calls'
  BY <1>1 DEF Calls, Blocking
<1>4. SleepersHaveCause' /\ SendqMovesNonblock'
  <2>1. sendq'.used = 0
    BY DEF Calls
  <2>2. QED
    BY <1>1, <2>1 DEF SleepersHaveCause, SendqMovesNonblock, SendqMoves
<1>5. QED
  BY <1>2, <1>3, <1>4

LEMMA SerialCloseKeeps ==
  ASSUME IInv, SerialClose
  PROVE  IInv'
<1> USE DEF SerialClose, queues, cpu, IInv
<1>1. TypeOK' /\ Masks' /\ Rests' /\ Requests' /\ Calls'
  BY DEF TypeOK, Masks, Masked, IplOf, Rests, Requests, Calls, Blocking
<1>2. SleepersHaveCause' /\ SendqMovesNonblock'
  BY DEF SleepersHaveCause, SendqMovesNonblock, SendqMoves
<1>3. QED
  BY <1>1, <1>2

(* Between TaskWait and IntrEnable, and when calls begin, the current task  *)
(* moves on with no change to the port.                                     *)
LEMMA MoveKeeps ==
  ASSUME IInv, port = "open", NEW label \in Labels \ Blocking, Goto(label),
         ipl' = IF label \in Masked THEN 7 ELSE 0,
         out' \in [Tasks -> Seq(Char)], left' \in [Tasks -> Nat],
         \A t \in Tasks : t # CurrentTask => out'[t] = out[t] /\ left'[t] = left[t],
         out'[CurrentTask] # <<>> <=> label \in Writing,
         left'[CurrentTask] > 0 <=> label \in Reading,
         UNCHANGED <<port, nonblock, queues, regs, CurrentTask, got>>
  PROVE  IInv'
<1> USE DEF queues, regs, IInv
<1>1. ipl' = IF label \in Masked \cup {"sent", "came"} THEN 7 ELSE 0
  BY DEF Blocking
<1>2. /\ pc' \in [Tasks -> Labels] /\ pc'[CurrentTask] = label
      /\ \A t \in Tasks : t # CurrentTask => pc'[t] = pc[t]
      /\ ipl' \in {0, 7} /\ CurrentTask' \in Tasks
      /\ Masks'
  BY <1>1, GotoStep
<1>3. TypeOK'
  BY <1>2 DEF TypeOK
<1>4. Rests'
  BY <1>2 DEF Rests
<1>5. Calls' /\ Requests'
  BY <1>2 DEF Calls, Requests
<1>6. SleepersHaveCause' /\ SendqMovesNonblock'
  BY <1>2 DEF SleepersHaveCause, SendqMovesNonblock, SendqMoves, Blocking
<1>7. QED
  BY <1>2, <1>3, <1>4, <1>5, <1>6

(* A task in a call has the port open.                                      *)
LEMMA InCall ==
  ASSUME IInv, pc[CurrentTask] # "out"
  PROVE  port = "open" /\ CurrentTask \in Tasks
BY DEF IInv, Calls, TypeOK

LEMMA SerialWriteKeeps ==
  ASSUME IInv, NEW call \in Writes, SerialWrite(call[2])
  PROVE  IInv'
<1> DEFINE text == call[2]
<1>1. /\ pc[CurrentTask] = "out" /\ ipl = 0 /\ port = "open" /\ Goto("push")
      /\ out' = [out EXCEPT ![CurrentTask] = text]
      /\ UNCHANGED <<port, nonblock, queues, regs, cpu, left, got>>
  BY DEF SerialWrite, At
<1>2. text \in Seq(Char) /\ text # <<>>
  BY ClientAssumption
<1>3. CurrentTask \in Tasks /\ out \in [Tasks -> Seq(Char)] /\ left \in [Tasks -> Nat]
  BY DEF IInv, TypeOK
<1>4. out' \in [Tasks -> Seq(Char)] /\ out'[CurrentTask] = text
  BY <1>1, <1>2, <1>3
<1>5. "push" \in Labels \ Blocking /\ "push" \notin Masked /\ "push" \in Writing
  BY DEF Labels, Blocking, Masked, Writing
<1>6. ~(left[CurrentTask] > 0) /\ "push" \notin Reading
  BY <1>1, <1>3 DEF IInv, Rests, Reading
<1>7. QED
  BY <1>1, <1>2, <1>3, <1>4, <1>5, <1>6, MoveKeeps DEF cpu

LEMMA SerialReadKeeps ==
  ASSUME IInv, NEW call \in Reads, SerialRead(call[2])
  PROVE  IInv'
<1> DEFINE n == call[2]
<1>1. /\ pc[CurrentTask] = "out" /\ ipl = 0 /\ port = "open" /\ Goto("pop")
      /\ left' = [left EXCEPT ![CurrentTask] = n]
      /\ UNCHANGED <<port, nonblock, queues, regs, cpu, out, got>>
  BY DEF SerialRead, At
<1>2. n \in Nat \ {0}
  BY ClientAssumption
<1>3. CurrentTask \in Tasks /\ out \in [Tasks -> Seq(Char)] /\ left \in [Tasks -> Nat]
  BY DEF IInv, TypeOK
<1>4. left' \in [Tasks -> Nat] /\ left'[CurrentTask] > 0
  BY <1>1, <1>2, <1>3
<1>5. "pop" \in Labels \ Blocking /\ "pop" \notin Masked /\ "pop" \in Reading
  BY DEF Labels, Blocking, Masked, Reading
<1>6. out[CurrentTask] = <<>> /\ "pop" \notin Writing
  BY <1>1, <1>3 DEF IInv, Rests, Writing
<1>7. QED
  BY <1>1, <1>3, <1>4, <1>5, <1>6, MoveKeeps DEF cpu

LEMMA PushCharKeeps ==
  ASSUME IInv, PushChar
  PROVE  IInv'
<1>1. /\ pc[CurrentTask] = "push" /\ port = "open" /\ CurrentTask \in Tasks
      /\ "masked push" \in Labels \ Blocking
  BY InCall DEF PushChar, At, Labels, Blocking
<1>2. out[CurrentTask] # <<>> /\ ~(left[CurrentTask] > 0)
  BY <1>1 DEF IInv, Rests, Writing, Reading
<1>3. QED
  BY <1>1, <1>2, MoveKeeps DEF PushChar, Masked, Writing, Reading, IInv, TypeOK

LEMMA PopCharKeeps ==
  ASSUME IInv, PopChar
  PROVE  IInv'
<1>1. /\ pc[CurrentTask] = "pop" /\ port = "open" /\ CurrentTask \in Tasks
      /\ "masked pop" \in Labels \ Blocking
  BY InCall DEF PopChar, At, Labels, Blocking
<1>2. out[CurrentTask] = <<>> /\ left[CurrentTask] > 0
  BY <1>1 DEF IInv, Rests, Writing, Reading
<1>3. QED
  BY <1>1, <1>2, MoveKeeps DEF PopChar, Masked, Writing, Reading, IInv, TypeOK

-----------------------------------------------------------------------------
LEMMA RestType ==
  ASSUME NEW text \in Seq(Char), text # <<>>
  PROVE  Rest(text) \in Seq(Char) /\ Head(text) \in Char
<1>1. Head(text) \in Char /\ Tail(text) \in Seq(Char)
  OBVIOUS
<1>2. [text EXCEPT ![1] = Return] \in Seq(Char)
  BY CharAssumption
<1>3. QED
  BY <1>1, <1>2 DEF Rest

(* The end of PushChar, on the way back to SerialWrite.                     *)
LEMMA CharDoneKeeps ==
  ASSUME IInv, pc[CurrentTask] \in {"masked push", "sent"}, CharDone,
         serdat' \in Char \cup {NONE}, sendq' \in CharQueueT,
         sendq.used = QUEUELEN => sendq'.used = QUEUELEN,
         SendqMovesNonblock'
  PROVE  IInv'
<1> DEFINE rest == Rest(out[CurrentTask])
           label == IF rest = <<>> THEN "out" ELSE "push"
<1>1. port = "open" /\ CurrentTask \in Tasks
  BY InCall
<1>2. /\ out \in [Tasks -> Seq(Char)] /\ out[CurrentTask] # <<>>
      /\ ~(left[CurrentTask] > 0)
  BY <1>1 DEF IInv, TypeOK, Rests, Writing, Reading
<1>3. rest \in Seq(Char)
  BY <1>1, <1>2, RestType
<1>4. /\ Goto(label) /\ ipl' = 0 /\ out' = [out EXCEPT ![CurrentTask] = rest]
      /\ UNCHANGED <<port, nonblock, recvq, serdatr, intreq, CurrentTask, left, got>>
  BY DEF CharDone
<1> HIDE DEF rest
<1>5. label \in Labels /\ label \notin Masked \cup Blocking /\ label \notin Reading
  BY DEF Labels, Masked, Blocking, Reading
<1>6. rest # <<>> <=> label \in Writing
  BY DEF Writing
<1> HIDE DEF label
<1>7. /\ pc' \in [Tasks -> Labels] /\ pc'[CurrentTask] = label
      /\ \A t \in Tasks : t # CurrentTask => pc'[t] = pc[t]
      /\ ipl' \in {0, 7} /\ CurrentTask' \in Tasks
      /\ Masks'
  BY <1>4, <1>5, GotoStep DEF IInv, Blocking
<1>8. /\ out' \in [Tasks -> Seq(Char)] /\ out'[CurrentTask] = rest
      /\ \A t \in Tasks : t # CurrentTask => out'[t] = out[t]
  BY <1>1, <1>2, <1>3, <1>4
<1>9. TypeOK'
  BY <1>4, <1>7, <1>8 DEF IInv, TypeOK
<1>10. Rests'
  BY <1>2, <1>4, <1>5, <1>6, <1>7, <1>8 DEF IInv, Rests
<1>11. Calls' /\ Requests'
  BY <1>1, <1>4, <1>5, <1>7 DEF IInv, Calls, Requests
<1>12. SleepersHaveCause'
  BY <1>4, <1>5, <1>7 DEF IInv, SleepersHaveCause, Blocking
<1>13. QED
  BY <1>7, <1>9, <1>10, <1>11, <1>12 DEF IInv

LEMMA PushDirectlyKeeps ==
  ASSUME IInv, PushDirectly
  PROVE  IInv'
<1>1. CurrentTask \in Tasks
  BY InCall DEF PushDirectly
<1>2. out[CurrentTask] \in Seq(Char) /\ out[CurrentTask] # <<>>
  BY <1>1 DEF PushDirectly, IInv, TypeOK, Rests, Writing
<1>3. serdat' \in Char
  BY <1>2, RestType DEF PushDirectly
<1>4. SendqMovesNonblock'
  BY <1>3, CharAssumption DEF SendqMovesNonblock, SendqMoves
<1>5. QED
  BY <1>3, <1>4, CharDoneKeeps DEF PushDirectly, IInv, TypeOK

LEMMA PushOrWaitKeeps ==
  ASSUME IInv, PushOrWait
  PROVE  IInv'
<1>1. /\ pc[CurrentTask] \in {"masked push", "sent"}
      /\ pc[CurrentTask] = "masked push" => ~Direct
      /\ CurrentTask \in Tasks /\ port = "open"
  BY InCall DEF PushOrWait
<1>2. out[CurrentTask] \in Seq(Char) /\ out[CurrentTask] # <<>>
  BY <1>1 DEF IInv, TypeOK, Rests, Writing
<1>3. CASE sendq.used = QUEUELEN /\ ~nonblock
  <2>1. Sleep("TBE") /\ UNCHANGED <<port, nonblock, queues, regs, out, left, got>>
    BY <1>3 DEF PushOrWait
  <2>2. /\ pc' \in [Tasks -> Labels] /\ pc'[CurrentTask] = "TBE"
        /\ \A t \in Tasks : t # CurrentTask => pc'[t] = pc[t]
        /\ ipl' \in {0, 7} /\ CurrentTask' \in Tasks
        /\ Masks'
    BY <2>1, SleepStep DEF IInv
  <2>3. TypeOK'
    BY <2>1, <2>2 DEF IInv, TypeOK, queues, regs
  <2>4. Rests'
    BY <1>1, <2>1, <2>2 DEF IInv, Rests, Writing, Reading
  <2>5. Calls' /\ Requests'
    BY <1>1, <1>3, <2>1, <2>2 DEF IInv, Calls, Requests, queues, regs
  <2>6. SleepersHaveCause' /\ SendqMovesNonblock'
    BY <1>3, <2>1, <2>2
       DEF IInv, SleepersHaveCause, SendqMovesNonblock, SendqMoves, queues, regs
  <2>7. QED
    BY <2>2, <2>3, <2>4, <2>5, <2>6 DEF IInv
<1>4. CASE ~(sendq.used = QUEUELEN /\ ~nonblock)
  <2>1. /\ sendq' = Pushed(sendq, Head(out[CurrentTask])) /\ CharDone
        /\ UNCHANGED serdat
    BY <1>4 DEF PushOrWait
  <2>2. sendq \in CharQueueT /\ Head(out[CurrentTask]) \in Char
    BY <1>2, RestType DEF IInv, TypeOK
  <2>3. /\ sendq' \in CharQueueT
        /\ sendq.used = QUEUELEN => sendq'.used = QUEUELEN
    BY <2>1, <2>2, PushedTypes
  <2>4. SendqMovesNonblock'
    <3>1. SUFFICES ASSUME nonblock PROVE serdat # NONE \/ "TBE" \in intreq
      BY <2>1 DEF SendqMovesNonblock, SendqMoves, CharDone
    <3>2. ~Direct
      BY <1>1, <3>1 DEF IInv, Calls, Blocking
    <3>3. sendq.used = 0 \/ sendq.used > 0
      BY <2>2, QueueLenAssumption DEF CharQueueT
    <3>4. QED
      BY <1>1, <3>1, <3>2, <3>3 DEF Direct, IInv, SendqMovesNonblock, SendqMoves
  <2>5. QED
    BY <1>1, <2>1, <2>3, <2>4, CharDoneKeeps DEF IInv, TypeOK
<1>5. QED
  BY <1>3, <1>4

LEMMA CountDown ==
  ASSUME NEW n \in Nat, n > 0
  PROVE  n - 1 \in Nat
OBVIOUS

LEMMA Positive ==
  ASSUME NEW n \in Nat
  PROVE  n > 0 <=> n # 0
OBVIOUS

(* The end of PopChar, on the way back to SerialRead.                       *)
LEMMA CharReadKeeps ==
  ASSUME IInv, pc[CurrentTask] \in {"masked pop", "came"},
         NEW c \in Char \cup {NONE}, CharRead(c), recvq' \in CharQueueT,
         recvq.used = 0 => recvq'.used = 0,
         UNCHANGED <<port, nonblock, sendq, regs, out>>
  PROVE  IInv'
<1> DEFINE n == IF c = Newline THEN 0 ELSE left[CurrentTask] - 1
           label == IF left'[CurrentTask] = 0 THEN "out" ELSE "pop"
<1>1. port = "open" /\ CurrentTask \in Tasks
  BY InCall
<1>2. /\ left \in [Tasks -> Nat] /\ left[CurrentTask] > 0
      /\ out[CurrentTask] = <<>>
  BY <1>1 DEF IInv, TypeOK, Rests, Writing, Reading
<1>3. n \in Nat
  <2>1. left[CurrentTask] \in Nat /\ left[CurrentTask] > 0
    BY <1>1, <1>2
  <2>2. left[CurrentTask] - 1 \in Nat /\ 0 \in Nat
    BY <2>1, CountDown
  <2>3. QED
    BY <2>2
<1>4. /\ Goto(label) /\ ipl' = 0 /\ left' = [left EXCEPT ![CurrentTask] = n]
      /\ got' = [got EXCEPT ![CurrentTask] = c] /\ UNCHANGED CurrentTask
  BY DEF CharRead
<1>5. label \in Labels /\ label \notin Masked \cup Blocking /\ label \notin Writing
  BY DEF Labels, Masked, Blocking, Writing
<1>6. left'[CurrentTask] = n
  BY <1>1, <1>2, <1>4
<1>7. left'[CurrentTask] > 0 <=> label \in Reading
  <2>1. left'[CurrentTask] > 0 <=> left'[CurrentTask] # 0
    BY <1>3, <1>6, Positive
  <2>2. QED
    BY <2>1 DEF Reading
<1> HIDE DEF label, n
<1>8. /\ pc' \in [Tasks -> Labels] /\ pc'[CurrentTask] = label
      /\ \A t \in Tasks : t # CurrentTask => pc'[t] = pc[t]
      /\ ipl' \in {0, 7} /\ CurrentTask' \in Tasks
      /\ Masks'
  BY <1>4, <1>5, GotoStep DEF IInv, Blocking
<1>9. /\ left' \in [Tasks -> Nat] /\ \A t \in Tasks : t # CurrentTask => left'[t] = left[t]
  BY <1>1, <1>2, <1>3, <1>4
<1>10. TypeOK'
  BY <1>4, <1>8, <1>9 DEF IInv, TypeOK, regs
<1>11. Rests'
  BY <1>2, <1>5, <1>7, <1>8, <1>9 DEF IInv, Rests
<1>12. Calls' /\ Requests'
  BY <1>1, <1>5, <1>8 DEF IInv, Calls, Requests, regs
<1>13. SleepersHaveCause' /\ SendqMovesNonblock'
  BY <1>5, <1>8
     DEF IInv, SleepersHaveCause, SendqMovesNonblock, SendqMoves, Blocking, regs
<1>14. QED
  BY <1>8, <1>10, <1>11, <1>12, <1>13 DEF IInv

LEMMA PopOrWaitKeeps ==
  ASSUME IInv, PopOrWait
  PROVE  IInv'
<1>1. /\ pc[CurrentTask] \in {"masked pop", "came"}
      /\ UNCHANGED <<port, nonblock, sendq, regs, out>>
      /\ recvq \in CharQueueT
      /\ CurrentTask \in Tasks /\ port = "open"
  BY InCall DEF PopOrWait, IInv, TypeOK
<1>2. CASE recvq.used > 0
  <2>1. recvq' = Popped(recvq) /\ CharRead(recvq.data[recvq.head])
    BY <1>2 DEF PopOrWait
  <2>2. recvq' \in CharQueueT /\ recvq.data[recvq.head] \in Char
    BY <1>1, <1>2, <2>1, PoppedTypes
  <2>3. recvq.used # 0
    BY <1>2
  <2>4. QED
    BY <1>1, <2>1, <2>2, <2>3, CharReadKeeps
<1>3. CASE ~(recvq.used > 0) /\ nonblock
  BY <1>1, <1>3, CharReadKeeps DEF PopOrWait
<1>4. CASE ~(recvq.used > 0) /\ ~nonblock
  <2>1. Sleep("RBF") /\ UNCHANGED <<left, got, recvq>>
    BY <1>4 DEF PopOrWait
  <2>2. recvq.used = 0
    <3>1. recvq \in CharQueueT
      BY <1>1
    <3>2. recvq.used \in 0..QUEUELEN /\ QUEUELEN \in Nat
      BY <3>1, QueueLenAssumption DEF CharQueueT
    <3>3. QED
      BY <1>4, <3>2
  <2>3. /\ pc' \in [Tasks -> Labels] /\ pc'[CurrentTask] = "RBF"
        /\ \A t \in Tasks : t # CurrentTask => pc'[t] = pc[t]
        /\ ipl' \in {0, 7} /\ CurrentTask' \in Tasks
        /\ Masks'
    BY <2>1, SleepStep DEF IInv
  <2>4. TypeOK'
    BY <1>1, <2>1, <2>3 DEF IInv, TypeOK, regs
  <2>5. Rests'
    BY <1>1, <2>1, <2>3 DEF IInv, Rests, Writing, Reading
  <2>6. Calls' /\ Requests'
    BY <1>1, <1>4, <2>1, <2>3 DEF IInv, Calls, Requests, regs
  <2>7. SleepersHaveCause' /\ SendqMovesNonblock'
    BY <1>1, <2>1, <2>2, <2>3
       DEF IInv, SleepersHaveCause, SendqMovesNonblock, SendqMoves, regs
  <2>8. QED
    BY <2>3, <2>4, <2>5, <2>6, <2>7 DEF IInv
<1>5. QED
  BY <1>2, <1>3, <1>4

-----------------------------------------------------------------------------
(* The interrupts.                                                          *)

(* A service routine wakes all tasks that sleep for its event.              *)
LEMMA WakeKeeps ==
  ASSUME IInv, port = "open", ipl = 0,
         NEW event \in {"TBE", "RBF"}, NEW woken \in {"sent", "came"},
         woken = IF event = "TBE" THEN "sent" ELSE "came",
         IF nonblock THEN UNCHANGED <<pc, cpu>> ELSE Notify(event, woken),
         UNCHANGED <<port, nonblock, out, left>>
  PROVE  /\ pc' \in [Tasks -> Labels] /\ \A t \in Tasks : pc'[t] # event
         /\ \A t \in Tasks : pc'[t] \in {"TBE", "RBF"} => pc[t] = pc'[t]
         /\ ipl' \in {0, 7} /\ CurrentTask' \in Tasks
         /\ Masks' /\ Rests'
         /\ nonblock => \A t \in Tasks : pc'[t] \notin Blocking
<1>1. CASE nonblock
  <2>1. \A t \in Tasks : pc[t] \notin Blocking
    BY <1>1 DEF IInv, Calls
  <2>2. UNCHANGED <<pc, ipl, CurrentTask>>
    BY <1>1 DEF cpu
  <2>3. /\ pc' \in [Tasks -> Labels] /\ ipl' \in {0, 7} /\ CurrentTask' \in Tasks
        /\ Masks' /\ Rests'
    BY <2>2 DEF IInv, TypeOK, Masks, Rests, IplOf
  <2>4. QED
    BY <2>1, <2>2, <2>3 DEF Blocking
<1>2. CASE ~nonblock
  <2>1. /\ pc' \in [Tasks -> Labels]
        /\ \A t \in Tasks : pc'[t] = IF pc[t] = event THEN woken ELSE pc[t]
        /\ ipl' \in {0, 7} /\ CurrentTask' \in Tasks
        /\ Masks'
    BY <1>2, NotifyStep DEF IInv
  <2>2. \A t \in Tasks : (pc'[t] \in Writing <=> pc[t] \in Writing)
                        /\ (pc'[t] \in Reading <=> pc[t] \in Reading)
    BY <2>1 DEF Writing, Reading
  <2>3. Rests'
    BY <2>2 DEF IInv, Rests
  <2>4. QED
    BY <1>2, <2>1, <2>3
<1>3. QED
  BY <1>1, <1>2

LEMMA SendIntHandlerKeeps ==
  ASSUME IInv, SendIntHandler
  PROVE  IInv'
<1>1. /\ port = "open" /\ ipl = 0 /\ intreq' = {}
      /\ UNCHANGED <<port, nonblock, recvq, serdatr, out, left, got>>
      /\ sendq \in CharQueueT
  BY DEF SendIntHandler, IInv, TypeOK
<1>2. CASE sendq.used > 0
  <2>1. /\ serdat' = sendq.data[sendq.head] /\ sendq' = Popped(sendq)
        /\ IF nonblock THEN UNCHANGED <<pc, cpu>> ELSE Notify("TBE", "sent")
    BY <1>2 DEF SendIntHandler
  <2>2. sendq' \in CharQueueT /\ serdat' \in Char
    BY <1>1, <1>2, <2>1, PoppedTypes
  <2>3. /\ pc' \in [Tasks -> Labels] /\ \A t \in Tasks : pc'[t] # "TBE"
        /\ \A t \in Tasks : pc'[t] \in {"TBE", "RBF"} => pc[t] = pc'[t]
        /\ ipl' \in {0, 7} /\ CurrentTask' \in Tasks
        /\ Masks' /\ Rests'
        /\ nonblock => \A t \in Tasks : pc'[t] \notin Blocking
    BY <1>1, <2>1, WakeKeeps
  <2>4. TypeOK'
    BY <1>1, <2>2, <2>3 DEF IInv, TypeOK
  <2>5. Calls' /\ Requests'
    BY <1>1, <2>3 DEF Calls, Requests
  <2>6. SleepersHaveCause'
    BY <1>1, <2>3 DEF IInv, SleepersHaveCause
  <2>7. SendqMovesNonblock'
    BY <2>2, CharAssumption DEF SendqMovesNonblock, SendqMoves
  <2>8. QED
    BY <2>3, <2>4, <2>5, <2>6, <2>7 DEF IInv
<1>3. CASE ~(sendq.used > 0)
  <2>1. UNCHANGED <<serdat, sendq, pc, cpu>>
    BY <1>3 DEF SendIntHandler
  <2>2. TypeOK' /\ Masks' /\ Rests' /\ Calls' /\ Requests'
    BY <1>1, <2>1 DEF IInv, TypeOK, Masks, IplOf, Rests, Calls, Requests, cpu
  <2>3. SleepersHaveCause' /\ SendqMovesNonblock'
    BY <1>1, <1>3, <2>1 DEF IInv, SleepersHaveCause, SendqMovesNonblock, SendqMoves
  <2>4. QED
    BY <2>2, <2>3 DEF IInv
<1>4. QED
  BY <1>2, <1>3

LEMMA RecvIntHandlerKeeps ==
  ASSUME IInv, RecvIntHandler
  PROVE  IInv'
<1>1. /\ port = "open" /\ ipl = 0 /\ "RBF" \in intreq /\ intreq' = intreq \ {"RBF"}
      /\ recvq' = Pushed(recvq, serdatr) /\ serdatr' = NONE
      /\ IF nonblock THEN UNCHANGED <<pc, cpu>> ELSE Notify("RBF", "came")
      /\ UNCHANGED <<port, nonblock, sendq, serdat, out, left, got>>
  BY DEF RecvIntHandler
<1>2. recvq' \in CharQueueT
  <2>1. serdatr \in Char /\ recvq \in CharQueueT
    BY <1>1 DEF IInv, Requests, TypeOK
  <2>2. QED
    BY <1>1, <2>1, PushedTypes
<1>3. /\ pc' \in [Tasks -> Labels] /\ \A t \in Tasks : pc'[t] # "RBF"
      /\ \A t \in Tasks : pc'[t] \in {"TBE", "RBF"} => pc[t] = pc'[t]
      /\ ipl' \in {0, 7} /\ CurrentTask' \in Tasks
      /\ Masks' /\ Rests'
      /\ nonblock => \A t \in Tasks : pc'[t] \notin Blocking
  BY <1>1, WakeKeeps
<1>4. TypeOK'
  BY <1>1, <1>2, <1>3 DEF IInv, TypeOK
<1>5. Calls' /\ Requests'
  BY <1>1, <1>3 DEF Calls, Requests
<1>6. SleepersHaveCause' /\ SendqMovesNonblock'
  BY <1>1, <1>3 DEF IInv, SleepersHaveCause, SendqMovesNonblock, SendqMoves
<1>7. QED
  BY <1>3, <1>4, <1>5, <1>6 DEF IInv

LEMMA TransmitKeeps ==
  ASSUME IInv, Transmit
  PROVE  IInv'
<1> USE DEF Transmit, queues, cpu, IInv
<1>1. TypeOK' /\ Masks' /\ Rests' /\ Calls' /\ Requests'
  BY DEF TypeOK, Masks, IplOf, Rests, Calls, Requests
<1>2. SleepersHaveCause' /\ SendqMovesNonblock'
  BY DEF SleepersHaveCause, SendqMovesNonblock, SendqMoves
<1>3. QED
  BY <1>1, <1>2

LEMMA ArriveKeeps ==
  ASSUME IInv, NEW c \in Incoming, Arrive(c)
  PROVE  IInv'
<1> USE DEF Arrive, queues, cpu, IInv
<1>1. TypeOK' /\ Masks' /\ Rests' /\ Calls' /\ Requests'
  BY CharAssumption DEF TypeOK, Masks, IplOf, Rests, Calls, Requests
<1>2. SleepersHaveCause' /\ SendqMovesNonblock'
  BY DEF SleepersHaveCause, SendqMovesNonblock, SendqMoves
<1>3. QED
  BY <1>1, <1>2

LEMMA TaskSwitchKeeps ==
  ASSUME IInv, NEW t \in Tasks, TaskSwitch(t)
  PROVE  IInv'
<1>1. /\ ipl = 0 /\ CurrentTask' = t /\ ipl' = IplOf(t, pc)
      /\ UNCHANGED <<port, nonblock, queues, regs, pc, out, left, got>>
  BY DEF TaskSwitch, RunTask
<1>2. \A u \in Tasks : pc[u] \notin Masked
  <2>1. pc[CurrentTask] \in Masked => IplOf(CurrentTask, pc) = 7
    BY DEF IplOf, Masked
  <2>2. QED
    BY <1>1, <2>1 DEF IInv, Masks
<1>3. Masks'
  BY <1>1, <1>2 DEF Masks, IplOf
<1>4. TypeOK'
  BY <1>1 DEF IInv, TypeOK, IplOf, queues, regs
<1>5. Rests' /\ Calls' /\ Requests'
  BY <1>1 DEF IInv, Rests, Calls, Requests, queues, regs
<1>6. SleepersHaveCause' /\ SendqMovesNonblock'
  BY <1>1 DEF IInv, SleepersHaveCause, SendqMovesNonblock, SendqMoves, queues, regs
<1>7. QED
  BY <1>3, <1>4, <1>5, <1>6 DEF IInv

-----------------------------------------------------------------------------
LEMMA NextKeeps == IInv /\ [Next]_vars => IInv'
<1> SUFFICES ASSUME IInv, [Next]_vars PROVE IInv'
  OBVIOUS
<1>1. CASE OpenSerial \/ SerialClose \/ (\E call \in Writes : SerialWrite(call[2]))
           \/ (\E call \in Reads : SerialRead(call[2]))
  BY <1>1, OpenSerialKeeps, SerialCloseKeeps, SerialWriteKeeps, SerialReadKeeps
<1>2. CASE PushChar \/ PushDirectly \/ PushOrWait \/ PopChar \/ PopOrWait
  BY <1>2, PushCharKeeps, PushDirectlyKeeps, PushOrWaitKeeps, PopCharKeeps, PopOrWaitKeeps
<1>3. CASE SendIntHandler \/ Transmit \/ RecvIntHandler \/ \E c \in Incoming : Arrive(c)
  BY <1>3, SendIntHandlerKeeps, TransmitKeeps, RecvIntHandlerKeeps, ArriveKeeps
<1>4. CASE \E t \in Tasks : TaskSwitch(t)
  BY <1>4, TaskSwitchKeeps
<1>5. CASE UNCHANGED vars
  <2> USE <1>5 DEF vars, queues, regs, cpu, IInv
  <2>1. TypeOK' /\ Masks' /\ Rests' /\ Calls' /\ Requests'
    BY DEF TypeOK, Masks, IplOf, Rests, Calls, Requests
  <2>2. SleepersHaveCause' /\ SendqMovesNonblock'
    BY DEF SleepersHaveCause, SendqMovesNonblock, SendqMoves
  <2>3. QED
    BY <2>1, <2>2
<1>6. QED
  BY <1>1, <1>2, <1>3, <1>4, <1>5 DEF Next

LEMMA Invariance == Spec => []IInv
BY InitIInv, NextKeeps, PTL DEF Spec

(* The indices of both rings stay inside them and their counts within       *)
(* QUEUELEN, whatever the mask of their length does to an index.            *)
THEOREM TypeCorrect == Spec => []TypeOK
<1>1. IInv => TypeOK
  BY DEF IInv
<1>2. QED
  BY <1>1, Invariance, PTL

(* No notification is missed: a task sleeps in PushChar only while the send *)
(* queue is full, and in PopChar only while the receive queue is empty.     *)
THEOREM SleepersAlwaysHaveCause == Spec => []SleepersHaveCause
<1>1. IInv => SleepersHaveCause
  BY DEF IInv
<1>2. QED
  BY <1>1, Invariance, PTL

(* Nothing but the port and the interrupt of the transmitter sends what is  *)
(* queued: these are the steps that take a character from serdat, or the    *)
(* interrupt from its request, and each leaves the other behind.            *)
LEMMA PortKeepsMoving ==
  ASSUME IInv, SendqMoves,
         OpenSerial \/ SerialClose \/ PushDirectly \/ SendIntHandler \/ Transmit
  PROVE  SendqMoves'
<1>1. CASE OpenSerial
  <2>1. sendq'.used = 0
    BY <1>1 DEF IInv, Calls, OpenSerial, queues
  <2>2. QED
    BY <2>1 DEF SendqMoves
<1>2. CASE SerialClose
  BY <1>2 DEF SerialClose, SendqMoves
<1>3. CASE PushDirectly
  <2>1. sendq' = sendq /\ sendq.used = 0
    BY <1>3 DEF PushDirectly, Direct
  <2>2. QED
    BY <2>1 DEF SendqMoves
<1>4. CASE SendIntHandler
  <2>1. CASE sendq.used > 0
    <3>1. serdat' = sendq.data[sendq.head] /\ sendq \in CharQueueT
      BY <1>4, <2>1 DEF SendIntHandler, IInv, TypeOK
    <3>2. serdat' # NONE
      BY <2>1, <3>1, PoppedTypes, CharAssumption
    <3>3. QED
      BY <3>2 DEF SendqMoves
  <2>2. CASE ~(sendq.used > 0)
    BY <1>4, <2>2 DEF SendIntHandler, SendqMoves
  <2>3. QED
    BY <2>1, <2>2
<1>5. CASE Transmit
  BY <1>5 DEF Transmit, SendqMoves
<1>6. QED
  BY <1>1, <1>2, <1>3, <1>4, <1>5

(* A character that is queued behind others moves with them.  The first one *)
(* is queued by a call that has just found serdat full, or by a sleeper.    *)
LEMMA PushKeepsMoving ==
  ASSUME IInv, SendqMoves, PushOrWait, ~SendqMoves'
  PROVE  ~nonblock /\ pc[CurrentTask] = "sent" /\ sendq.used = 0
<1>1. /\ pc[CurrentTask] \in {"masked push", "sent"}
      /\ pc[CurrentTask] = "masked push" => ~Direct
  BY DEF PushOrWait
<1>2. port = "open" /\ CurrentTask \in Tasks
  BY <1>1, InCall
<1>3. UNCHANGED <<port, serdat, intreq>>
  BY DEF PushOrWait, CharDone, regs
<1>4. serdat = NONE /\ "TBE" \notin intreq
  BY <1>2, <1>3 DEF SendqMoves
<1>5. sendq.used = 0
  <2>1. ~(sendq.used > 0)
    BY <1>2, <1>4 DEF SendqMoves
  <2>2. sendq.used \in 0..QUEUELEN /\ QUEUELEN \in Nat
    BY QueueLenAssumption DEF IInv, TypeOK, CharQueueT
  <2>3. QED
    BY <2>1, <2>2
<1>6. pc[CurrentTask] = "sent"
  BY <1>1, <1>4, <1>5 DEF Direct
<1>7. ~nonblock
  BY <1>2, <1>6 DEF IInv, Calls, Blocking
<1>8. QED
  BY <1>5, <1>6, <1>7

(* What is queued for the line stays on its way, on any port and whatever   *)
(* the tasks do.  Only a task that slept on a full queue, and comes back    *)
(* when the queue has been sent to its end, brings it to a standstill; with *)
(* O_NONBLOCK nobody sleeps, and nothing does.                              *)
THEOREM SendqStoppedOnlyBySleeper == Spec => SendqKeepsMoving
<1>1. IInv /\ [Next]_vars
        => (SendqMoves /\ ~SendqMoves'
              => ~nonblock /\ pc[CurrentTask] = "sent" /\ sendq.used = 0)
  <2> SUFFICES ASSUME IInv, [Next]_vars, SendqMoves, ~SendqMoves'
               PROVE  ~nonblock /\ pc[CurrentTask] = "sent" /\ sendq.used = 0
    OBVIOUS
  <2>1. CASE OpenSerial \/ SerialClose \/ PushDirectly \/ SendIntHandler \/ Transmit
    BY <2>1, PortKeepsMoving
  <2>2. CASE PushOrWait
    BY <2>2, PushKeepsMoving
  <2>3. CASE \/ PushChar \/ PopChar \/ PopOrWait \/ \E t \in Tasks : TaskSwitch(t)
             \/ \E call \in Writes : SerialWrite(call[2])
             \/ \E call \in Reads : SerialRead(call[2])
             \/ UNCHANGED vars
    <3>1. UNCHANGED <<port, sendq, serdat, intreq>>
      BY <2>3 DEF PushChar, PopChar, PopOrWait, TaskSwitch, SerialWrite, SerialRead,
                  vars, queues, regs
    <3>2. QED
      BY <3>1 DEF SendqMoves
  <2>4. CASE RecvIntHandler \/ \E c \in Incoming : Arrive(c)
    <3>1. /\ UNCHANGED <<port, sendq, serdat>>
          /\ "TBE" \in intreq => "TBE" \in intreq'
      BY <2>4 DEF RecvIntHandler, Arrive, queues
    <3>2. QED
      BY <3>1 DEF SendqMoves
  <2>5. QED
    BY <2>1, <2>2, <2>3, <2>4 DEF Next
<1>2. QED
  BY <1>1, Invariance, PTL DEF Spec, SendqKeepsMoving

-----------------------------------------------------------------------------
(* The serial port implements CharStreams, whatever its tasks write and    *)
(* read, for every length of its rings whose mask is right.                *)
(* i & (QUEUELEN - 1) is i modulo QUEUELEN.  The source has 80, for which   *)
(* it is not: see the run serial_ring.                                      *)
PowerOfTwo == QUEUELEN \in {1, 2, 4, 8, 16, 32, 64, 128}

Ring(q) == q.tail = Wrap(q.head + q.used)

(* A character is sent directly while the interrupt of the one before is    *)
(* pending.  Until the interrupt comes nothing is queued behind it: the     *)
(* interrupt of the receiver may come first, and a task that it wakes go on *)
(* with interrupts masked, but only to take a character.                    *)
Overtaken ==
  port = "open" /\ "TBE" \in intreq /\ serdat # NONE =>
    /\ sendq.used = 0
    /\ ipl = 0 \/ (pc[CurrentTask] = "came" /\ recvq.used > 0)

Links == Ring(sendq) /\ Ring(recvq) /\ Overtaken

RInv == IInv /\ Links

Shifted == IF serdat = NONE THEN <<>> ELSE <<serdat>>
Sending == Shifted \o Contents(sendq)
Receiving == Contents(recvq)

Stutters == UNCHANGED <<port, nonblock, Sending, serdatr, Receiving, out, got>>

-----------------------------------------------------------------------------
(* The rings.                                                               *)
LEMMA WrapOnce ==
  ASSUME PowerOfTwo, NEW i \in 0..(2 * QUEUELEN - 1)
  PROVE  Wrap(i) = IF i < QUEUELEN THEN i ELSE i - QUEUELEN
<1>1. CASE QUEUELEN = 1
  BY <1>1 DEF Wrap, Bit
<1>2. CASE QUEUELEN = 2
  BY <1>2 DEF Wrap, Bit
<1>3. CASE QUEUELEN = 4
  BY <1>3 DEF Wrap, Bit
<1>4. CASE QUEUELEN = 8
  BY <1>4 DEF Wrap, Bit
<1>5. CASE QUEUELEN = 16
  BY <1>5 DEF Wrap, Bit
<1>6. CASE QUEUELEN = 32
  BY <1>6 DEF Wrap, Bit
<1>7. CASE QUEUELEN = 64
  BY <1>7 DEF Wrap, Bit
<1>8. CASE QUEUELEN = 128
  BY <1>8 DEF Wrap, Bit
<1>9. QED
  BY <1>1, <1>2, <1>3, <1>4, <1>5, <1>6, <1>7, <1>8 DEF PowerOfTwo

LEMMA QueueParts ==
  ASSUME NEW q \in CharQueueT
  PROVE  /\ QUEUELEN \in Nat /\ QUEUELEN > 0
         /\ q.head \in 0..(QUEUELEN - 1) /\ q.tail \in 0..(QUEUELEN - 1)
         /\ q.used \in 0..QUEUELEN /\ q.data \in [Indices -> Char]
BY QueueLenAssumption DEF CharQueueT, Indices

LEMMA ContentsSeq ==
  ASSUME NEW q \in CharQueueT
  PROVE  /\ Contents(q) \in Seq(Char) /\ Len(Contents(q)) = q.used
         /\ \A i \in 1..q.used : Contents(q)[i] = q.data[Wrap(q.head + i - 1)]
<1>1. \A i \in 1..q.used : q.head + i - 1 \in Nat
  BY QueueParts
<1>2. \A i \in 1..q.used : Wrap(q.head + i - 1) \in Indices
  BY <1>1, WrapInRing
<1>3. q.used \in Nat /\ q.data \in [Indices -> Char]
  BY QueueParts
<1>4. Contents(q) \in [1..q.used -> Char]
  BY <1>2, <1>3 DEF Contents
<1>5. Len(Contents(q)) = q.used
  BY <1>3 DEF Contents
<1>6. Contents(q) \in Seq(Char)
  BY <1>3, <1>4, SeqDef
<1>7. QED
  BY <1>5, <1>6 DEF Contents

LEMMA ContentsEmpty ==
  ASSUME NEW q \in CharQueueT
  PROVE  Contents(q) = <<>> <=> q.used = 0
BY ContentsSeq, EmptySeq

LEMMA AppendElements ==
  ASSUME NEW s \in Seq(Char), NEW c \in Char
  PROVE  Append(s, c) = [i \in 1..(Len(s) + 1) |-> IF i <= Len(s) THEN s[i] ELSE c]
<1> DEFINE F == [i \in 1..(Len(s) + 1) |-> IF i <= Len(s) THEN s[i] ELSE c]
<1>1. Append(s, c) \in Seq(Char) /\ Len(Append(s, c)) = Len(s) + 1 /\ Len(s) \in Nat
  OBVIOUS
<1>2. Append(s, c) \in [1..(Len(s) + 1) -> Char]
  BY <1>1, LenProperties
<1>3. \A i \in 1..(Len(s) + 1) : Append(s, c)[i] = F[i]
  OBVIOUS
<1>4. QED
  BY <1>2, <1>3

LEMMA PushedContents ==
  ASSUME PowerOfTwo, NEW q \in CharQueueT, Ring(q), q.used < QUEUELEN, NEW c \in Char
  PROVE  /\ Contents(Pushed(q, c)) = Append(Contents(q), c)
         /\ Ring(Pushed(q, c))
<1> DEFINE p == Pushed(q, c)
<1>1. /\ p.head = q.head /\ p.used = q.used + 1
      /\ p.tail = Wrap(q.tail + 1)
      /\ p.data = [q.data EXCEPT ![q.tail] = c]
  BY DEF Pushed, CharQueueT
<1>2. /\ QUEUELEN \in Nat /\ q.head \in 0..(QUEUELEN - 1) /\ q.used \in 0..(QUEUELEN - 1)
      /\ q.tail \in 0..(QUEUELEN - 1)
  BY QueueParts
<1>3. q.tail = IF q.head + q.used < QUEUELEN THEN q.head + q.used
                                             ELSE (q.head + q.used) - QUEUELEN
  BY <1>2, WrapOnce DEF Ring
<1>4. Ring(p)
  <2>1. /\ Wrap(q.tail + 1) = IF q.tail + 1 < QUEUELEN THEN q.tail + 1
                                                      ELSE (q.tail + 1) - QUEUELEN
        /\ Wrap(q.head + (q.used + 1)) = IF q.head + (q.used + 1) < QUEUELEN
                                        THEN q.head + (q.used + 1)
                                        ELSE (q.head + (q.used + 1)) - QUEUELEN
    BY <1>2, WrapOnce
  <2>2. Wrap(q.tail + 1) = Wrap(q.head + (q.used + 1))
    BY <1>2, <1>3, <2>1
  <2>3. QED
    BY <1>1, <2>2 DEF Ring
<1>5. \A i \in 1..q.used : p.data[Wrap(q.head + i - 1)] = Contents(q)[i]
  <2> TAKE i \in 1..q.used
  <2>1. q.head + i - 1 \in 0..(2 * QUEUELEN - 1)
    BY <1>2
  <2>2. Wrap(q.head + i - 1) = IF q.head + i - 1 < QUEUELEN THEN q.head + i - 1
                                                           ELSE (q.head + i - 1) - QUEUELEN
    BY <2>1, WrapOnce
  <2>3. Wrap(q.head + i - 1) # q.tail /\ Wrap(q.head + i - 1) \in 0..(QUEUELEN - 1)
    BY <1>2, <1>3, <2>2
  <2>4. p.data[Wrap(q.head + i - 1)] = q.data[Wrap(q.head + i - 1)]
    BY <1>1, <2>3, QueueParts DEF Indices
  <2>5. QED
    BY <2>4, ContentsSeq
<1>6. p.data[Wrap(q.head + (q.used + 1) - 1)] = c
  <2>1. q.head + (q.used + 1) - 1 = q.head + q.used
    BY <1>2
  <2>2. p.data[q.tail] = c
    BY <1>1, <1>2, QueueParts DEF Indices
  <2>3. QED
    BY <2>1, <2>2 DEF Ring
<1>7. Contents(p) = [i \in 1..(q.used + 1) |-> IF i <= q.used THEN Contents(q)[i] ELSE c]
  <2>1. Contents(p) = [i \in 1..(q.used + 1) |-> p.data[Wrap(q.head + i - 1)]]
    BY <1>1 DEF Contents
  <2>2. \A i \in 1..(q.used + 1) :
          p.data[Wrap(q.head + i - 1)] = IF i <= q.used THEN Contents(q)[i] ELSE c
    <3> TAKE i \in 1..(q.used + 1)
    <3>1. CASE i = q.used + 1
      BY <1>2, <1>6, <3>1
    <3>2. CASE i # q.used + 1
      BY <1>2, <1>5, <3>2
    <3>3. QED
      BY <3>1, <3>2
  <2>3. QED
    BY <2>1, <2>2
<1>8. Contents(p) = Append(Contents(q), c)
  <2> HIDE DEF p
  <2>1. Contents(q) \in Seq(Char) /\ Len(Contents(q)) = q.used
    BY ContentsSeq
  <2>2. Append(Contents(q), c) = [i \in 1..(q.used + 1) |->
                                    IF i <= q.used THEN Contents(q)[i] ELSE c]
    BY <2>1, AppendElements
  <2>3. QED
    BY <1>7, <2>2
<1>9. QED
  BY <1>4, <1>8

LEMMA PoppedContents ==
  ASSUME PowerOfTwo, NEW q \in CharQueueT, Ring(q), q.used > 0
  PROVE  /\ Contents(q) # <<>> /\ Head(Contents(q)) = q.data[q.head]
         /\ Contents(Popped(q)) = Tail(Contents(q))
         /\ Ring(Popped(q))
<1> DEFINE p == Popped(q)
<1>1. /\ p.head = Wrap(q.head + 1) /\ p.used = q.used - 1
      /\ p.tail = q.tail /\ p.data = q.data
  BY DEF Popped, CharQueueT
<1>2. /\ QUEUELEN \in Nat /\ q.head \in 0..(QUEUELEN - 1) /\ q.used \in 1..QUEUELEN
  BY QueueParts
<1>3. p.head = IF q.head + 1 < QUEUELEN THEN q.head + 1 ELSE (q.head + 1) - QUEUELEN
  <2>1. q.head + 1 \in 0..(2 * QUEUELEN - 1)
    BY <1>2
  <2>2. QED
    BY <1>1, <2>1, WrapOnce
<1>4. \A i \in 0..(q.used - 1) : Wrap(p.head + i) = Wrap(q.head + (i + 1))
  <2> TAKE i \in 0..(q.used - 1)
  <2> HIDE DEF p
  <2>1. p.head + i \in 0..(2 * QUEUELEN - 1) /\ q.head + (i + 1) \in 0..(2 * QUEUELEN - 1)
    BY <1>2, <1>3
  <2>2. /\ Wrap(p.head + i) = IF p.head + i < QUEUELEN THEN p.head + i ELSE (p.head + i) - QUEUELEN
        /\ Wrap(q.head + (i + 1)) = IF q.head + (i + 1) < QUEUELEN THEN q.head + (i + 1)
                                                            ELSE (q.head + (i + 1)) - QUEUELEN
    BY <2>1, WrapOnce
  <2>3. QED
    BY <1>2, <1>3, <2>2
<1>5. Ring(p)
  <2>1. Wrap(p.head + (q.used - 1)) = Wrap(q.head + (q.used - 1 + 1))
    BY <1>2, <1>4
  <2>2. q.used - 1 + 1 = q.used
    BY <1>2
  <2>3. QED
    BY <1>1, <2>1, <2>2 DEF Ring
<1>6. /\ Contents(q) \in Seq(Char) /\ Len(Contents(q)) = q.used
      /\ \A i \in 1..q.used : Contents(q)[i] = q.data[Wrap(q.head + i - 1)]
  BY ContentsSeq
<1>7. Contents(q) # <<>> /\ Head(Contents(q)) = q.data[q.head]
  <2>1. Contents(q) # <<>> /\ Head(Contents(q)) = Contents(q)[1]
    BY <1>2, <1>6, EmptySeq
  <2>2. q.head + 1 - 1 = q.head /\ 1 \in 1..q.used
    BY <1>2
  <2>3. Wrap(q.head) = q.head
    BY <1>2, WrapOnce
  <2>4. QED
    BY <1>6, <2>1, <2>2, <2>3
<1>8. Contents(p) = [i \in 1..(q.used - 1) |-> Contents(q)[i + 1]]
  <2>1. Contents(p) = [i \in 1..(q.used - 1) |-> q.data[Wrap(p.head + i - 1)]]
    BY <1>1 DEF Contents
  <2>2. \A i \in 1..(q.used - 1) :
          q.data[Wrap(p.head + i - 1)] = Contents(q)[i + 1]
    <3> TAKE i \in 1..(q.used - 1)
    <3> HIDE DEF p
    <3>0. p.head \in Nat
      BY <1>2, <1>3
    <3>1. /\ p.head + i - 1 = p.head + (i - 1) /\ i - 1 \in 0..(q.used - 1)
          /\ q.head + (i - 1 + 1) = q.head + (i + 1) - 1 /\ i + 1 \in 1..q.used
      BY <1>2, <3>0
    <3>2. Wrap(p.head + i - 1) = Wrap(q.head + (i + 1) - 1)
      BY <1>4, <3>1
    <3>3. QED
      BY <1>6, <3>1, <3>2
  <2>3. QED
    BY <2>1, <2>2
<1>9. Contents(p) = Tail(Contents(q))
  <2> HIDE DEF p
  <2>1. /\ Tail(Contents(q)) \in Seq(Char) /\ Len(Tail(Contents(q))) = q.used - 1
        /\ \A i \in 1..(q.used - 1) : Tail(Contents(q))[i] = Contents(q)[i + 1]
    BY <1>6, <1>7, HeadTailProperties
  <2>2. Tail(Contents(q)) \in [1..(q.used - 1) -> Char]
    BY <2>1, LenProperties
  <2>3. QED
    BY <1>8, <2>1, <2>2
<1>10. QED
  BY <1>5, <1>7, <1>9

-----------------------------------------------------------------------------
(* Steps that leave the rings or the registers as they are.                 *)
LEMMA Primes ==
  /\ Contents(sendq)' = Contents(sendq') /\ Contents(recvq)' = Contents(recvq')
  /\ Ring(sendq)' = Ring(sendq') /\ Ring(recvq)' = Ring(recvq')
BY DEF Contents, Ring, Wrap, Bit

LEMMA SameSending ==
  ASSUME UNCHANGED <<serdat, sendq>>
  PROVE  Sending' = Sending /\ Ring(sendq)' = Ring(sendq)
BY Primes DEF Sending, Shifted

LEMMA SameReceiving ==
  ASSUME UNCHANGED recvq
  PROVE  Receiving' = Receiving /\ Ring(recvq)' = Ring(recvq)
BY Primes DEF Receiving

(* With no interrupt pending there is nothing to overtake.                  *)
LEMMA QuietKeeps ==
  ASSUME RInv, "TBE" \notin intreq', UNCHANGED <<sendq, recvq, serdat>>
  PROVE  /\ Links'
         /\ Sending' = Sending /\ Receiving' = Receiving
BY SameSending, SameReceiving DEF RInv, Links, Overtaken

LEMMA RestIsBehind ==
  ASSUME NEW text \in Seq(Char), text # <<>>
  PROVE  Rest(text) = Streams!Behind(text)
<1>1. text = <<Head(text)>> \o Tail(text) /\ Tail(text) \in Seq(Char)
  OBVIOUS
<1>2. [text EXCEPT ![1] = Return] = <<Return>> \o Tail(text)
  OBVIOUS
<1>3. <<>> \o Tail(text) = Tail(text)
  BY <1>1
<1>4. QED
  BY <1>2, <1>3 DEF Rest, Streams!Behind

-----------------------------------------------------------------------------
LEMMA OpenSerialMaps ==
  ASSUME RInv, OpenSerial
  PROVE  Streams!Open /\ Links'
BY QuietKeeps DEF OpenSerial, Streams!Open, Sending, Shifted, Receiving, queues

LEMMA SerialCloseMaps ==
  ASSUME RInv, SerialClose
  PROVE  Streams!Close /\ Links'
<1>1. \A t \in Tasks : out[t] = <<>>
  BY DEF SerialClose, RInv, IInv, Rests, Writing
<1>2. QED
  BY <1>1, QuietKeeps DEF SerialClose, Streams!Close, Sending, Shifted, Receiving, queues

LEMMA SerialWriteMaps ==
  ASSUME RInv, NEW call \in Writes, SerialWrite(call[2])
  PROVE  (\E t \in Tasks : Streams!BeginWrite(t)) /\ Links'
<1>1. CurrentTask \in Tasks /\ out[CurrentTask] = <<>>
  BY DEF SerialWrite, At, RInv, IInv, TypeOK, Rests, Writing
<1>2. Links' /\ Sending' = Sending /\ Receiving' = Receiving
  BY QuietKeeps DEF SerialWrite, At, queues, regs
<1>3. Streams!BeginWrite(CurrentTask)
  BY <1>1, <1>2
     DEF SerialWrite, Streams!BeginWrite, Sending, Shifted, Receiving, regs
<1>4. QED
  BY <1>1, <1>2, <1>3

LEMMA CallStepMaps ==
  ASSUME RInv, PushChar \/ PopChar \/ (\E call \in Reads : SerialRead(call[2]))
                 \/ (\E t \in Tasks : TaskSwitch(t))
  PROVE  Stutters /\ Links'
<1>1. /\ intreq = {} /\ UNCHANGED <<port, nonblock, sendq, recvq, serdat, serdatr, intreq>>
      /\ UNCHANGED <<out, got>>
  BY DEF PushChar, PopChar, SerialRead, TaskSwitch, At, queues, regs
<1>2. QED
  BY <1>1, QuietKeeps DEF Stutters

(* In PushChar no interrupt is pending behind a busy transmitter.           *)
LEMMA PushNotOvertaken ==
  ASSUME RInv, PushOrWait
  PROVE  "TBE" \in intreq => serdat = NONE
<1>1. pc[CurrentTask] \in {"masked push", "sent"} /\ port = "open"
  BY InCall DEF PushOrWait, RInv
<1>2. ipl = 7
  BY <1>1 DEF RInv, IInv, Masks, IplOf
<1>3. ipl # 0
  BY <1>2
<1>4. pc[CurrentTask] # "came"
  BY <1>1
<1>5. Overtaken
  BY DEF RInv, Links
<1>6. QED
  BY <1>1, <1>3, <1>4, <1>5, Zenon DEF Overtaken

LEMMA PushDirectlyMaps ==
  ASSUME RInv, PushDirectly
  PROVE  (\E t \in Tasks : Streams!Write(t)) /\ Links'
<1> DEFINE text == out[CurrentTask]
           c == Head(text)
<1>1. /\ sendq.used = 0 /\ serdat = NONE /\ serdat' = c /\ UNCHANGED <<sendq, recvq>>
      /\ ipl' = 0 /\ out' = [out EXCEPT ![CurrentTask] = Rest(text)]
      /\ UNCHANGED <<port, nonblock, serdatr, got>>
  BY DEF PushDirectly, Direct, CharDone
<1>2. CurrentTask \in Tasks
  BY InCall DEF PushDirectly, RInv
<1>3. text \in Seq(Char) /\ text # <<>>
  BY <1>2 DEF PushDirectly, RInv, IInv, TypeOK, Rests, Writing
<1>4. c \in Char /\ c # NONE
  BY <1>3, RestType, CharAssumption
<1> HIDE DEF c
<1>5. Contents(sendq) = <<>>
  BY <1>1, ContentsEmpty DEF RInv, IInv, TypeOK
<1>6. Sending = <<>> /\ Sending' = <<c>>
  BY <1>1, <1>4, <1>5, Primes DEF Sending, Shifted
<1>7. Receiving' = Receiving /\ Links'
  BY <1>1, SameReceiving, Primes DEF RInv, Links, Overtaken
<1>8. Sending' = Append(Sending, c)
  BY <1>6
<1>9. out' = [out EXCEPT ![CurrentTask] = Streams!Behind(out[CurrentTask])]
  BY <1>1, <1>3, RestIsBehind
<1>10. Streams!Write(CurrentTask)
  BY <1>1, <1>3, <1>7, <1>8, <1>9 DEF Streams!Write, Sending, Shifted, Receiving, c
<1>11. QED
  BY <1>2, <1>7, <1>10

LEMMA PushOrWaitMaps ==
  ASSUME PowerOfTwo, RInv, PushOrWait
  PROVE  /\ Stutters \/ \E t \in Tasks : Streams!Write(t) \/ Streams!Drop(t)
         /\ Links'
<1> DEFINE text == out[CurrentTask]
           c == Head(text)
<1>1. CurrentTask \in Tasks
  BY InCall DEF PushOrWait, RInv
<1>2. text \in Seq(Char) /\ text # <<>> /\ sendq \in CharQueueT
  BY <1>1 DEF PushOrWait, RInv, IInv, TypeOK, Rests, Writing
<1>3. c \in Char
  BY <1>2, RestType
<1>4. "TBE" \in intreq => serdat = NONE
  BY PushNotOvertaken
<1>5. CASE sendq.used = QUEUELEN /\ ~nonblock
  <2>1. UNCHANGED <<port, nonblock, sendq, recvq, serdat, serdatr, intreq, out, got>>
    BY <1>5 DEF PushOrWait, queues, regs
  <2>2. Links'
    BY <1>4, <2>1, SameSending, SameReceiving DEF RInv, Links, Overtaken
  <2>3. Stutters
    BY <2>1, SameSending, SameReceiving DEF Stutters
  <2>4. QED
    BY <2>2, <2>3
<1>6. CASE ~(sendq.used = QUEUELEN /\ ~nonblock)
  <2>1. /\ sendq' = Pushed(sendq, c) /\ UNCHANGED <<serdat, recvq>>
        /\ out' = [out EXCEPT ![CurrentTask] = Rest(text)]
        /\ UNCHANGED <<port, nonblock, serdatr, intreq, got>>
    BY <1>6 DEF PushOrWait, CharDone
  <2>2. out' = [out EXCEPT ![CurrentTask] = Streams!Behind(out[CurrentTask])]
    BY <1>2, <2>1, RestIsBehind
  <2>3. Receiving' = Receiving /\ Ring(recvq)' /\ Overtaken'
    BY <1>4, <2>1, SameReceiving DEF RInv, Links, Overtaken
  <2>4. CASE sendq.used < QUEUELEN
    <3> HIDE DEF c
    <3>1. Contents(sendq') = Append(Contents(sendq), c) /\ Ring(sendq')
      BY <1>2, <1>3, <2>1, <2>4, PushedContents DEF RInv, Links
    <3>2. Contents(sendq) \in Seq(Char) /\ Shifted \in Seq(Char \cup {NONE})
      <4>1. serdat \in Char \cup {NONE}
        BY DEF RInv, IInv, TypeOK
      <4>2. <<>> \in Seq(Char \cup {NONE}) /\ <<serdat>> \in Seq(Char \cup {NONE})
        BY <4>1
      <4>3. Contents(sendq) \in Seq(Char)
        BY <1>2, ContentsSeq, Zenon
      <4>4. QED
        BY <4>2, <4>3, Zenon DEF Shifted
    <3>3. Shifted \o Append(Contents(sendq), c) = Append(Shifted \o Contents(sendq), c)
      BY <1>3, <3>2
    <3>4. Sending' = Append(Sending, c)
      BY <2>1, <3>1, <3>3, Primes DEF Sending, Shifted
    <3>5. Streams!Write(CurrentTask)
      BY <1>2, <2>1, <2>2, <2>3, <3>4 DEF Streams!Write, Sending, Shifted, Receiving, c
    <3>6. QED
      BY <1>1, <2>3, <3>1, <3>5, Primes DEF Links
  <2>5. CASE ~(sendq.used < QUEUELEN)
    <3>1. sendq.used = QUEUELEN /\ nonblock
      BY <1>2, <1>6, <2>5, QueueParts
    <3>2. UNCHANGED sendq
      BY <2>1, <2>5 DEF Pushed
    <3>3. Sending' = Sending /\ Ring(sendq)'
      BY <2>1, <3>2, SameSending DEF RInv, Links
    <3>4. Contents(sendq) \in Seq(Char) /\ Len(Contents(sendq)) = QUEUELEN
      BY <1>2, <3>1, ContentsSeq
    <3>5. Len(Sending) >= QUEUELEN
      BY <1>2, <3>4, QueueParts DEF Sending, Shifted
    <3>6. Streams!Drop(CurrentTask)
      BY <1>2, <2>1, <2>2, <2>3, <3>1, <3>3, <3>5
         DEF Streams!Drop, Sending, Shifted, Receiving
    <3>7. QED
      BY <1>1, <2>3, <3>3, <3>6 DEF Links
  <2>6. QED
    BY <2>4, <2>5
<1>7. QED
  BY <1>5, <1>6

LEMMA SendIntHandlerMaps ==
  ASSUME PowerOfTwo, RInv, SendIntHandler
  PROVE  Stutters /\ Links'
<1>1. /\ port = "open" /\ intreq = {"TBE"} /\ intreq' = {}
      /\ UNCHANGED <<port, nonblock, recvq, serdatr, out, got>>
      /\ sendq \in CharQueueT
  BY DEF SendIntHandler, RInv, IInv, TypeOK
<1>2. Receiving' = Receiving /\ Ring(recvq)' /\ Overtaken'
  BY <1>1, SameReceiving DEF RInv, Links, Overtaken
<1>3. CASE sendq.used > 0
  <2>1. serdat' = sendq.data[sendq.head] /\ sendq' = Popped(sendq)
    BY <1>3 DEF SendIntHandler
  <2>2. serdat = NONE
    <3>1. sendq.used # 0
      BY <1>3
    <3>2. Overtaken
      BY DEF RInv, Links
    <3>3. QED
      BY <1>1, <3>1, <3>2, Zenon DEF Overtaken
  <2>3. /\ Contents(sendq) # <<>> /\ Head(Contents(sendq)) = serdat'
        /\ Contents(sendq') = Tail(Contents(sendq)) /\ Ring(sendq')
    BY <1>1, <1>3, <2>1, PoppedContents DEF RInv, Links
  <2>4. Contents(sendq) \in Seq(Char) /\ serdat' # NONE
    BY <1>1, <1>3, <2>1, ContentsSeq, PoppedTypes, CharAssumption
  <2>5. Sending = Contents(sendq)
    BY <2>2, <2>4 DEF Sending, Shifted
  <2>6. Sending' = <<serdat'>> \o Contents(sendq')
    BY <2>4, Primes DEF Sending, Shifted
  <2>7. Contents(sendq) = <<Head(Contents(sendq))>> \o Tail(Contents(sendq))
    BY <2>3, <2>4
  <2>8. Sending' = Sending
    BY <2>3, <2>5, <2>6, <2>7
  <2>9. QED
    BY <1>1, <1>2, <2>3, <2>8, Primes DEF Stutters, Links
<1>4. CASE ~(sendq.used > 0)
  <2>1. UNCHANGED <<serdat, sendq>>
    BY <1>4 DEF SendIntHandler
  <2>2. QED
    BY <1>1, <1>2, <2>1, SameSending DEF Stutters, RInv, Links
<1>5. QED
  BY <1>3, <1>4

LEMMA TransmitMaps ==
  ASSUME RInv, Transmit
  PROVE  Streams!Transmit /\ Links'
<1>1. /\ serdat # NONE /\ serdat' = NONE
      /\ UNCHANGED <<port, nonblock, sendq, recvq, serdatr, out, got>>
  BY DEF Transmit, queues
<1>2. Contents(sendq) \in Seq(Char) /\ Contents(sendq)' = Contents(sendq)
  BY <1>1, ContentsSeq, Primes DEF RInv, IInv, TypeOK
<1>3. Sending = <<serdat>> \o Contents(sendq) /\ Sending' = <<>> \o Contents(sendq)
  BY <1>1, <1>2 DEF Sending, Shifted
<1>4. Sending # <<>> /\ Sending' = Tail(Sending)
  BY <1>2, <1>3
<1>5. Receiving' = Receiving /\ Ring(sendq)' /\ Ring(recvq)'
  BY <1>1, SameReceiving, Primes DEF RInv, Links
<1>6. Links'
  BY <1>1, <1>5 DEF Links, Overtaken
<1>7. QED
  BY <1>1, <1>4, <1>5, <1>6 DEF Streams!Transmit, Sending, Shifted, Receiving

LEMMA PopOrWaitMaps ==
  ASSUME PowerOfTwo, RInv, PopOrWait
  PROVE  /\ Stutters \/ \E t \in Tasks : Streams!Read(t) \/ Streams!ReadNone(t)
         /\ Links'
<1>1. /\ UNCHANGED <<port, nonblock, sendq, serdat, serdatr, intreq, out>>
      /\ recvq \in CharQueueT
  BY DEF PopOrWait, regs, RInv, IInv, TypeOK
<1>2. CurrentTask \in Tasks
  BY InCall DEF PopOrWait, RInv
<1>3. Sending' = Sending /\ Ring(sendq)'
  BY <1>1, SameSending DEF RInv, Links
<1>4. ipl # 0
  <2>1. ipl = 7
    BY DEF PopOrWait
  <2>2. QED
    BY <2>1
<1>5. CASE recvq.used > 0
  <2> DEFINE c == recvq.data[recvq.head]
  <2>1. recvq' = Popped(recvq) /\ CharRead(c)
    BY <1>5 DEF PopOrWait
  <2>2. /\ Contents(recvq) # <<>> /\ Head(Contents(recvq)) = c
        /\ Contents(recvq') = Tail(Contents(recvq)) /\ Ring(recvq')
    BY <1>1, <1>5, <2>1, PoppedContents DEF RInv, Links
  <2>3. got' = [got EXCEPT ![CurrentTask] = c] /\ ipl' = 0
    BY <2>1 DEF CharRead
  <2> HIDE DEF c
  <2>4. Overtaken'
    BY <1>1, <2>3 DEF RInv, Links, Overtaken
  <2>5. Streams!Read(CurrentTask)
    BY <1>1, <1>3, <2>2, <2>3, Primes DEF Streams!Read, Sending, Shifted, Receiving
  <2>6. QED
    BY <1>2, <1>3, <2>2, <2>4, <2>5, Primes DEF Links
<1>6. CASE ~(recvq.used > 0)
  <2>1. UNCHANGED recvq
    BY <1>6 DEF PopOrWait
  <2>2. Receiving' = Receiving /\ Ring(recvq)'
    BY <2>1, SameReceiving DEF RInv, Links
  <2>3. ~(port = "open" /\ "TBE" \in intreq /\ serdat # NONE)
    BY <1>4, <1>6 DEF RInv, Links, Overtaken
  <2>4. Links'
    BY <1>1, <1>3, <2>2, <2>3 DEF Links, Overtaken
  <2>5. CASE nonblock
    <3>1. got' = [got EXCEPT ![CurrentTask] = NONE]
      BY <1>6, <2>5 DEF PopOrWait, CharRead
    <3>2. recvq.used = 0
      BY <1>1, <1>6, QueueParts
    <3>3. Receiving = <<>>
      BY <1>1, <3>2, ContentsEmpty DEF Receiving
    <3>4. Streams!ReadNone(CurrentTask)
      BY <1>1, <1>3, <2>2, <2>5, <3>1, <3>3
         DEF Streams!ReadNone, Sending, Shifted, Receiving
    <3>5. QED
      BY <1>2, <2>4, <3>4
  <2>6. CASE ~nonblock
    <3>1. UNCHANGED got
      BY <1>6, <2>6 DEF PopOrWait
    <3>2. QED
      BY <1>1, <1>3, <2>2, <2>4, <3>1 DEF Stutters
  <2>7. QED
    BY <2>5, <2>6
<1>7. QED
  BY <1>5, <1>6

LEMMA RecvIntHandlerMaps ==
  ASSUME PowerOfTwo, RInv, RecvIntHandler
  PROVE  Streams!Receive /\ Links'
<1>1. /\ port = "open" /\ ipl = 0 /\ "RBF" \in intreq /\ intreq' = intreq \ {"RBF"}
      /\ recvq' = Pushed(recvq, serdatr) /\ serdatr' = NONE
      /\ IF nonblock THEN UNCHANGED <<pc, cpu>> ELSE Notify("RBF", "came")
      /\ UNCHANGED <<port, nonblock, sendq, serdat, out, got>>
  BY DEF RecvIntHandler
<1>2. recvq \in CharQueueT /\ serdatr \in Char /\ serdatr # NONE
  BY <1>1, CharAssumption DEF RInv, IInv, TypeOK, Requests
<1>3. Sending' = Sending /\ Ring(sendq)'
  BY <1>1, SameSending DEF RInv, Links
<1>4. ipl' = 0 \/ pc'[CurrentTask'] = "came"
  <2>1. CASE nonblock
    BY <1>1, <2>1 DEF cpu
  <2>2. CASE ~nonblock
    BY <1>1, <2>2, NotifyStep DEF RInv, IInv
  <2>3. QED
    BY <2>1, <2>2
<1>5. /\ recvq'.used > 0 /\ Ring(recvq)'
      /\ \/ Receiving' = Append(Receiving, serdatr)
         \/ Len(Receiving) = QUEUELEN /\ Receiving' = Receiving
  <2>1. CASE recvq.used < QUEUELEN
    <3>1. Contents(recvq') = Append(Contents(recvq), serdatr) /\ Ring(recvq')
      BY <1>1, <1>2, <2>1, PushedContents DEF RInv, Links
    <3>2. recvq'.used = recvq.used + 1
      BY <1>1, <1>2, <2>1, PushedTypes
    <3>3. recvq'.used > 0
      BY <1>2, <3>2, QueueParts
    <3>4. QED
      BY <3>1, <3>3, Primes DEF Receiving
  <2>2. CASE ~(recvq.used < QUEUELEN)
    <3>1. recvq.used = QUEUELEN /\ QUEUELEN > 0
      BY <1>2, <2>2, QueueParts
    <3>2. UNCHANGED recvq
      BY <1>1, <2>2 DEF Pushed
    <3>3. Len(Receiving) = QUEUELEN
      BY <1>2, <3>1, ContentsSeq DEF Receiving
    <3>4. QED
      BY <3>1, <3>2, <3>3, SameReceiving DEF RInv, Links
  <2>3. QED
    BY <2>1, <2>2
<1>6. Overtaken'
  BY <1>1, <1>4, <1>5 DEF RInv, Links, Overtaken
<1>7. Streams!Receive
  BY <1>1, <1>2, <1>3, <1>5 DEF Streams!Receive, Sending, Shifted, Receiving
<1>8. QED
  BY <1>3, <1>5, <1>6, <1>7 DEF Links

LEMMA ArriveMaps ==
  ASSUME RInv, NEW c \in Incoming, Arrive(c)
  PROVE  Streams!Arrive /\ Links'
<1>1. /\ serdatr = NONE /\ serdatr' = c /\ intreq' = intreq \cup {"RBF"}
      /\ UNCHANGED <<port, nonblock, sendq, recvq, serdat, CurrentTask, ipl, pc, out, got>>
      /\ c \in Char
  BY CharAssumption DEF Arrive, queues, cpu
<1>2. /\ Sending' = Sending /\ Ring(sendq)'
      /\ Receiving' = Receiving /\ Ring(recvq)'
  BY <1>1, SameSending, SameReceiving DEF RInv, Links
<1>3. Overtaken'
  BY <1>1 DEF RInv, Links, Overtaken
<1>4. QED
  BY <1>1, <1>2, <1>3 DEF Streams!Arrive, Sending, Shifted, Receiving, Links

LEMMA StutterMaps ==
  ASSUME RInv, UNCHANGED vars
  PROVE  Stutters /\ Links'
<1>1. UNCHANGED <<port, nonblock, sendq, recvq, serdat, serdatr, intreq, CurrentTask, ipl,
                  pc, out, got>>
  BY DEF vars, queues, regs, cpu
<1>2. QED
  BY <1>1, SameSending, SameReceiving DEF Stutters, RInv, Links, Overtaken

-----------------------------------------------------------------------------
LEMMA InitMaps == PowerOfTwo /\ Init => RInv /\ Streams!Init
<1> SUFFICES ASSUME PowerOfTwo, Init PROVE RInv /\ Streams!Init
  OBVIOUS
<1>1. IInv
  BY InitIInv
<1>2. /\ sendq \in CharQueueT /\ recvq \in CharQueueT
      /\ sendq.used = 0 /\ recvq.used = 0
      /\ sendq.head = 0 /\ recvq.head = 0 /\ sendq.tail = 0 /\ recvq.tail = 0
  BY <1>1 DEF Init, EmptyQueue, IInv, TypeOK
<1>3. Ring(sendq) /\ Ring(recvq)
  <2>1. 0 \in 0..(2 * QUEUELEN - 1) /\ 0 < QUEUELEN
    BY QueueLenAssumption
  <2>2. Wrap(0) = 0
    BY <2>1, WrapOnce
  <2>3. QED
    BY <1>2, <2>2 DEF Ring
<1>4. Overtaken
  BY DEF Init, Overtaken
<1>5. Contents(sendq) = <<>> /\ Receiving = <<>>
  BY <1>2, ContentsEmpty DEF Receiving
<1>6. Sending = <<>>
  BY <1>5 DEF Init, Sending, Shifted
<1>7. Streams!Init
  BY <1>5, <1>6 DEF Init, Streams!Init, Sending, Shifted, Receiving
<1>8. QED
  BY <1>1, <1>3, <1>4, <1>7 DEF RInv, Links

LEMMA NextMaps ==
  PowerOfTwo /\ RInv /\ [Next]_vars
    => /\ RInv'
       /\ [Streams!Next]_<<port, nonblock, Sending, serdatr, Receiving, out, got>>
<1> SUFFICES ASSUME PowerOfTwo, RInv, [Next]_vars
             PROVE  Links' /\ (Streams!Next \/ Stutters)
  BY NextKeeps DEF RInv, Stutters
<1> USE DEF Streams!Next
<1>1. CASE OpenSerial \/ SerialClose \/ (\E call \in Writes : SerialWrite(call[2]))
  BY <1>1, OpenSerialMaps, SerialCloseMaps, SerialWriteMaps
<1>2. CASE PushChar \/ PopChar \/ (\E call \in Reads : SerialRead(call[2]))
           \/ (\E t \in Tasks : TaskSwitch(t))
  BY <1>2, CallStepMaps
<1>3. CASE PushDirectly \/ PushOrWait \/ PopOrWait
  BY <1>3, PushDirectlyMaps, PushOrWaitMaps, PopOrWaitMaps
<1>4. CASE SendIntHandler \/ Transmit \/ RecvIntHandler \/ \E c \in Incoming : Arrive(c)
  BY <1>4, SendIntHandlerMaps, TransmitMaps, RecvIntHandlerMaps, ArriveMaps
<1>5. CASE UNCHANGED vars
  BY <1>5, StutterMaps
<1>6. QED
  BY <1>1, <1>2, <1>3, <1>4, <1>5 DEF Next

(* A ring whose mask is right makes the serial port two streams, each first *)
(* in first out: no character is lost, doubled or overtaken on its way,     *)
(* however the tasks, both interrupts and the line interleave, but for      *)
(* those dropped from a full queue.                                         *)
THEOREM ImplementsStreams == PowerOfTwo /\ Spec => StreamsKept
<1>1. PowerOfTwo => (Spec => Streams!Spec)
  <2>1. SUFFICES ASSUME PowerOfTwo PROVE Spec => Streams!Spec
    OBVIOUS
  <2>2. Init => RInv /\ Streams!Init
    BY <2>1, InitMaps
  <2>3. RInv /\ [Next]_vars
          => /\ RInv'
             /\ [Streams!Next]_<<port, nonblock, Sending, serdatr, Receiving, out, got>>
    BY <2>1, NextMaps
  <2>4. QED
    BY <2>2, <2>3, PTL DEF Spec, Streams!Spec, Streams!vars, Sending, Shifted, Receiving
<1>2. QED
  BY <1>1 DEF StreamsKept
=============================================================================
