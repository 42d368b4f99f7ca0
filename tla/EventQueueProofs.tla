-------------------------- MODULE EventQueueProofs --------------------------
(***************************************************************************)
(* EventQueue implements EventFifo, for every queue length, set of events, *)
(* set of tasks and set of interrupt levels.                               *)
(***************************************************************************)
EXTENDS EventQueue, SequenceTheorems, TLAPS

USE QueueLenAssumption

InCall(x) == pc[x] \notin {"out", "none"}

(* An actor in a call runs, with every interrupt masked: it is the only one.*)
Masked == \A x \in Actors : InCall(x) => ipl = 7 /\ Runs(x)

(* Only service routines begin and end, and only tasks pop.                 *)
Roles ==
  /\ \A t \in Tasks : pc[t] # "none"
  /\ \A l \in Levels : pc[l] \notin {"popTest", "popRead", "popHead", "popCount"}

(* What the tests have found holds until the call has made use of it.       *)
Room ==
  \A x \in Actors :
    /\ pc[x] \in {"write", "tail", "count"} => used < QUEUELEN
    /\ pc[x] \in {"popRead", "popHead", "popCount"} => used > 0

(* tail is used places behind head, but for a call that has moved one of    *)
(* them and has yet to count.                                              *)
Ring ==
  /\ (\A x \in Actors : pc[x] \notin {"count", "popCount"}) => tail = Wrap(head + used)
  /\ \A x \in Actors :
       /\ pc[x] = "count" => tail = Wrap(head + used + 1)
       /\ pc[x] = "popCount" => tail = Wrap(head + used - 1)
       /\ pc[x] \in {"tail", "count"} => queue[Wrap(head + used)] = pushed[x]

IInv == TypeOK /\ Masked /\ Roles /\ Room /\ Ring

-----------------------------------------------------------------------------
LEMMA WrapType ==
  ASSUME NEW i \in 0..(QUEUELEN - 1)
  PROVE  Wrap(i + 1) \in 0..(QUEUELEN - 1)
BY DEF Wrap

(* The processor runs one actor at a time.                                  *)
LEMMA OneRuns ==
  ASSUME NEW x \in Actors, NEW y \in Actors, Runs(x), Runs(y)
  PROVE  x = y
<1>1. CASE x \in Levels /\ y \in Levels
  <2>1. x <= y /\ y <= x
    BY <1>1 DEF Runs
  <2>2. QED
    BY <1>1, <2>1, LevelsAssumption
<1>2. CASE x \notin Levels \/ y \notin Levels
  BY <1>2 DEF Runs
<1>3. QED
  BY <1>1, <1>2

LEMMA OneCaller ==
  ASSUME IInv, NEW x \in Actors, Runs(x), NEW y \in Actors, InCall(y)
  PROVE  x = y /\ ipl = 7
BY OneRuns DEF IInv, Masked

(* Who runs depends on pc only in who has begun.                            *)
LEMMA RunsOn ==
  ASSUME NEW x \in Actors, NEW label \in Labels, TypeOK, Roles, Runs(x),
         Goto(x, label), UNCHANGED CurrentTask, x \in Begun \/ x \in Tasks
  PROVE  Runs(x)'
<1>1. Begun' = Begun
  BY LevelsAssumption DEF Begun, Goto, TypeOK, Labels, Actors
<1>2. QED
  BY <1>1 DEF Runs

LEMMA RunsInCall ==
  ASSUME NEW x \in Actors, NEW label \in Labels, IInv, Runs(x), Goto(x, label),
         UNCHANGED CurrentTask
  PROVE  /\ Runs(x)'
         /\ \A y \in Actors : y # x => ~InCall(y) /\ ~InCall(y)'
         /\ pc' \in [Actors -> Labels \cup {"none"}]
         /\ Roles' \/ x \in Levels
<1>1. x \in Begun \/ x \in Tasks
  BY DEF Runs, Actors
<1>2. Runs(x)'
  BY <1>1, RunsOn DEF IInv
<1>3. \A y \in Actors : y # x => ~InCall(y) /\ ~InCall(y)'
  BY OneCaller DEF InCall, Goto, IInv, TypeOK
<1>4. QED
  BY <1>2, <1>3, LevelsAssumption DEF Goto, IInv, TypeOK, Roles, Labels

(* A step of a call: with interrupts masked, it has the variables to itself.*)
LEMMA CallStep ==
  ASSUME NEW x \in Actors, NEW label \in Labels, IInv, Runs(x), InCall(x), Goto(x, label),
         UNCHANGED cpu
  PROVE  Masked'
<1>1. ipl = 7 /\ UNCHANGED ipl
  BY DEF IInv, Masked, cpu
<1>2. Runs(x)' /\ \A y \in Actors : y # x => ~InCall(y)'
  BY RunsInCall DEF cpu
<1>3. QED
  BY <1>1, <1>2 DEF Masked

LEMMA InitIInv == Init => IInv
<1> SUFFICES ASSUME Init PROVE IInv
  OBVIOUS
<1>1. TypeOK
  BY LevelsAssumption DEF Init, TypeOK, Actors, Labels
<1>2. \A x \in Actors : pc[x] \in {"out", "none"}
  BY DEF Init
<1>3. Masked /\ Roles /\ Room
  BY <1>2, LevelsAssumption DEF Init, Masked, InCall, Roles, Room, Actors
<1>4. Ring
  BY <1>2 DEF Init, Ring, Wrap
<1>5. QED
  BY <1>1, <1>3, <1>4 DEF IInv

-----------------------------------------------------------------------------
LEMMA PushTestKeeps ==
  ASSUME IInv, NEW x \in Actors, PushTest(x)
  PROVE  IInv'
<1> DEFINE label == IF used < QUEUELEN THEN "write" ELSE "unmask"
<1>1. /\ Runs(x) /\ pc[x] = "test" /\ Goto(x, label) /\ label \in Labels
      /\ UNCHANGED <<shared, cpu, oldipl, pushed, event>>
  BY DEF PushTest, At, Labels
<1>2. /\ Masked' /\ \A y \in Actors : y # x => ~InCall(y) /\ ~InCall(y)'
      /\ pc' \in [Actors -> Labels \cup {"none"}]
  BY <1>1, CallStep, RunsInCall DEF InCall, cpu
<1>3. TypeOK'
  BY <1>1, <1>2 DEF IInv, TypeOK, shared, cpu
<1>4. Roles'
  BY <1>1, LevelsAssumption DEF IInv, Roles, TypeOK, Actors, Goto
<1>5. Room'
  BY <1>1, <1>2 DEF IInv, Room, TypeOK, Goto, shared, InCall
<1>6. Ring'
  BY <1>1, <1>2 DEF IInv, Ring, TypeOK, Goto, shared, InCall, Wrap
<1>7. QED
  BY <1>2, <1>3, <1>4, <1>5, <1>6 DEF IInv

LEMMA PushWriteKeeps ==
  ASSUME IInv, NEW x \in Actors, PushWrite(x)
  PROVE  IInv'
<1>1. /\ Runs(x) /\ pc[x] = "write" /\ Goto(x, "tail") /\ "tail" \in Labels
      /\ queue' = [queue EXCEPT ![tail] = pushed[x]]
      /\ UNCHANGED <<head, tail, used, cpu, oldipl, pushed, event>>
  BY DEF PushWrite, At, Labels
<1>2. /\ Masked' /\ \A y \in Actors : y # x => ~InCall(y) /\ ~InCall(y)'
      /\ pc' \in [Actors -> Labels \cup {"none"}]
  BY <1>1, CallStep, RunsInCall DEF InCall, cpu
<1>3. TypeOK'
  BY <1>1, <1>2 DEF IInv, TypeOK, cpu
<1>4. Roles'
  BY <1>1, LevelsAssumption DEF IInv, Roles, TypeOK, Actors, Goto
<1>5. Room'
  BY <1>1, <1>2 DEF IInv, Room, TypeOK, Goto, InCall
<1>6. tail = Wrap(head + used) /\ tail \in 0..(QUEUELEN - 1)
  BY <1>1, <1>2 DEF IInv, Ring, InCall, TypeOK
<1>7. queue'[tail] = pushed[x]
  BY <1>1, <1>6 DEF IInv, TypeOK
<1>8. Ring'
  BY <1>1, <1>2, <1>6, <1>7 DEF IInv, Ring, TypeOK, Goto, InCall
<1>9. QED
  BY <1>2, <1>3, <1>4, <1>5, <1>8 DEF IInv

LEMMA PushTailKeeps ==
  ASSUME IInv, NEW x \in Actors, PushTail(x)
  PROVE  IInv'
<1>1. /\ Runs(x) /\ pc[x] = "tail" /\ Goto(x, "count") /\ "count" \in Labels
      /\ tail' = Wrap(tail + 1)
      /\ UNCHANGED <<queue, head, used, cpu, oldipl, pushed, event>>
  BY DEF PushTail, At, Labels
<1>2. /\ Masked' /\ \A y \in Actors : y # x => ~InCall(y) /\ ~InCall(y)'
      /\ pc' \in [Actors -> Labels \cup {"none"}]
  BY <1>1, CallStep, RunsInCall DEF InCall, cpu
<1>3. TypeOK'
  BY <1>1, <1>2, WrapType DEF IInv, TypeOK, cpu
<1>4. Roles'
  BY <1>1, LevelsAssumption DEF IInv, Roles, TypeOK, Actors, Goto
<1>5. Room'
  BY <1>1, <1>2 DEF IInv, Room, TypeOK, Goto, InCall
<1>6. tail = Wrap(head + used) /\ queue[Wrap(head + used)] = pushed[x] /\ used < QUEUELEN
  BY <1>1, <1>2 DEF IInv, Ring, Room, InCall
<1>7. tail' = Wrap(head + used + 1)
  BY <1>1, <1>6 DEF IInv, TypeOK, Wrap
<1>8. Ring'
  BY <1>1, <1>2, <1>6, <1>7 DEF IInv, TypeOK, Ring, Goto, InCall
<1>9. QED
  BY <1>2, <1>3, <1>4, <1>5, <1>8 DEF IInv

LEMMA PushCountKeeps ==
  ASSUME IInv, NEW x \in Actors, PushCount(x)
  PROVE  IInv'
<1>1. /\ Runs(x) /\ pc[x] = "count" /\ Goto(x, "unmask") /\ "unmask" \in Labels
      /\ used' = used + 1
      /\ UNCHANGED <<queue, head, tail, cpu, oldipl, pushed, event>>
  BY DEF PushCount, At, Labels
<1>2. /\ Masked' /\ \A y \in Actors : y # x => ~InCall(y) /\ ~InCall(y)'
      /\ pc' \in [Actors -> Labels \cup {"none"}]
  BY <1>1, CallStep, RunsInCall DEF InCall, cpu
<1>3. tail = Wrap(head + used + 1) /\ used < QUEUELEN
  BY <1>1 DEF IInv, Ring, Room
<1>4. TypeOK'
  BY <1>1, <1>2, <1>3 DEF IInv, TypeOK, cpu
<1>5. Roles'
  BY <1>1, LevelsAssumption DEF IInv, Roles, TypeOK, Actors, Goto
<1>6. tail = Wrap(head + used')
  BY <1>1, <1>3 DEF IInv, TypeOK, Wrap
<1>7. Room' /\ Ring'
  BY <1>1, <1>2, <1>3, <1>6 DEF IInv, Room, Ring, TypeOK, Goto, InCall
<1>8. QED
  BY <1>2, <1>4, <1>5, <1>7 DEF IInv

LEMMA PopTestKeeps ==
  ASSUME IInv, NEW t \in Tasks, PopTest(t)
  PROVE  IInv'
<1> DEFINE label == IF used > 0 THEN "popRead" ELSE "unmask"
<1>1. /\ Runs(t) /\ pc[t] = "popTest" /\ Goto(t, label) /\ label \in Labels
      /\ t \in Actors /\ UNCHANGED <<shared, cpu, oldipl, pushed, event>>
  BY DEF PopTest, At, Labels, Actors
<1>2. /\ Masked' /\ \A y \in Actors : y # t => ~InCall(y) /\ ~InCall(y)'
      /\ pc' \in [Actors -> Labels \cup {"none"}]
  BY <1>1, CallStep, RunsInCall DEF InCall, cpu
<1>3. TypeOK'
  BY <1>1, <1>2 DEF IInv, TypeOK, shared, cpu
<1>4. Roles'
  BY <1>1, LevelsAssumption DEF IInv, Roles, TypeOK, Actors, Goto
<1>5. Room'
  BY <1>1, <1>2 DEF IInv, Room, TypeOK, Goto, shared, InCall
<1>6. Ring'
  BY <1>1, <1>2 DEF IInv, Ring, TypeOK, Goto, shared, InCall, Wrap
<1>7. QED
  BY <1>2, <1>3, <1>4, <1>5, <1>6 DEF IInv

LEMMA PopReadKeeps ==
  ASSUME IInv, NEW t \in Tasks, PopRead(t)
  PROVE  IInv'
<1>1. /\ Runs(t) /\ pc[t] = "popRead" /\ Goto(t, "popHead") /\ "popHead" \in Labels
      /\ event' = [event EXCEPT ![t] = queue[head]]
      /\ t \in Actors /\ UNCHANGED <<shared, cpu, oldipl, pushed>>
  BY DEF PopRead, At, Labels, Actors
<1>2. /\ Masked' /\ \A y \in Actors : y # t => ~InCall(y) /\ ~InCall(y)'
      /\ pc' \in [Actors -> Labels \cup {"none"}]
  BY <1>1, CallStep, RunsInCall DEF InCall, cpu
<1>3. TypeOK'
  BY <1>1, <1>2 DEF IInv, TypeOK, shared, cpu
<1>4. Roles'
  BY <1>1, LevelsAssumption DEF IInv, Roles, TypeOK, Actors, Goto
<1>5. Room'
  BY <1>1, <1>2 DEF IInv, Room, TypeOK, Goto, shared, InCall
<1>6. Ring'
  BY <1>1, <1>2 DEF IInv, Ring, TypeOK, Goto, shared, InCall, Wrap
<1>7. QED
  BY <1>2, <1>3, <1>4, <1>5, <1>6 DEF IInv

LEMMA PopHeadKeeps ==
  ASSUME IInv, NEW t \in Tasks, PopHead(t)
  PROVE  IInv'
<1>1. /\ Runs(t) /\ pc[t] = "popHead" /\ Goto(t, "popCount") /\ "popCount" \in Labels
      /\ head' = Wrap(head + 1)
      /\ t \in Actors /\ UNCHANGED <<queue, tail, used, cpu, oldipl, pushed, event>>
  BY DEF PopHead, At, Labels, Actors
<1>2. /\ Masked' /\ \A y \in Actors : y # t => ~InCall(y) /\ ~InCall(y)'
      /\ pc' \in [Actors -> Labels \cup {"none"}]
  BY <1>1, CallStep, RunsInCall DEF InCall, cpu
<1>3. TypeOK'
  BY <1>1, <1>2, WrapType DEF IInv, TypeOK, cpu
<1>4. Roles'
  BY <1>1, LevelsAssumption DEF IInv, Roles, TypeOK, Actors, Goto
<1>5. tail = Wrap(head + used) /\ used > 0
  BY <1>1, <1>2 DEF IInv, Ring, Room, InCall
<1>6. tail = Wrap(head' + used - 1)
  BY <1>1, <1>5 DEF IInv, TypeOK, Wrap
<1>7. Room' /\ Ring'
  BY <1>1, <1>2, <1>5, <1>6 DEF IInv, Room, Ring, TypeOK, Goto, InCall
<1>8. QED
  BY <1>2, <1>3, <1>4, <1>7 DEF IInv

LEMMA PopCountKeeps ==
  ASSUME IInv, NEW t \in Tasks, PopCount(t)
  PROVE  IInv'
<1>1. /\ Runs(t) /\ pc[t] = "popCount" /\ Goto(t, "unmask") /\ "unmask" \in Labels
      /\ used' = used - 1
      /\ t \in Actors /\ UNCHANGED <<queue, head, tail, cpu, oldipl, pushed, event>>
  BY DEF PopCount, At, Labels, Actors
<1>2. /\ Masked' /\ \A y \in Actors : y # t => ~InCall(y) /\ ~InCall(y)'
      /\ pc' \in [Actors -> Labels \cup {"none"}]
  BY <1>1, CallStep, RunsInCall DEF InCall, cpu
<1>3. tail = Wrap(head + used - 1) /\ used > 0
  BY <1>1 DEF IInv, Ring, Room
<1>4. TypeOK'
  BY <1>1, <1>2, <1>3 DEF IInv, TypeOK, cpu
<1>5. Roles'
  BY <1>1, LevelsAssumption DEF IInv, Roles, TypeOK, Actors, Goto
<1>6. Room' /\ Ring'
  BY <1>1, <1>2, <1>3 DEF IInv, Room, Ring, TypeOK, Goto, InCall
<1>7. QED
  BY <1>2, <1>4, <1>5, <1>6 DEF IInv

LEMMA UnmaskKeeps ==
  ASSUME IInv, NEW x \in Actors, Unmask(x)
  PROVE  IInv'
<1>1. /\ Runs(x) /\ pc[x] = "unmask" /\ Goto(x, "out") /\ "out" \in Labels
      /\ ipl' = IF x \in Levels THEN oldipl[x] ELSE 0
      /\ UNCHANGED <<shared, CurrentTask, sr, oldipl, pushed, event>>
  BY DEF Unmask, At, Labels
<1>2. /\ \A y \in Actors : y # x => ~InCall(y) /\ ~InCall(y)'
      /\ pc' \in [Actors -> Labels \cup {"none"}]
  BY <1>1, RunsInCall
<1>3. \A y \in Actors : ~InCall(y)'
  BY <1>1, <1>2 DEF InCall, Goto, IInv, TypeOK
<1>4. TypeOK'
  BY <1>1, <1>2 DEF IInv, TypeOK, shared
<1>5. Roles'
  BY <1>1, LevelsAssumption DEF IInv, Roles, TypeOK, Actors, Goto
<1>6. Masked' /\ Room'
  BY <1>3 DEF Masked, Room, InCall
<1>7. Ring'
  BY <1>1, <1>2, <1>3 DEF IInv, Ring, TypeOK, shared, InCall, Wrap
<1>8. QED
  BY <1>4, <1>5, <1>6, <1>7 DEF IInv

(* A call begins: it raises the IPL to 7.                                   *)
LEMMA CallsKeep ==
  ASSUME IInv, NEW x \in Actors, NEW label \in {"test", "popTest"}, At(x, "out"),
         Goto(x, label), label = "popTest" => x \in Tasks,
         ipl' = 7, UNCHANGED <<shared, CurrentTask, sr, event>>,
         oldipl' \in [Levels -> {0, 7} \cup Levels], pushed' \in [Actors -> EventT]
  PROVE  IInv'
<1>1. Runs(x) /\ pc[x] = "out" /\ label \in Labels
  BY DEF At, Labels
<1>2. /\ Runs(x)' /\ \A y \in Actors : y # x => ~InCall(y) /\ ~InCall(y)'
      /\ pc' \in [Actors -> Labels \cup {"none"}]
  BY <1>1, RunsInCall
<1>3. TypeOK'
  BY <1>2 DEF IInv, TypeOK, shared
<1>4. Roles'
  BY <1>1, LevelsAssumption DEF IInv, Roles, TypeOK, Actors, Goto
<1>5. Masked'
  BY <1>2 DEF Masked
<1>6. pc'[x] = label /\ \A y \in Actors : y # x => pc'[y] = pc[y]
  BY DEF Goto, IInv, TypeOK
<1>7. Room'
  BY <1>1, <1>2, <1>6 DEF Room, InCall
<1>8. \A y \in Actors : pc[y] \in {"out", "none"}
  BY <1>1, <1>2 DEF InCall
<1>9. Ring'
  BY <1>2, <1>6, <1>8 DEF IInv, Ring, shared, Wrap, InCall
<1>10. QED
  BY <1>3, <1>4, <1>5, <1>7, <1>9 DEF IInv

LEMMA PushEventKeeps ==
  ASSUME IInv, NEW t \in Tasks, NEW ev \in EventT, PushEvent(t, ev)
  PROVE  IInv'
<1>1. t \in Actors /\ At(t, "out") /\ Goto(t, "test") /\ ipl' = 7
      /\ UNCHANGED <<shared, CurrentTask, sr, oldipl, event>>
  BY DEF PushEvent, Actors
<1>2. pushed' \in [Actors -> EventT] /\ oldipl' \in [Levels -> {0, 7} \cup Levels]
  BY DEF PushEvent, IInv, TypeOK
<1>3. QED
  BY <1>1, <1>2, CallsKeep

LEMMA PushEventISRKeeps ==
  ASSUME IInv, NEW l \in Levels, NEW ev \in EventT, PushEventISR(l, ev)
  PROVE  IInv'
<1>1. l \in Actors /\ At(l, "out") /\ Goto(l, "test") /\ ipl' = 7
      /\ UNCHANGED <<shared, CurrentTask, sr, event>>
  BY DEF PushEventISR, Actors
<1>2. pushed' \in [Actors -> EventT] /\ oldipl' \in [Levels -> {0, 7} \cup Levels]
  BY DEF PushEventISR, IInv, TypeOK
<1>3. QED
  BY <1>1, <1>2, CallsKeep

LEMMA PopEventKeeps ==
  ASSUME IInv, NEW t \in Tasks, PopEvent(t)
  PROVE  IInv'
<1>1. t \in Actors /\ At(t, "out") /\ Goto(t, "popTest") /\ ipl' = 7
      /\ UNCHANGED <<shared, CurrentTask, sr, oldipl, pushed, event>>
  BY DEF PopEvent, Actors
<1>2. pushed' \in [Actors -> EventT] /\ oldipl' \in [Levels -> {0, 7} \cup Levels]
  BY <1>1 DEF IInv, TypeOK
<1>3. QED
  BY <1>1, <1>2, CallsKeep

-----------------------------------------------------------------------------
(* Only when no call is in progress does the processor change actors.       *)
LEMMA SwitchKeeps ==
  ASSUME IInv, \A x \in Actors : ~InCall(x) /\ ~InCall(x)', UNCHANGED shared,
         TypeOK', Roles'
  PROVE  IInv'
<1>1. Masked' /\ Room'
  BY DEF Masked, Room, InCall
<1>2. Ring'
  BY DEF IInv, Ring, InCall, shared, Wrap
<1>3. QED
  BY <1>1, <1>2 DEF IInv

LEMMA EnterIntrKeeps ==
  ASSUME IInv, NEW l \in Levels, EnterIntr(l)
  PROVE  IInv'
<1>1. \A x \in Actors : ~InCall(x)
  BY LevelsAssumption DEF IInv, Masked, EnterIntr
<1>2. pc' \in [Actors -> Labels \cup {"none"}] /\ Goto(l, "out") /\ l \in Actors
  BY DEF EnterIntr, Goto, IInv, TypeOK, Actors, Labels
<1>3. \A x \in Actors : ~InCall(x)'
  BY <1>1, <1>2 DEF Goto, InCall, IInv, TypeOK
<1>4. ipl \in {0} \cup Levels
  BY LevelsAssumption DEF EnterIntr, IInv, TypeOK
<1>5. TypeOK'
  BY <1>2, <1>4 DEF IInv, TypeOK, EnterIntr, shared
<1>6. Roles'
  BY <1>2, LevelsAssumption DEF IInv, Roles, TypeOK, Actors, Goto
<1>7. UNCHANGED shared
  BY DEF EnterIntr
<1>8. QED
  BY <1>1, <1>3, <1>5, <1>6, <1>7, SwitchKeeps

LEMMA LeaveIntrKeeps ==
  ASSUME IInv, NEW l \in Levels, LeaveIntr(l)
  PROVE  IInv'
<1>1. Runs(l) /\ pc[l] = "out" /\ l \in Actors /\ Goto(l, "none")
      /\ ipl' = sr[l] /\ UNCHANGED <<shared, CurrentTask, sr, oldipl, pushed, event>>
  BY DEF LeaveIntr, At, Actors
<1>2. \A x \in Actors : ~InCall(x)
  BY <1>1, OneCaller DEF InCall
<1>3. \A x \in Actors : ~InCall(x)'
  BY <1>1, <1>2 DEF Goto, InCall, IInv, TypeOK
<1>4. TypeOK'
  BY <1>1 DEF IInv, TypeOK, shared, Goto
<1>5. Roles'
  BY <1>1, LevelsAssumption DEF IInv, Roles, TypeOK, Actors, Goto
<1>6. QED
  BY <1>1, <1>2, <1>3, <1>4, <1>5, SwitchKeeps

LEMMA TaskSwitchKeeps ==
  ASSUME IInv, NEW t \in Tasks, TaskSwitch(t)
  PROVE  IInv'
<1>1. ipl = 0 /\ CurrentTask' = t /\ UNCHANGED <<shared, ipl, sr, pc, oldipl, pushed, event>>
  BY DEF TaskSwitch
<1>2. \A x \in Actors : ~InCall(x) /\ ~InCall(x)'
  BY <1>1 DEF IInv, Masked, InCall
<1>3. TypeOK' /\ Roles'
  BY <1>1 DEF IInv, TypeOK, Roles, shared
<1>4. QED
  BY <1>1, <1>2, <1>3, SwitchKeeps

THEOREM NextIInv == IInv /\ [Next]_vars => IInv'
<1> SUFFICES ASSUME IInv, [Next]_vars PROVE IInv'
  OBVIOUS
<1>1. CASE \E x \in Actors :
             PushTest(x) \/ PushWrite(x) \/ PushTail(x) \/ PushCount(x) \/ Unmask(x)
  BY <1>1, PushTestKeeps, PushWriteKeeps, PushTailKeeps, PushCountKeeps, UnmaskKeeps
<1>2. CASE \E t \in Tasks :
             \/ \E ev \in EventT : PushEvent(t, ev)
             \/ PopEvent(t) \/ PopTest(t) \/ PopRead(t) \/ PopHead(t) \/ PopCount(t)
             \/ TaskSwitch(t)
  BY <1>2, PushEventKeeps, PopEventKeeps, PopTestKeeps, PopReadKeeps, PopHeadKeeps,
     PopCountKeeps, TaskSwitchKeeps
<1>3. CASE \E l \in Levels :
             \/ \E ev \in EventT : PushEventISR(l, ev)
             \/ EnterIntr(l) \/ LeaveIntr(l)
  BY <1>3, PushEventISRKeeps, EnterIntrKeeps, LeaveIntrKeeps
<1>4. CASE UNCHANGED vars
  <2>1. UNCHANGED <<shared, cpu, pc, oldipl, pushed, event>>
    BY <1>4 DEF vars
  <2>2. TypeOK' /\ Masked' /\ Roles' /\ Room'
    BY <2>1
    DEF shared, cpu, IInv, TypeOK, Masked, InCall, Runs, Begun, Roles, Room
  <2>3. Ring'
    BY <2>1 DEF shared, IInv, Ring, Wrap
  <2>4. QED
    BY <2>2, <2>3 DEF IInv
<1>5. QED
  BY <1>1, <1>2, <1>3, <1>4 DEF Next

LEMMA Invariance == Spec => []IInv
BY InitIInv, NextIInv, PTL DEF Spec

(* Indices and count stay within the ring, whatever interrupts whatever.     *)
THEOREM TypeCorrect == Spec => []TypeOK
<1>1. IInv => TypeOK
  BY DEF IInv
<1>2. QED
  BY <1>1, Invariance, PTL

-----------------------------------------------------------------------------
(* The refinement.                                                         *)
CallOf(label) == IF label \in {"test", "write", "tail", "count"} THEN "push"
                 ELSE IF label \in {"popTest", "popRead"} THEN "pop" ELSE "none"

LEMMA CallChanges ==
  ASSUME IInv, NEW x \in Actors, NEW label, Goto(x, label)
  PROVE  /\ Call[x] = CallOf(pc[x])
         /\ Call' = [Call EXCEPT ![x] = CallOf(label)]
         /\ CallOf(pc[x]) = CallOf(label) => Call' = Call
<1>1. pc' = [pc EXCEPT ![x] = label] /\ pc \in [Actors -> Labels \cup {"none"}]
  BY DEF Goto, IInv, TypeOK
<1>2. /\ Call = [y \in Actors |-> CallOf(pc[y])]
      /\ Call' = [y \in Actors |-> CallOf(pc'[y])]
  BY DEF Call, CallOf
<1>3. QED
  BY <1>1, <1>2

LEMMA FirstType == IInv => First \in 0..(QUEUELEN - 1)
BY DEF IInv, TypeOK, First, Wrap

LEMMA WaitingType == IInv => Waiting \in 0..QUEUELEN
<1> SUFFICES ASSUME IInv PROVE Waiting \in 0..QUEUELEN
  OBVIOUS
<1>1. CASE \E t \in Tasks : pc[t] \in {"popHead", "popCount"}
  <2>1. used > 0
    BY <1>1 DEF IInv, Room, Actors
  <2>2. QED
    BY <1>1, <2>1 DEF IInv, TypeOK, Waiting
<1>2. QED
  BY <1>1 DEF IInv, TypeOK, Waiting

LEMMA ContentsSeq ==
  ASSUME IInv
  PROVE  /\ Contents \in Seq(EventT) /\ Len(Contents) = Waiting
         /\ \A i \in 1..Waiting : Contents[i] = queue[Wrap(First + i - 1)]
<1>1. Contents \in [1..Waiting -> EventT]
  <2>1. \A i \in 1..Waiting : Wrap(First + i - 1) \in 0..(QUEUELEN - 1)
    BY FirstType, WaitingType DEF Wrap
  <2>2. QED
    BY <2>1 DEF Contents, IInv, TypeOK
<1>2. QED
  BY <1>1, WaitingType, SeqDef DEF Contents

(* With no PopEvent between its read and its count, the queue is as it seems.*)
LEMMA NotTaken ==
  ASSUME \A t \in Tasks : pc[t] \notin {"popHead", "popCount"}
  PROVE  First = head /\ Waiting = used
BY DEF First, Waiting

FifoStutters == UNCHANGED <<Contents, Call, pushed, event>>

LEMMA SameContents ==
  ASSUME First' = First, Waiting' = Waiting, UNCHANGED queue
  PROVE  Contents' = Contents
BY DEF Contents, Wrap

LEMMA PushTestMaps ==
  ASSUME IInv, NEW x \in Actors, PushTest(x)
  PROVE  Fifo!Drop(x) \/ FifoStutters
<1> DEFINE label == IF used < QUEUELEN THEN "write" ELSE "unmask"
<1>1. /\ Runs(x) /\ pc[x] = "test" /\ Goto(x, label)
      /\ UNCHANGED <<shared, cpu, oldipl, pushed, event>>
  BY DEF PushTest, At
<1>2. \A t \in Tasks : pc[t] \notin {"popHead", "popCount"}
                      /\ pc'[t] \notin {"popHead", "popCount"}
  BY <1>1, OneCaller DEF InCall, Actors, Goto, IInv, TypeOK
<1>3. First = head /\ Waiting = used /\ First' = head' /\ Waiting' = used'
  BY <1>2 DEF First, Waiting
<1>4. Contents' = Contents
  BY <1>1, <1>3, SameContents DEF shared
<1>5. CASE used < QUEUELEN
  BY <1>1, <1>4, <1>5, CallChanges DEF CallOf, FifoStutters
<1>6. CASE ~(used < QUEUELEN)
  <2>1. Call[x] = "push" /\ Call' = [Call EXCEPT ![x] = "none"]
    BY <1>1, <1>6, CallChanges DEF CallOf
  <2>2. Len(Contents) = QUEUELEN
    BY <1>3, <1>6, ContentsSeq, WaitingType
  <2>3. QED
    BY <1>1, <1>4, <2>1, <2>2 DEF Fifo!Drop
<1>7. QED
  BY <1>5, <1>6

LEMMA PushWriteMaps ==
  ASSUME IInv, NEW x \in Actors, PushWrite(x)
  PROVE  FifoStutters
<1>1. /\ Runs(x) /\ pc[x] = "write" /\ Goto(x, "tail")
      /\ queue' = [queue EXCEPT ![tail] = pushed[x]]
      /\ UNCHANGED <<head, tail, used, cpu, oldipl, pushed, event>>
  BY DEF PushWrite, At
<1>2. /\ \A y \in Actors : pc[y] \notin {"count", "popCount"}
      /\ \A t \in Tasks : pc[t] \notin {"popHead", "popCount"}
                          /\ pc'[t] \notin {"popHead", "popCount"}
  BY <1>1, OneCaller DEF InCall, Actors, Goto, IInv, TypeOK
<1>3. First = head /\ Waiting = used /\ First' = head /\ Waiting' = used
  BY <1>1, <1>2 DEF First, Waiting
<1>4. tail = Wrap(head + used) /\ used < QUEUELEN
  BY <1>1, <1>2 DEF IInv, Ring, Room
<1>5. \A i \in 1..used : /\ Wrap(head + i - 1) # tail
                         /\ Wrap(head + i - 1) \in 0..(QUEUELEN - 1)
  BY <1>4 DEF IInv, TypeOK, Wrap
<1>6. \A i \in 1..used : queue'[Wrap(head + i - 1)] = queue[Wrap(head + i - 1)]
  BY <1>1, <1>5 DEF IInv, TypeOK
<1>7. /\ Contents = [i \in 1..used |-> queue[Wrap(head + i - 1)]]
      /\ Contents' = [i \in 1..used |-> queue'[Wrap(head + i - 1)]]
  BY <1>3 DEF Contents, Wrap
<1>8. Contents' = Contents
  BY <1>6, <1>7
<1>9. QED
  BY <1>1, <1>8, CallChanges DEF CallOf, FifoStutters

LEMMA PushTailMaps ==
  ASSUME IInv, NEW x \in Actors, PushTail(x)
  PROVE  FifoStutters
<1>1. /\ Runs(x) /\ pc[x] = "tail" /\ Goto(x, "count")
      /\ UNCHANGED <<queue, head, used, cpu, oldipl, pushed, event>>
  BY DEF PushTail, At
<1>2. \A t \in Tasks : pc[t] \notin {"popHead", "popCount"}
                      /\ pc'[t] \notin {"popHead", "popCount"}
  BY <1>1, OneCaller DEF InCall, Actors, Goto, IInv, TypeOK
<1>3. First' = First /\ Waiting' = Waiting
  BY <1>1, <1>2 DEF First, Waiting
<1>4. QED
  BY <1>1, <1>3, SameContents, CallChanges DEF CallOf, FifoStutters

LEMMA PushCountMaps ==
  ASSUME IInv, NEW x \in Actors, PushCount(x)
  PROVE  Fifo!Push(x)
<1>1. /\ Runs(x) /\ pc[x] = "count" /\ Goto(x, "unmask")
      /\ used' = used + 1
      /\ UNCHANGED <<queue, head, tail, cpu, oldipl, pushed, event>>
  BY DEF PushCount, At
<1>2. \A t \in Tasks : pc[t] \notin {"popHead", "popCount"}
                      /\ pc'[t] \notin {"popHead", "popCount"}
  BY <1>1, OneCaller DEF InCall, Actors, Goto, IInv, TypeOK
<1>3. First = head /\ Waiting = used /\ First' = head /\ Waiting' = used + 1
  BY <1>1, <1>2 DEF First, Waiting
<1>4. queue[Wrap(head + used)] = pushed[x] /\ used < QUEUELEN
  BY <1>1 DEF IInv, Ring, Room
<1>5. Contents' = Append(Contents, pushed[x])
  <2>1. /\ Contents \in Seq(EventT) /\ Len(Contents) = used
        /\ \A i \in 1..used : Contents[i] = queue[Wrap(head + i - 1)]
    BY <1>3, ContentsSeq
  <2>2. pushed[x] \in EventT
    BY DEF IInv, TypeOK
  <2>3. IInv'
    BY PushCountKeeps
  <2>4. Contents' = [i \in 1..(used + 1) |-> queue[Wrap(head + i - 1)]]
    BY <1>1, <1>3 DEF Contents, Wrap
  <2>5. head + (used + 1) - 1 = head + used /\ used \in Nat
    BY DEF IInv, TypeOK
  <2>6. \A i \in 1..(used + 1) :
          queue[Wrap(head + i - 1)] = IF i <= used THEN Contents[i] ELSE pushed[x]
    <3> TAKE i \in 1..(used + 1)
    <3>1. CASE i = used + 1
      BY <1>4, <2>5, <3>1
    <3>2. CASE i # used + 1
      BY <2>1, <2>5, <3>2
    <3>3. QED
      BY <3>1, <3>2
  <2>7. Contents' = [i \in 1..(used + 1) |-> IF i <= used THEN Contents[i] ELSE pushed[x]]
    BY <2>4, <2>6
  <2>8. QED
    BY <2>1, <2>2, <2>5, <2>7
<1>6. Call[x] = "push" /\ Call' = [Call EXCEPT ![x] = "none"]
  BY <1>1, CallChanges DEF CallOf
<1>7. Len(Contents) < QUEUELEN
  BY <1>3, <1>4, ContentsSeq
<1>8. QED
  BY <1>1, <1>5, <1>6, <1>7 DEF Fifo!Push

LEMMA PopTestMaps ==
  ASSUME IInv, NEW t \in Tasks, PopTest(t)
  PROVE  Fifo!FindEmpty(t) \/ FifoStutters
<1> DEFINE label == IF used > 0 THEN "popRead" ELSE "unmask"
<1>1. /\ Runs(t) /\ pc[t] = "popTest" /\ Goto(t, label) /\ t \in Actors
      /\ UNCHANGED <<shared, cpu, oldipl, pushed, event>>
  BY DEF PopTest, At, Actors
<1>2. \A u \in Tasks : pc[u] \notin {"popHead", "popCount"}
                      /\ pc'[u] \notin {"popHead", "popCount"}
  BY <1>1, OneCaller DEF InCall, Actors, Goto, IInv, TypeOK
<1>3. First = head /\ Waiting = used /\ First' = head' /\ Waiting' = used'
  BY <1>2 DEF First, Waiting
<1>4. Contents' = Contents
  BY <1>1, <1>3, SameContents DEF shared
<1>5. CASE used > 0
  BY <1>1, <1>4, <1>5, CallChanges DEF CallOf, FifoStutters
<1>6. CASE ~(used > 0)
  <2>1. Call[t] = "pop" /\ Call' = [Call EXCEPT ![t] = "none"]
    BY <1>1, <1>6, CallChanges DEF CallOf
  <2>2. used = 0
    BY <1>6 DEF IInv, TypeOK
  <2>3. Contents = <<>>
    BY <1>3, <2>2, ContentsSeq, EmptySeq
  <2>4. QED
    BY <1>1, <1>4, <2>1, <2>3 DEF Fifo!FindEmpty
<1>7. QED
  BY <1>5, <1>6

LEMMA PopReadMaps ==
  ASSUME IInv, NEW t \in Tasks, PopRead(t)
  PROVE  Fifo!Pop(t)
<1>1. /\ Runs(t) /\ pc[t] = "popRead" /\ Goto(t, "popHead") /\ t \in Actors
      /\ event' = [event EXCEPT ![t] = queue[head]]
      /\ UNCHANGED <<shared, cpu, oldipl, pushed>>
  BY DEF PopRead, At, Actors
<1>2. /\ \A u \in Tasks : pc[u] \notin {"popHead", "popCount"}
      /\ pc'[t] = "popHead"
  BY <1>1, OneCaller DEF InCall, Actors, Goto, IInv, TypeOK
<1>3. First = head /\ Waiting = used /\ First' = Wrap(head + 1) /\ Waiting' = used - 1
  BY <1>1, <1>2 DEF First, Waiting, shared, Wrap
<1>4. used > 0 /\ used \in 1..QUEUELEN /\ head \in 0..(QUEUELEN - 1)
  BY <1>1 DEF IInv, Room, TypeOK
<1>5. /\ Contents \in Seq(EventT) /\ Len(Contents) = used
      /\ \A i \in 1..used : Contents[i] = queue[Wrap(head + i - 1)]
  BY <1>3, ContentsSeq
<1>6. Contents # <<>> /\ Head(Contents) = queue[head]
  <2>1. Wrap(head + 1 - 1) = head
    BY <1>4 DEF Wrap
  <2>2. Contents # <<>> /\ Head(Contents) = Contents[1]
    BY <1>4, <1>5, EmptySeq
  <2>3. QED
    BY <1>4, <1>5, <2>1, <2>2
<1>7. Contents' = Tail(Contents)
  <2>1. Contents' = [i \in 1..(used - 1) |-> queue[Wrap(Wrap(head + 1) + i - 1)]]
    BY <1>1, <1>3 DEF Contents, Wrap, shared
  <2>2. \A i \in 1..(used - 1) : Wrap(Wrap(head + 1) + i - 1) = Wrap(head + (i + 1) - 1)
    BY <1>4 DEF Wrap
  <2>3. \A i \in 1..(used - 1) : i + 1 \in 1..used
    BY <1>4
  <2>4. Contents' = [i \in 1..(used - 1) |-> Contents[i + 1]]
    BY <1>5, <2>1, <2>2, <2>3
  <2>5. /\ Tail(Contents) \in Seq(EventT) /\ Len(Tail(Contents)) = used - 1
        /\ \A i \in 1..(used - 1) : Tail(Contents)[i] = Contents[i + 1]
    BY <1>5, <1>6, HeadTailProperties
  <2>6. Tail(Contents) \in [1..(used - 1) -> EventT]
    BY <2>5, LenProperties
  <2>7. QED
    BY <2>4, <2>5, <2>6
<1>8. Call[t] = "pop" /\ Call' = [Call EXCEPT ![t] = "none"]
  BY <1>1, CallChanges DEF CallOf
<1>9. QED
  BY <1>1, <1>6, <1>7, <1>8 DEF Fifo!Pop

LEMMA PopHeadMaps ==
  ASSUME IInv, NEW t \in Tasks, PopHead(t)
  PROVE  FifoStutters
<1>1. /\ Runs(t) /\ pc[t] = "popHead" /\ Goto(t, "popCount") /\ t \in Actors
      /\ head' = Wrap(head + 1)
      /\ UNCHANGED <<queue, tail, used, cpu, oldipl, pushed, event>>
  BY DEF PopHead, At, Actors
<1>2. /\ pc'[t] = "popCount"
      /\ \A u \in Tasks : pc'[u] # "popHead"
  BY <1>1, OneCaller DEF InCall, Actors, Goto, IInv, TypeOK
<1>3. First' = First /\ Waiting' = Waiting
  BY <1>1, <1>2 DEF First, Waiting
<1>4. QED
  BY <1>1, <1>3, SameContents, CallChanges DEF CallOf, FifoStutters

LEMMA PopCountMaps ==
  ASSUME IInv, NEW t \in Tasks, PopCount(t)
  PROVE  FifoStutters
<1>1. /\ Runs(t) /\ pc[t] = "popCount" /\ Goto(t, "unmask") /\ t \in Actors
      /\ used' = used - 1
      /\ UNCHANGED <<queue, head, tail, cpu, oldipl, pushed, event>>
  BY DEF PopCount, At, Actors
<1>2. /\ \A u \in Tasks : pc[u] # "popHead"
      /\ \A u \in Tasks : pc'[u] \notin {"popHead", "popCount"}
  BY <1>1, OneCaller DEF InCall, Actors, Goto, IInv, TypeOK
<1>3. First' = First /\ Waiting' = Waiting
  BY <1>1, <1>2 DEF First, Waiting
<1>4. QED
  BY <1>1, <1>3, SameContents, CallChanges DEF CallOf, FifoStutters

(* Steps of an actor that is in no call, or at the end of one.              *)
LEMMA OtherStepMaps ==
  ASSUME IInv, NEW x \in Actors, NEW label, Goto(x, label),
         pc[x] \in {"out", "none", "unmask"},
         label \in {"out", "none", "test", "popTest"}, UNCHANGED shared
  PROVE  Contents' = Contents
<1>1. \A u \in Tasks : pc'[u] \in {"popHead", "popCount"} => pc'[u] = pc[u]
  BY DEF Goto, IInv, TypeOK, Actors
<1>2. \A u \in Tasks : pc[u] \in {"popHead", "popCount"} => pc'[u] = pc[u]
  BY DEF Goto, IInv, TypeOK, Actors
<1>3. First' = First /\ Waiting' = Waiting
  BY <1>1, <1>2 DEF First, Waiting, shared, Wrap
<1>4. QED
  BY <1>3, SameContents DEF shared

LEMMA UnmaskMaps ==
  ASSUME IInv, NEW x \in Actors, Unmask(x)
  PROVE  FifoStutters
BY OtherStepMaps, CallChanges DEF Unmask, At, CallOf, FifoStutters

LEMMA PushEventMaps ==
  ASSUME IInv, NEW x \in Actors, NEW ev \in EventT, PushEvent(x, ev) \/ PushEventISR(x, ev)
  PROVE  Fifo!BeginPush(x, ev)
<1>1. /\ pc[x] = "out" /\ Goto(x, "test") /\ pushed' = [pushed EXCEPT ![x] = ev]
      /\ UNCHANGED <<shared, event>>
  BY DEF PushEvent, PushEventISR, At
<1>2. Contents' = Contents
  BY <1>1, OtherStepMaps
<1>3. Call[x] = "none" /\ Call' = [Call EXCEPT ![x] = "push"]
  BY <1>1, CallChanges DEF CallOf
<1>4. QED
  BY <1>1, <1>2, <1>3 DEF Fifo!BeginPush

LEMMA PopEventMaps ==
  ASSUME IInv, NEW t \in Tasks, PopEvent(t)
  PROVE  Fifo!BeginPop(t)
<1>1. /\ pc[t] = "out" /\ Goto(t, "popTest") /\ t \in Actors
      /\ UNCHANGED <<shared, pushed, event>>
  BY DEF PopEvent, At, Actors
<1>2. Contents' = Contents
  BY <1>1, OtherStepMaps
<1>3. Call[t] = "none" /\ Call' = [Call EXCEPT ![t] = "pop"]
  BY <1>1, CallChanges DEF CallOf
<1>4. QED
  BY <1>1, <1>2, <1>3 DEF Fifo!BeginPop

LEMMA IntrMaps ==
  ASSUME IInv, NEW l \in Levels, EnterIntr(l) \/ LeaveIntr(l)
  PROVE  FifoStutters
<1>1. l \in Actors /\ UNCHANGED <<shared, pushed, event>>
      /\ ((pc[l] = "none" /\ Goto(l, "out")) \/ (pc[l] = "out" /\ Goto(l, "none")))
  BY DEF EnterIntr, LeaveIntr, At, Actors
<1>2. Contents' = Contents
  BY <1>1, OtherStepMaps
<1>3. Call' = Call
  BY <1>1, CallChanges DEF CallOf
<1>4. QED
  BY <1>1, <1>2, <1>3 DEF FifoStutters

LEMMA StutterMaps ==
  ASSUME UNCHANGED <<shared, pc, pushed, event>>
  PROVE  FifoStutters
BY DEF FifoStutters, Contents, First, Waiting, Wrap, Call, shared

-----------------------------------------------------------------------------
LEMMA InitMaps == Init => Fifo!Init
<1> SUFFICES ASSUME Init PROVE Fifo!Init
  OBVIOUS
<1>1. IInv
  BY InitIInv
<1>2. \A x \in Actors : pc[x] \in {"out", "none"}
  BY DEF Init
<1>3. Waiting = 0
  BY <1>2, NotTaken DEF Init, Actors
<1>4. Contents = <<>>
  BY <1>1, <1>3, ContentsSeq, EmptySeq
<1>5. Call = [x \in Actors \cup Tasks |-> "none"]
  BY <1>2 DEF Call, Actors
<1>6. QED
  BY <1>1, <1>4, <1>5 DEF Fifo!Init, IInv, TypeOK

LEMMA NextMaps == IInv /\ [Next]_vars => [Fifo!Next]_<<Contents, Call, pushed, event>>
<1> SUFFICES ASSUME IInv, [Next]_vars PROVE Fifo!Next \/ FifoStutters
  BY DEF FifoStutters
<1> USE DEF Fifo!Next
<1>1. CASE \E x \in Actors :
             PushTest(x) \/ PushWrite(x) \/ PushTail(x) \/ PushCount(x) \/ Unmask(x)
  BY <1>1, PushTestMaps, PushWriteMaps, PushTailMaps, PushCountMaps, UnmaskMaps
<1>2. CASE \E t \in Tasks : \E ev \in EventT : PushEvent(t, ev)
  BY <1>2, PushEventMaps DEF Actors
<1>3. CASE \E t \in Tasks :
             PopEvent(t) \/ PopTest(t) \/ PopRead(t) \/ PopHead(t) \/ PopCount(t)
  BY <1>3, PopEventMaps, PopTestMaps, PopReadMaps, PopHeadMaps, PopCountMaps
<1>4. CASE \E t \in Tasks : TaskSwitch(t)
  BY <1>4, StutterMaps DEF TaskSwitch
<1>5. CASE \E l \in Levels : \E ev \in EventT : PushEventISR(l, ev)
  BY <1>5, PushEventMaps DEF Actors
<1>6. CASE \E l \in Levels : EnterIntr(l) \/ LeaveIntr(l)
  BY <1>6, IntrMaps
<1>7. CASE UNCHANGED vars
  BY <1>7, StutterMaps DEF vars
<1>8. QED
  BY <1>1, <1>2, <1>3, <1>4, <1>5, <1>6, <1>7 DEF Next

(* event.c implements a bounded first-in first-out queue: calls take effect *)
(* once and in order, and events are dropped only when it is full.         *)
THEOREM ImplementsFifo == Spec => RefinesFifo
BY InitMaps, NextMaps, Invariance, PTL DEF Spec, RefinesFifo, Fifo!Spec
=============================================================================
