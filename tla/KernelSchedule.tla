--------------------------- MODULE KernelSchedule ---------------------------
(***************************************************************************)
(* What the scheduler, the mutexes and the vertical blank wait promise of  *)
(* their lists and their sleepers.  Unlike the theorems of KernelProofs    *)
(* these need clients that keep to some rules, and each rule names a call  *)
(* after which the promises no longer hold: see the runs notify_loop and   *)
(* idle_loop.                                                              *)
(***************************************************************************)
EXTENDS KernelLists

(* The list that each task should be on, when cur runs.  A task that waits  *)
(* for the vertical blank is on none: what links it is not looked at.      *)
Where(st, at, cur) ==
  [t \in Tasks |-> IF st[t] = "ready" THEN IF t = cur THEN NULL ELSE ReadyList
                   ELSE IF st[t] = "blocked" /\ at[t] \in Mutexes THEN at[t] ELSE NULL]

Placed(h, st, at, cur, p) ==
  Lists(h, Where(st, at, cur)) /\ Sorted(h, Where(st, at, cur), p)

(* Asleep only in MutexLock or, if it is w, in TaskWaitVBlank; not ready    *)
(* before TaskRun.                                                         *)
Labelled(w, st, at) ==
  \A t \in Tasks : /\ at[t] # "wait"
                   /\ at[t] = "init" => st[t] = "suspended"
                   /\ at[t] = "vblank" => t = w /\ ~NobodyWaits
                   /\ at[t] \in Mutexes => <<t, "lock", at[t]>> \in Calls
                   /\ st[t] = "blocked" => at[t] \in Mutexes \cup {"vblank"}

(* There is a task to run, or it was w that left the processor idle.        *)
Stays(w, st, at) ==
  /\ MainStays => st[Main] = "ready"
  /\ OthersStay(w) => \A t \in Tasks \ {w} : at[t] = "init" \/ st[t] = "ready"

(* The frames of all tasks but cur are those of task code.                  *)
Framed(at, c, cur) == \A t \in Tasks \ {cur} : at[t] # "init" => c[t] = "code"

(* No ready task is of higher priority than cur, but for those that         *)
(* MutexUnlock woke.                                                       *)
Highest(st, at, cur, p) ==
  \A t \in Tasks : st[t] = "ready" /\ p[t] < p[cur] => at[t] \in Mutexes

(* A task asleep on a free mutex has another one that will come to take it. *)
Wakeful(st, at, own) ==
  \A m \in Mutexes : own[m] = NULL /\ (\E u \in Tasks : st[u] = "blocked" /\ at[u] = m) =>
                       \E t \in Tasks : at[t] = m /\ st[t] # "blocked"

Asleep(w, st, at) == at[w] = "vblank" /\ st[w] = "blocked"

(* WaitList starts with first, which is w from its first wait on: nothing   *)
(* takes it off.                                                           *)
Awaits(w, first, at, es) ==
  /\ first \in {NULL, w} /\ (NobodyWaits => first = NULL)
  /\ at[w] = "vblank" => first = w /\ es[w] = {INTF_VERTB}
  /\ \A t \in Tasks : es[t] # {} => t = w /\ at[w] = "vblank"

(* The loop of _TaskNotify is about to wake w.                              *)
Waking(w) ==
  notify.tsk # NULL /\ notify.ntasks = 0 /\ eventSet[w] \cap notify.events # {}

Runner == IF mode = "run" THEN CurrentTask ELSE NULL

(* Once the loop has woken w it goes on behind w on ReadyList, and so comes *)
(* to its end without meeting w again.                                     *)
Behind(w) ==
  LET on == Where(state, pc, Runner)
  IN  on[notify.tsk] = ReadyList /\ \E pos \in Numbers : Linked(tq, on, pos)
                                                         /\ pos[w] < pos[notify.tsk]

(* While w sleeps, the interrupt server knows, or is on its way to wake it. *)
(* Only the server, and never a task, notifies w.                          *)
Alarm(w) ==
  /\ IsWaiting => Asleep(w, state, pc)
  /\ Asleep(w, state, pc) => IsWaiting \/ Waking(w)
  /\ Waking(w) => notify.tsk = w /\ state[w] = "blocked" /\ ~IsWaiting
  /\ notify # NoNotify /\ depth = 0 =>
       notify.ntasks = 0 /\ eventSet[w] \cap notify.events = {}
  /\ notify.ntasks = 1 /\ notify.tsk # NULL => Behind(w)

Running == mode = "run" /\ state[CurrentTask] = "ready"

Idling(w) ==
  /\ mode = "idle" /\ CurrentTask = w /\ IsrCalls = {} /\ ~NeedReschedule
  /\ \A t \in Tasks : state[t] = "ready" => t = w

Order(w) ==
  /\ Running \/ Idling(w)
  /\ Placed(tq, state, pc, Runner, prio)
  /\ Labelled(w, state, pc) /\ Stays(w, state, pc) /\ Framed(pc, ctx, Runner)
  /\ NeedReschedule => depth > 0
  /\ NeedReschedule \/ notify.ntasks = 1 \/ Highest(state, pc, CurrentTask, prio)
  /\ Wakeful(state, pc, owner)
  /\ Awaits(w, tq.next[WaitList], pc, eventSet) /\ Alarm(w)

LInv(w) == IInv /\ Order(w)

-----------------------------------------------------------------------------
LEMMA WhereIs ==
  ASSUME NEW st \in States, NEW at, NEW cur
  PROVE  /\ Where(st, at, cur) \in Places
         /\ \A t \in Tasks : /\ Where(st, at, cur)[t] = ReadyList <=>
                                  st[t] = "ready" /\ t # cur
                             /\ st[t] = "ready" /\ t = cur => Where(st, at, cur)[t] = NULL
                             /\ st[t] = "suspended" => Where(st, at, cur)[t] = NULL
                             /\ st[t] = "blocked" /\ at[t] \notin Mutexes =>
                                  Where(st, at, cur)[t] = NULL
                             /\ \A m \in Mutexes : Where(st, at, cur)[t] = m <=>
                                  st[t] = "blocked" /\ at[t] = m
<1>1. ReadyList \notin Mutexes /\ ReadyList # NULL /\ NULL \notin Mutexes
  BY ListsDistinct, NullNotTask
<1>2. QED
  BY <1>1 DEF Where, Places, Heads, States

(* A switch runs the first task on ReadyList, if there is one.              *)
LEMMA DispatchPlaces ==
  ASSUME NEW on \in Places, NEW h \in TQ!Heap, Lists(h, on),
         NEW p \in Priorities, Sorted(h, on, p),
         NEW u \in Tasks, on[u] = ReadyList,
         NEW c \in Links, NEW lvl, \A t \in Tasks : on[t] = ReadyList => c[t] = "code",
         Dispatch(h, c, lvl)
  PROVE  /\ mode' = "run" /\ CurrentTask' \in Tasks /\ on[CurrentTask'] = ReadyList
         /\ Lists(tq', [on EXCEPT ![CurrentTask'] = NULL])
         /\ Sorted(tq', [on EXCEPT ![CurrentTask'] = NULL], p)
         /\ tq'.next[WaitList] = h.next[WaitList]
         /\ \A t \in Tasks : on[t] = ReadyList => p[CurrentTask'] <= p[t]
         /\ \A t \in Tasks \ {CurrentTask'} : ctx'[t] = c[t]
<1> DEFINE first == TQ!First(h, ReadyList)
<1>1. /\ first \in Tasks /\ on[first] = ReadyList
      /\ \A t \in Tasks : on[t] = ReadyList => p[first] <= p[t]
  BY FirstIsHighest
<1>2. first # NULL
  BY <1>1, Distinct
<1>3. /\ CurrentTask' = first /\ tq' = TQ!Remove(h, ReadyList, first)
      /\ ctx' = [c EXCEPT ![first] = "none"]
      /\ mode' = IF c[first] = "code" THEN "run"
                 ELSE IF c[first] = "idle" THEN "idle" ELSE "crash"
  BY <1>2 DEF Dispatch
<1> HIDE DEF first
<1>4. mode' = "run"
  BY <1>1, <1>3
<1>5. Lists(tq', [on EXCEPT ![first] = NULL]) /\ tq'.next[WaitList] = h.next[WaitList]
  BY <1>1, <1>3, RemoveLists, ReadyHead
<1>6. Sorted(tq', [on EXCEPT ![first] = NULL], p)
  BY <1>1, <1>3, RemoveSorted, ReadyHead
<1>7. QED
  BY <1>1, <1>3, <1>4, <1>5, <1>6 DEF Links

LEMMA DispatchIdles ==
  ASSUME NEW on \in Places, NEW h \in TQ!Heap, Lists(h, on),
         \A t \in Tasks : on[t] # ReadyList,
         NEW c, NEW lvl, Dispatch(h, c, lvl)
  PROVE  mode' = "idle" /\ CurrentTask' = CurrentTask /\ tq' = h /\ ctx' = c
<1>1. TQ!First(h, ReadyList) = NULL
  BY FirstOfList, ReadyHead DEF TQ!First
<1>2. QED
  BY <1>1 DEF Dispatch

(* What a switch leaves behind: a task of the highest priority runs, or w   *)
(* was the last to stop.                                                   *)
Resumed(w, st, at, p) ==
  /\ \/ /\ mode' = "run" /\ CurrentTask' \in Tasks /\ st[CurrentTask'] = "ready"
        /\ \A t \in Tasks : st[t] = "ready" => p[CurrentTask'] <= p[t]
     \/ /\ mode' = "idle" /\ CurrentTask' = w /\ OthersStay(w)
        /\ \A t \in Tasks : st[t] # "ready"
  /\ Placed(tq', st, at, Runner', p)

LEMMA YieldPlaces ==
  ASSUME CurrentTask \in Tasks, mode = "run",
         NEW st \in States, NEW at, NEW w \in Tasks, MainStays \/ OthersStay(w),
         Stays(w, st, at), at[CurrentTask] # "init",
         NEW p \in Priorities, NEW h \in TQ!Heap, Placed(h, st, at, CurrentTask, p),
         NEW c \in Links, \A t \in Tasks \ {CurrentTask} : st[t] = "ready" => c[t] = "code",
         NEW lvl, NEW level, Yield(st, p, h, c, lvl, level)
  PROVE  /\ Resumed(w, st, at, p) /\ tq'.next[WaitList] = h.next[WaitList]
         /\ \A t \in Tasks \ {Runner'} :
              ctx'[t] = IF t = CurrentTask THEN "code" ELSE c[t]
<1> DEFINE on == Where(st, at, CurrentTask)
           ready == st[CurrentTask] = "ready"
           to == IF ready THEN [on EXCEPT ![CurrentTask] = ReadyList] ELSE on
           g == IF ready THEN ReadyAdd(h, p, CurrentTask) ELSE h
           frames == [c EXCEPT ![CurrentTask] = "code"]
           levels == [lvl EXCEPT ![CurrentTask] = level]
<1>1. Dispatch(g, frames, levels)
  BY DEF Yield
<1>2. /\ on \in Places
      /\ \A t \in Tasks : /\ on[t] = ReadyList <=> st[t] = "ready" /\ t # CurrentTask
                          /\ st[t] = "ready" /\ t = CurrentTask => on[t] = NULL
  BY WhereIs
<1>3. Lists(h, on) /\ Sorted(h, on, p)
  BY DEF Placed
<1> HIDE DEF on
<1>4. Lists(g, to) /\ Sorted(g, to, p) /\ g.next[WaitList] = h.next[WaitList]
  BY <1>2, <1>3, ReadyAddLists
<1>5. /\ to \in Places /\ \A t \in Tasks : to[t] = ReadyList <=> st[t] = "ready"
      /\ \A t \in Tasks \ {CurrentTask} : to[t] = on[t]
      /\ st[CurrentTask] # "ready" => to[CurrentTask] = on[CurrentTask]
  BY <1>2, ReadyHead DEF Places
<1>6. g \in TQ!Heap
  BY ReadyAddType
<1>7. frames \in Links /\ \A t \in Tasks : st[t] = "ready" => frames[t] = "code"
  BY DEF Links
<1>8. \A t \in Tasks : to[t] = ReadyList => frames[t] = "code"
  BY <1>5, <1>7
<1>9. \A t \in Tasks : on[t] = IF st[t] = "ready" THEN IF t = CurrentTask THEN NULL ELSE ReadyList
                               ELSE IF st[t] = "blocked" /\ at[t] \in Mutexes THEN at[t] ELSE NULL
  BY DEF on, Where
<1> HIDE DEF to, g, frames, levels
<1>10. \A t \in Tasks : frames[t] = IF t = CurrentTask THEN "code" ELSE c[t]
  BY DEF frames, Links
<1>11. CASE \E t \in Tasks : st[t] = "ready"
  <2>1. PICK u \in Tasks : to[u] = ReadyList
    BY <1>5, <1>11
  <2>2. /\ mode' = "run" /\ CurrentTask' \in Tasks /\ to[CurrentTask'] = ReadyList
        /\ Lists(tq', [to EXCEPT ![CurrentTask'] = NULL])
        /\ Sorted(tq', [to EXCEPT ![CurrentTask'] = NULL], p)
        /\ tq'.next[WaitList] = g.next[WaitList]
        /\ \A t \in Tasks : to[t] = ReadyList => p[CurrentTask'] <= p[t]
        /\ \A t \in Tasks \ {CurrentTask'} : ctx'[t] = frames[t]
    BY <1>1, <1>4, <1>5, <1>6, <1>7, <1>8, <2>1, DispatchPlaces
  <2>3. [to EXCEPT ![CurrentTask'] = NULL] = Where(st, at, CurrentTask')
    <3> DEFINE new == [to EXCEPT ![CurrentTask'] = NULL]
    <3>1. new \in [Tasks -> Heads \cup {NULL}] /\ \A t \in Tasks :
             new[t] = IF t = CurrentTask' THEN NULL ELSE to[t]
      BY <1>5, <2>2 DEF Places
    <3>2. st[CurrentTask'] = "ready"
      BY <1>5, <2>2
    <3> HIDE DEF new
    <3>3. \A t \in Tasks :
             new[t] = IF st[t] = "ready" THEN IF t = CurrentTask' THEN NULL ELSE ReadyList
                      ELSE IF st[t] = "blocked" /\ at[t] \in Mutexes THEN at[t] ELSE NULL
      BY <1>5, <1>9, <3>1, <3>2
    <3>4. new = Where(st, at, CurrentTask')
      BY <3>1, <3>3 DEF Where
    <3>5. QED
      BY <3>4 DEF new
  <2>4. Runner' = CurrentTask'
    BY <2>2 DEF Runner
  <2>5. QED
    BY <1>4, <1>5, <1>10, <2>2, <2>3, <2>4 DEF Resumed, Placed
<1>12. CASE \A t \in Tasks : st[t] # "ready"
  <2>1. mode' = "idle" /\ CurrentTask' = CurrentTask /\ tq' = g /\ ctx' = frames
    BY <1>1, <1>4, <1>5, <1>6, <1>12, DispatchIdles
  <2>2. Runner' = NULL /\ NULL \notin Tasks
    BY <2>1, NullNotTask DEF Runner
  <2>3. OthersStay(w) /\ CurrentTask = w
    BY <1>12, MainAssumption DEF Stays
  <2>4. to = Where(st, at, NULL)
    <3>1. to = on
      BY <1>12 DEF to
    <3>2. on = Where(st, at, NULL)
      BY <1>12 DEF on, Where
    <3>3. QED
      BY <3>1, <3>2
  <2>5. QED
    BY <1>4, <1>10, <1>12, <2>1, <2>2, <2>3, <2>4 DEF Resumed, Placed
<1>13. QED
  BY <1>11, <1>12

-----------------------------------------------------------------------------
(* Order of the next state, conjunct by conjunct.                           *)
LEMMA PlacedPrimed ==
  Placed(tq, state, pc, Runner, prio)' <=> Placed(tq', state', pc', Runner', prio')
BY DEF Placed, Lists, Linked, Sorted, Where, Slots, Succ, Heads, Numbers, TQ!Heap, TQ!Slot

LEMMA BehindPrimed ==
  ASSUME NEW w, LET on == Where(state', pc', Runner')
                IN  /\ on[notify'.tsk] = ReadyList
                    /\ \E pos \in Numbers : Linked(tq', on, pos) /\ pos[w] < pos[notify'.tsk]
  PROVE  Behind(w)'
BY DEF Behind, Where, Linked, Slots, Succ, Heads, Numbers

LEMMA OrderPrimed ==
  ASSUME NEW w, (Running \/ Idling(w))',
         Placed(tq', state', pc', Runner', prio'),
         Labelled(w, state', pc'), Stays(w, state', pc'), Framed(pc', ctx', Runner'),
         NeedReschedule' => depth' > 0,
         NeedReschedule' \/ notify'.ntasks = 1 \/ Highest(state', pc', CurrentTask', prio'),
         Wakeful(state', pc', owner'),
         Awaits(w, tq'.next[WaitList], pc', eventSet'), Alarm(w)'
  PROVE  Order(w)'
<1>1. Placed(tq, state, pc, Runner, prio)'
  BY PlacedPrimed
<1>2. /\ Labelled(w, state, pc)' /\ Framed(pc, ctx, Runner)' /\ Wakeful(state, pc, owner)'
      /\ Stays(w, state, pc)' /\ Awaits(w, tq.next[WaitList], pc, eventSet)'
  BY DEF Labelled, Framed, Wakeful, Stays, Awaits, MainStays, OthersStay, NobodyWaits
<1>3. (NeedReschedule \/ notify.ntasks = 1 \/ Highest(state, pc, CurrentTask, prio))'
  BY DEF Highest
<1>4. QED
  BY <1>1, <1>2, <1>3 DEF Order

(* Outside of _TaskNotify, w sleeps just if IsWaiting is set.               *)
LEMMA AlarmSet ==
  ASSUME NEW w, notify' = NoNotify, IsWaiting' <=> Asleep(w, state', pc')
  PROVE  Alarm(w)'
<1>1. notify'.tsk = NULL /\ notify'.ntasks = 0
  BY DEF NoNotify
<1>2. Asleep(w, state, pc)' <=> Asleep(w, state', pc')
  BY DEF Asleep
<1>3. QED
  BY <1>1, <1>2 DEF Alarm, Waking, NoNotify

LEMMA StillAwaits ==
  ASSUME NEW w \in Tasks, LInv(w), notify = NoNotify,
         NEW st, st[w] = "blocked" <=> state[w] = "blocked",
         NEW at, at[w] = "vblank" <=> pc[w] = "vblank",
         eventSet' = eventSet, IsWaiting' = IsWaiting
  PROVE  /\ Awaits(w, tq.next[WaitList], at, eventSet')
         /\ IsWaiting' <=> Asleep(w, st, at)
<1>1. Awaits(w, tq.next[WaitList], pc, eventSet) /\ (IsWaiting <=> Asleep(w, state, pc))
  BY DEF LInv, Order, Alarm, Waking, NoNotify
<1>2. QED
  BY <1>1 DEF Awaits, Asleep

(* The state an action starts from.                                         *)
LEMMA OrderTypes ==
  ASSUME NEW w \in Tasks, LInv(w)
  PROVE  /\ CurrentTask \in Tasks /\ tq \in TQ!Heap /\ state \in States
         /\ prio \in Priorities /\ intrNest \in [Tasks -> Nat] /\ pc \in [Tasks -> Labels]
         /\ ctx \in Links /\ savedIPL \in Levels /\ eventSet \in [Tasks -> SUBSET Events]
         /\ owner \in [Mutexes -> Tasks \cup {NULL}] /\ depth \in Nat
         /\ Placed(tq, state, pc, Runner, prio)
         /\ Labelled(w, state, pc) /\ Stays(w, state, pc) /\ Framed(pc, ctx, Runner)
         /\ Wakeful(state, pc, owner) /\ Awaits(w, tq.next[WaitList], pc, eventSet)
         /\ NeedReschedule => depth > 0
BY IInvTypes DEF LInv, Order, Priorities, IInv, TypeOK, TaskTypeOK

LEMMA RunTypes ==
  ASSUME NEW w \in Tasks, LInv(w), mode = "run"
  PROVE  /\ Runner = CurrentTask /\ state[CurrentTask] = "ready"
         /\ pc[CurrentTask] # "init"
         /\ Placed(tq, state, pc, CurrentTask, prio) /\ Framed(pc, ctx, CurrentTask)
BY OrderTypes DEF LInv, Order, Running, Idling, Runner, Labelled

(* The part of the state that matters to a task in its own code.            *)
LEMMA TaskTypes ==
  ASSUME NEW w \in Tasks, LInv(w), InTask
  PROVE  /\ CurrentTask \in Tasks /\ tq \in TQ!Heap /\ state \in States
         /\ prio \in Priorities /\ pc \in [Tasks -> Labels] /\ ctx \in Links
         /\ owner \in [Mutexes -> Tasks \cup {NULL}]
         /\ mode = "run" /\ Runner = CurrentTask /\ state[CurrentTask] = "ready"
         /\ pc[CurrentTask] # "init"
         /\ Placed(tq, state, pc, CurrentTask, prio) /\ Framed(pc, ctx, CurrentTask)
         /\ Labelled(w, state, pc) /\ Stays(w, state, pc) /\ Wakeful(state, pc, owner)
         /\ notify = NoNotify /\ depth = 0 /\ ~NeedReschedule
         /\ Highest(state, pc, CurrentTask, prio)
<1>1. mode = "run" /\ notify = NoNotify /\ depth = 0 /\ notify.ntasks = 0
  BY DEF InTask, NoNotify
<1>2. ~NeedReschedule
  BY <1>1, OrderTypes
<1>3. Highest(state, pc, CurrentTask, prio)
  BY <1>1, <1>2 DEF LInv, Order
<1>4. QED
  BY <1>1, <1>2, <1>3, OrderTypes, RunTypes

(* An action that ends with a switch.                                       *)
LEMMA SwitchKeeps ==
  ASSUME NEW w \in Tasks, LInv(w), ClientRules(w), mode = "run",
         state' \in States, prio' \in Priorities, pc' \in [Tasks -> Labels],
         Labelled(w, state', pc'), Stays(w, state', pc'), pc'[CurrentTask] # "init",
         Wakeful(state', pc', owner'), ~NeedReschedule', notify' = NoNotify,
         NEW h \in TQ!Heap, Placed(h, state', pc', CurrentTask, prio'),
         NEW c \in Links, Framed(pc', c, CurrentTask),
         NEW lvl, NEW level, Yield(state', prio', h, c, lvl, level),
         Awaits(w, h.next[WaitList], pc', eventSet'),
         IsWaiting' <=> Asleep(w, state', pc')
  PROVE  Order(w)'
<1>1. CurrentTask \in Tasks
  BY OrderTypes
<1>2. \A t \in Tasks \ {CurrentTask} : state'[t] = "ready" => c[t] = "code"
  BY DEF Labelled, Framed
<1>3. /\ Resumed(w, state', pc', prio') /\ tq'.next[WaitList] = h.next[WaitList]
      /\ \A t \in Tasks \ {Runner'} : ctx'[t] = IF t = CurrentTask THEN "code" ELSE c[t]
  <2>1. MainStays \/ OthersStay(w)
    BY DEF ClientRules
  <2>2. QED
    BY <1>1, <1>2, <2>1, YieldPlaces
<1>4. (Running \/ Idling(w))'
  BY <1>3 DEF Resumed, Running, Idling, OthersStay
<1>5. Highest(state', pc', CurrentTask', prio')
  <2>1. \A t \in Tasks : prio'[t] \in Nat
    BY PrioNat
  <2>2. QED
    BY <1>3, <2>1 DEF Highest, Resumed
<1>6. Framed(pc', ctx', Runner')
  BY <1>3 DEF Framed
<1>7. Placed(tq', state', pc', Runner', prio')
  BY <1>3 DEF Resumed
<1>8. QED
  BY <1>3, <1>4, <1>5, <1>6, <1>7, AlarmSet, OrderPrimed

(* An action that leaves the lists as they are, and the task running, or    *)
(* the processor idle.                                                     *)
LEMMA StayKeeps ==
  ASSUME NEW w \in Tasks, LInv(w), UNCHANGED <<CurrentTask, tq, state, prio, ctx, mode>>,
         NEW label, label = pc[CurrentTask] \/ (label = "run" /\ mode = "run"),
         pc' = [pc EXCEPT ![CurrentTask] = label],
         NeedReschedule' => depth' > 0, mode = "idle" => ~NeedReschedule',
         NeedReschedule \/ notify.ntasks = 1 =>
           NeedReschedule' \/ notify'.ntasks = 1 \/ Highest(state, pc, CurrentTask, prio),
         Wakeful(state, pc', owner'),
         Awaits(w, tq.next[WaitList], pc', eventSet'), Alarm(w)'
  PROVE  Order(w)'
<1>1. /\ CurrentTask \in Tasks /\ pc \in [Tasks -> Labels] /\ state \in States
      /\ mode = "run" => state[CurrentTask] = "ready"
      /\ Placed(tq, state, pc, Runner, prio) /\ Stays(w, state, pc)
      /\ Labelled(w, state, pc) /\ Framed(pc, ctx, Runner)
  BY OrderTypes, RunTypes
<1>2. \A t \in Tasks : pc'[t] = IF t = CurrentTask THEN label ELSE pc[t]
  BY <1>1
<1>3. Where(state, pc, Runner) = Where(state, pc', Runner)
  <2>1. \A t \in Tasks : state[t] = "blocked" => pc[t] = pc'[t]
    BY <1>1, <1>2
  <2>2. QED
    BY <2>1 DEF Where
<1>4. Placed(tq, state, pc', Runner, prio) /\ Runner' = Runner
  BY <1>1, <1>3 DEF Placed, Runner
<1>5. Labelled(w, state, pc') /\ Framed(pc', ctx, Runner) /\ Stays(w, state, pc')
  BY <1>1, <1>2, LabelsDistinct DEF Labelled, Framed, Stays, Runner
<1>6. NeedReschedule' \/ notify'.ntasks = 1 \/ Highest(state, pc', CurrentTask, prio)
  <2>1. NeedReschedule' \/ notify'.ntasks = 1 \/ Highest(state, pc, CurrentTask, prio)
    BY DEF LInv, Order
  <2>2. CASE Highest(state, pc, CurrentTask, prio)
    <3>1. ~(prio[CurrentTask] < prio[CurrentTask])
      BY <1>1, OrderTypes, PrioNat
    <3>2. QED
      BY <1>2, <2>2, <3>1 DEF Highest
  <2>3. QED
    BY <2>1, <2>2
<1>7. (Running \/ Idling(w))'
  BY DEF LInv, Order, Running, Idling
<1>8. QED
  BY <1>1, <1>4, <1>5, <1>6, <1>7, OrderPrimed
-----------------------------------------------------------------------------
(* How the operations on the lists change what Placed says.                 *)

(* The priority of a task that is not on ReadyList does not matter there.   *)
LEMMA SortedSame ==
  ASSUME NEW h \in TQ!Heap, NEW on \in Places, Lists(h, on), NEW p, NEW q, Sorted(h, on, p),
         NEW e \in Tasks, on[e] # ReadyList, \A t \in Tasks \ {e} : q[t] = p[t]
  PROVE  Sorted(h, on, q)
<1>1. SUFFICES ASSUME NEW t \in Tasks, on[t] = ReadyList, h.next[t] # NULL
               PROVE  q[t] <= q[h.next[t]]
  BY DEF Sorted
<1>2. t \in Slots(on, ReadyList) /\ t \in TQ!Slot
  BY <1>1, Distinct DEF Slots
<1>3. h.next[t] \in Tasks /\ Succ(h, ReadyList, t) = h.next[t]
  BY <1>1, <1>2 DEF TQ!Heap, Succ
<1>4. on[h.next[t]] = ReadyList
  BY <1>2, <1>3, Distinct, ReadyHead DEF Lists, Linked, Slots
<1>5. p[t] <= p[h.next[t]]
  BY <1>1 DEF Sorted
<1>6. q[t] = p[t] /\ q[h.next[t]] = p[h.next[t]]
  BY <1>1, <1>3, <1>4
<1>7. QED
  BY <1>5, <1>6

LEMMA ReadiedPlaces ==
  ASSUME NEW st \in States, NEW at, NEW to, NEW cur,
         NEW h \in TQ!Heap, NEW p \in Priorities, NEW q \in Priorities,
         Placed(h, st, at, cur, p), NEW e \in Tasks, e # cur,
         st[e] = "suspended" \/ (st[e] = "blocked" /\ at[e] \notin Mutexes),
         \A t \in Tasks \ {e} : q[t] = p[t] /\ to[t] = at[t]
  PROVE  /\ Placed(ReadyAdd(h, q, e), [st EXCEPT ![e] = "ready"], to, cur, q)
         /\ ReadyAdd(h, q, e).next[WaitList] = h.next[WaitList]
         /\ ReadyAdd(h, q, e) \in TQ!Heap
<1> DEFINE on == Where(st, at, cur)
           new == Where([st EXCEPT ![e] = "ready"], to, cur)
<1>1. on \in Places /\ on[e] = NULL
  BY WhereIs
<1>2. new = [on EXCEPT ![e] = ReadyList]
  <2>1. \A t \in Tasks : [st EXCEPT ![e] = "ready"][t] = IF t = e THEN "ready" ELSE st[t]
    BY DEF States
  <2> DEFINE r == [st EXCEPT ![e] = "ready"]
  <2> HIDE DEF r
  <2>2. \A t \in Tasks : r[t] = IF t = e THEN "ready" ELSE st[t]
    BY <2>1 DEF r
  <2>3. Where(r, to, cur) = [Where(st, at, cur) EXCEPT ![e] = ReadyList]
    BY <2>2 DEF Where
  <2>4. QED
    BY <2>3 DEF r
<1>3. Lists(h, on) /\ Sorted(h, on, p)
  BY DEF Placed
<1> HIDE DEF on, new
<1>4. Sorted(h, on, q)
  BY <1>1, <1>3, SortedSame, Distinct, ReadyHead
<1>5. /\ Lists(ReadyAdd(h, q, e), new) /\ Sorted(ReadyAdd(h, q, e), new, q)
      /\ ReadyAdd(h, q, e).next[WaitList] = h.next[WaitList]
  BY <1>1, <1>2, <1>3, <1>4, ReadyAddLists
<1>6. QED
  BY <1>5, ReadyAddType DEF Placed, new

LEMMA ResumedPlaces ==
  ASSUME NEW st \in States, NEW at, NEW cur,
         NEW h \in TQ!Heap, NEW p \in Priorities, NEW q \in Priorities,
         Placed(h, st, at, cur, p), NEW e \in Tasks, e # cur,
         st[e] = "suspended" \/ (st[e] = "blocked" /\ at[e] \notin Mutexes),
         \A t \in Tasks \ {e} : q[t] = p[t]
  PROVE  /\ Placed(ReadyAdd(h, q, e), [st EXCEPT ![e] = "ready"], at, cur, q)
         /\ ReadyAdd(h, q, e).next[WaitList] = h.next[WaitList]
         /\ ReadyAdd(h, q, e) \in TQ!Heap
BY ReadiedPlaces

LEMMA TakenPlaces ==
  ASSUME NEW st \in States, NEW at, NEW cur,
         NEW h \in TQ!Heap, NEW p \in Priorities, Placed(h, st, at, cur, p),
         NEW e \in Tasks, NEW l \in Heads, Where(st, at, cur)[e] = l
  PROVE  /\ Placed(TQ!Remove(h, l, e), [st EXCEPT ![e] = "suspended"], at, cur, p)
         /\ TQ!Remove(h, l, e) \in TQ!Heap
         /\ TQ!Remove(h, l, e).next[WaitList] = h.next[WaitList]
<1> DEFINE on == Where(st, at, cur)
           new == Where([st EXCEPT ![e] = "suspended"], at, cur)
<1>1. on \in Places
  BY WhereIs
<1>2. new = [on EXCEPT ![e] = NULL]
  <2> DEFINE r == [st EXCEPT ![e] = "suspended"]
  <2>1. \A t \in Tasks : r[t] = IF t = e THEN "suspended" ELSE st[t]
    BY DEF States
  <2> HIDE DEF r
  <2>2. Where(r, at, cur) = [Where(st, at, cur) EXCEPT ![e] = NULL]
    BY <2>1 DEF Where
  <2>3. QED
    BY <2>2 DEF r
<1>3. Lists(h, on) /\ Sorted(h, on, p) /\ on[e] = l
  BY DEF Placed
<1> HIDE DEF on, new
<1>4. Lists(TQ!Remove(h, l, e), new) /\ TQ!Remove(h, l, e).next[WaitList] = h.next[WaitList]
  BY <1>1, <1>2, <1>3, RemoveLists
<1>5. Sorted(TQ!Remove(h, l, e), new, p)
  BY <1>1, <1>2, <1>3, RemoveSorted
<1>6. QED
  BY <1>4, <1>5 DEF Placed, new, Lists

LEMMA BlockedPlaces ==
  ASSUME NEW st \in States, NEW at \in [Tasks -> Labels], NEW cur \in Tasks,
         NEW h \in TQ!Heap, NEW p, Placed(h, st, at, cur, p),
         NEW m \in Mutexes, st[cur] = "ready"
  PROVE  /\ Placed(TQ!InsertTail(h, m, cur), [st EXCEPT ![cur] = "blocked"],
                   [at EXCEPT ![cur] = m], cur, p)
         /\ TQ!InsertTail(h, m, cur) \in TQ!Heap
         /\ TQ!InsertTail(h, m, cur).next[WaitList] = h.next[WaitList]
<1> DEFINE on == Where(st, at, cur)
           r == [st EXCEPT ![cur] = "blocked"]
           to == [at EXCEPT ![cur] = m]
           new == Where(r, to, cur)
           g == TQ!InsertTail(h, m, cur)
           s == h.back[m]
<1>1. on \in Places /\ on[cur] = NULL
  BY WhereIs
<1>2. new = [on EXCEPT ![cur] = m]
  <2>1. \A t \in Tasks : /\ r[t] = IF t = cur THEN "blocked" ELSE st[t]
                         /\ to[t] = IF t = cur THEN m ELSE at[t]
    BY DEF States
  <2> HIDE DEF r, to
  <2>2. QED
    BY <2>1 DEF Where
<1>3. Lists(h, on) /\ Sorted(h, on, p)
  BY DEF Placed
<1>4. m \in Heads /\ m # ReadyList
  BY ListsDistinct DEF Heads
<1> HIDE DEF on, new, r, to
<1>5. Inserted(h, g, m, s, cur) /\ Lists(g, new) /\ s \in Slots(on, m)
  BY <1>1, <1>2, <1>3, <1>4, InsertTailLists
<1>6. Sorted(g, new, p)
  <2>1. SUFFICES ASSUME NEW t \in Tasks, new[t] = ReadyList, g.next[t] # NULL
                 PROVE  p[t] <= p[g.next[t]]
    BY DEF Sorted
  <2>2. t # cur /\ on[t] = ReadyList
    BY <1>1, <1>2, <1>4, <2>1 DEF Places
  <2>3. t # s
    BY <1>4, <1>5, <2>2, Distinct DEF Slots
  <2>4. g.next[t] = h.next[t]
    BY <1>5, <2>2, <2>3, Distinct DEF Inserted
  <2>5. QED
    BY <1>3, <2>1, <2>2, <2>4 DEF Sorted
<1>7. g.next[WaitList] = h.next[WaitList]
  BY <1>1, <1>4, <1>5, InsertedElsewhere
<1>8. QED
  BY <1>5, <1>6, <1>7 DEF Placed, Lists, new, r, to

(* The running task goes on elsewhere, but not to or from a mutex.          *)
LEMMA Relabelled ==
  ASSUME NEW st \in States, NEW at \in [Tasks -> Labels], NEW cur \in Tasks,
         st[cur] # "blocked", at[cur] \notin Mutexes \cup {"init"}, NEW label \in {"run", "enable"}
  PROVE  LET to == [at EXCEPT ![cur] = label]
         IN  /\ to \in [Tasks -> Labels]
             /\ \A w : Labelled(w, st, at) => Labelled(w, st, to)
             /\ \A w : Stays(w, st, at) => Stays(w, st, to)
             /\ \A h, p : Placed(h, st, at, cur, p) => Placed(h, st, to, cur, p)
             /\ \A c : Framed(at, c, cur) => Framed(to, c, cur)
             /\ \A own : Wakeful(st, at, own) => Wakeful(st, to, own)
<1> DEFINE to == [at EXCEPT ![cur] = label]
<1>1. /\ \A t \in Tasks : to[t] = IF t = cur THEN label ELSE at[t]
      /\ to \in [Tasks -> Labels] /\ label \notin Mutexes
  BY LabelsDistinct DEF Labels
<1> HIDE DEF to
<1>2. Where(st, at, cur) = Where(st, to, cur)
  BY <1>1 DEF Where
<1>3. \A h, p : Placed(h, st, at, cur, p) => Placed(h, st, to, cur, p)
  BY <1>2 DEF Placed
<1>4. /\ \A w : Labelled(w, st, at) => Labelled(w, st, to)
      /\ \A w : Stays(w, st, at) => Stays(w, st, to)
  BY <1>1, LabelsDistinct DEF Labelled, Stays
<1>5. \A c : Framed(at, c, cur) => Framed(to, c, cur)
  BY <1>1 DEF Framed
<1>6. \A own : Wakeful(st, at, own) => Wakeful(st, to, own)
  BY <1>1 DEF Wakeful
<1>7. QED
  BY <1>1, <1>3, <1>4, <1>5, <1>6 DEF to

LEMMA WakefulSame ==
  ASSUME NEW st, NEW at, NEW own, Wakeful(st, at, own), NEW sn, NEW to,
         \A t \in Tasks : sn[t] = "blocked" <=> st[t] = "blocked",
         \A t \in Tasks : to[t] = at[t] \/ (at[t] \notin Mutexes /\ to[t] \notin Mutexes)
  PROVE  Wakeful(sn, to, own)
BY DEF Wakeful

(* MaybePreempt does not switch: no ready task is of higher priority.       *)
LEMMA NotPreempted ==
  ASSUME CurrentTask \in Tasks, NEW st \in States, NEW at, NEW cur \in {CurrentTask, NULL},
         NEW p \in Priorities, NEW h \in TQ!Heap, Placed(h, st, at, cur, p),
         ~ShouldPreempt(h, p)
  PROVE  Highest(st, at, CurrentTask, p)
<1>1. SUFFICES ASSUME NEW t \in Tasks, st[t] = "ready", p[t] < p[CurrentTask] PROVE FALSE
  BY DEF Highest
<1> DEFINE on == Where(st, at, cur)
           first == TQ!First(h, ReadyList)
<1>2. p[t] \in Nat /\ p[CurrentTask] \in Nat
  BY PrioNat
<1>3. t # cur
  BY <1>1, <1>2, NullNotTask
<1>4. on \in Places /\ on[t] = ReadyList
  BY <1>1, <1>3, WhereIs
<1>5. Lists(h, on) /\ Sorted(h, on, p)
  BY DEF Placed
<1> HIDE DEF on
<1>6. first \in Tasks /\ p[first] <= p[t]
  BY <1>4, <1>5, FirstIsHighest
<1>7. p[first] \in Nat /\ first # NULL
  BY <1>6, PrioNat, Distinct
<1>8. p[first] < p[CurrentTask]
  BY <1>1, <1>2, <1>6, <1>7
<1>9. QED
  BY <1>7, <1>8 DEF ShouldPreempt

(* w goes to sleep until the vertical blank.                                *)
LEMMA WaiterPlaces ==
  ASSUME NEW st \in States, NEW at \in [Tasks -> Labels], NEW e \in Tasks,
         NEW h \in TQ!Heap, NEW p, Placed(h, st, at, e, p), st[e] = "ready",
         h.next[WaitList] = NULL \/ h.next[WaitList] = e
  PROVE  /\ Placed(TQ!InsertHead(h, WaitList, e), [st EXCEPT ![e] = "blocked"],
                   [at EXCEPT ![e] = "vblank"], e, p)
         /\ TQ!InsertHead(h, WaitList, e) \in TQ!Heap
<1> DEFINE on == Where(st, at, e)
           r == [st EXCEPT ![e] = "blocked"]
           to == [at EXCEPT ![e] = "vblank"]
<1>1. on \in Places /\ on[e] = NULL
  BY WhereIs
<1>2. Where(r, to, e) = on
  <2>1. \A t \in Tasks : /\ r[t] = IF t = e THEN "blocked" ELSE st[t]
                         /\ to[t] = IF t = e THEN "vblank" ELSE at[t]
    BY DEF States
  <2> HIDE DEF r, to
  <2>2. QED
    BY <2>1, LabelsDistinct DEF Where
<1>3. Lists(h, on) /\ Sorted(h, on, p)
  BY DEF Placed
<1> HIDE DEF on, r, to
<1>4. /\ Lists(TQ!InsertHead(h, WaitList, e), on)
      /\ Sorted(TQ!InsertHead(h, WaitList, e), on, p)
  BY <1>1, <1>3, WaiterLists
<1>5. QED
  BY <1>2, <1>4 DEF Placed, Lists, r, to

-----------------------------------------------------------------------------
(* Each action keeps the order.                                             *)

(* The common end of TaskRun, TaskResume and TaskPrioritySet.               *)
LEMMA PreemptOrEnableOrders ==
  ASSUME NEW w \in Tasks, LInv(w), ClientRules(w), InTask,
         NEW st \in States, NEW p \in Priorities, NEW h \in TQ!Heap,
         NEW c \in Links, NEW lvl, NEW at \in [Tasks -> Labels],
         Labelled(w, st, at), Stays(w, st, at), st[CurrentTask] = "ready",
         at[CurrentTask] = "run",
         Placed(h, st, at, CurrentTask, p), h.next[WaitList] = tq.next[WaitList],
         Framed(at, c, CurrentTask), Wakeful(st, at, owner),
         st[w] = "blocked" <=> state[w] = "blocked", at[w] = "vblank" <=> pc[w] = "vblank",
         PreemptOrEnable(st, p, h, c, lvl, at), Others,
         UNCHANGED <<eventSet, NeedReschedule, depth, notify>>
  PROVE  Order(w)'
<1>1. /\ CurrentTask \in Tasks /\ state' = st /\ prio' = p /\ mode = "run"
      /\ notify = NoNotify /\ notify' = NoNotify /\ ~NeedReschedule'
      /\ owner' = owner /\ eventSet' = eventSet /\ IsWaiting' = IsWaiting
  BY TaskTypes DEF PreemptOrEnable, Others, mutexVars
<1>2. CASE ShouldPreempt(h, p)
  <2>1. pc' = [at EXCEPT ![CurrentTask] = "enable"] /\ Yield(st, p, h, c, lvl, 7)
    BY <1>2 DEF PreemptOrEnable
  <2>2. at[CurrentTask] \notin Mutexes \cup {"init"}
    BY LabelsDistinct
  <2>3. /\ pc' \in [Tasks -> Labels] /\ Labelled(w, st, pc') /\ Stays(w, st, pc')
        /\ Placed(h, st, pc', CurrentTask, p) /\ Framed(pc', c, CurrentTask)
        /\ Wakeful(st, pc', owner)
    BY <1>1, <2>1, <2>2, Relabelled
  <2>4. pc'[CurrentTask] # "init" /\ (pc'[w] = "vblank" <=> pc[w] = "vblank")
    BY <1>1, <2>1
  <2>5. Awaits(w, h.next[WaitList], pc', eventSet') /\ (IsWaiting' <=> Asleep(w, st, pc'))
    BY <1>1, <2>4, StillAwaits
  <2>6. QED
    BY <1>1, <2>1, <2>3, <2>4, <2>5, SwitchKeeps
<1>3. CASE ~ShouldPreempt(h, p)
  <2>1. /\ tq' = h /\ ctx' = c /\ pc' = at
        /\ CurrentTask' = CurrentTask /\ mode' = mode
    BY <1>3 DEF PreemptOrEnable
  <2>2. Highest(st, at, CurrentTask, p)
    BY <1>1, <1>3, NotPreempted
  <2>3. Awaits(w, h.next[WaitList], pc', eventSet') /\ (IsWaiting' <=> Asleep(w, st, pc'))
    BY <1>1, <2>1, StillAwaits
  <2>4. Running' /\ Runner' = CurrentTask
    BY <1>1, <2>1 DEF Running, Runner
  <2>5. QED
    BY <1>1, <2>1, <2>2, <2>3, <2>4, AlarmSet, OrderPrimed
<1>4. QED
  BY <1>2, <1>3

LEMMA TaskRunOrders ==
  ASSUME NEW w \in Tasks, LInv(w), ClientRules(w), Others,
         NEW tsk \in Tasks, NEW p \in Prios, TaskRun(tsk, p)
  PROVE  Order(w)'
<1> DEFINE q == [prio EXCEPT ![tsk] = p]
           st == [state EXCEPT ![tsk] = "ready"]
           c == [ctx EXCEPT ![tsk] = "code"]
           lvl == [savedIPL EXCEPT ![tsk] = 0]
           at == [pc EXCEPT ![tsk] = "run"]
           h == ReadyAdd(tq, q, tsk)
<1>1. /\ InTask /\ pc[CurrentTask] = "run" /\ pc[tsk] = "init" /\ state[tsk] = "suspended"
      /\ PreemptOrEnable(st, q, h, c, lvl, at)
      /\ UNCHANGED <<eventSet, NeedReschedule, depth, notify>>
  BY DEF TaskRun, Asks
<1>2. /\ CurrentTask \in Tasks /\ state \in States /\ pc \in [Tasks -> Labels] /\ ctx \in Links
      /\ prio \in Priorities /\ tq \in TQ!Heap /\ state[CurrentTask] = "ready"
      /\ Placed(tq, state, pc, CurrentTask, prio)
      /\ Labelled(w, state, pc) /\ Stays(w, state, pc)
      /\ Framed(pc, ctx, CurrentTask) /\ Wakeful(state, pc, owner)
  BY <1>1, TaskTypes
<1>3. /\ q \in Priorities /\ st \in States /\ c \in Links /\ at \in [Tasks -> Labels]
      /\ h \in TQ!Heap
  BY <1>2, ReadyAddType DEF Priorities, States, Links, Labels
<1>4. \A t \in Tasks : /\ q[t] = IF t = tsk THEN p ELSE prio[t]
                       /\ st[t] = IF t = tsk THEN "ready" ELSE state[t]
                       /\ c[t] = IF t = tsk THEN "code" ELSE ctx[t]
                       /\ at[t] = IF t = tsk THEN "run" ELSE pc[t]
  BY <1>2 DEF Priorities, States, Links
<1>5. tsk # CurrentTask
  BY <1>1, <1>2
<1>6. Placed(h, st, at, CurrentTask, q) /\ h.next[WaitList] = tq.next[WaitList]
  <2> HIDE DEF q, at
  <2>1. \A t \in Tasks \ {tsk} : q[t] = prio[t] /\ at[t] = pc[t]
    BY <1>4
  <2>2. /\ state \in States /\ tq \in TQ!Heap /\ prio \in Priorities /\ q \in Priorities
        /\ Placed(tq, state, pc, CurrentTask, prio) /\ state[tsk] = "suspended"
    BY <1>1, <1>2, <1>3
  <2>3. QED
    BY <1>5, <2>1, <2>2, ReadiedPlaces
<1> HIDE DEF q, st, c, lvl, at, h
<1>7. st[CurrentTask] = "ready" /\ at[CurrentTask] = "run"
  BY <1>1, <1>2, <1>4
<1>8. Labelled(w, st, at) /\ Stays(w, st, at) /\ Framed(at, c, CurrentTask)
  BY <1>2, <1>4, LabelsDistinct, MainAssumption DEF Labelled, Stays, Framed
<1>9. Wakeful(st, at, owner)
  <2>1. "run" \notin Mutexes /\ "init" \notin Mutexes
    BY LabelsDistinct
  <2>2. /\ \A t \in Tasks : st[t] = "blocked" <=> state[t] = "blocked"
        /\ \A t \in Tasks : at[t] = pc[t] \/ (pc[t] \notin Mutexes /\ at[t] \notin Mutexes)
    BY <1>1, <1>4, <2>1
  <2>3. QED
    BY <1>2, <2>2, WakefulSame
<1>10. (st[w] = "blocked" <=> state[w] = "blocked") /\ (at[w] = "vblank" <=> pc[w] = "vblank")
  BY <1>1, <1>4
<1>11. QED
  BY <1>1, <1>3, <1>6, <1>7, <1>8, <1>9, <1>10, PreemptOrEnableOrders

LEMMA TaskResumeOrders ==
  ASSUME NEW w \in Tasks, LInv(w), ClientRules(w), Others, NEW tsk \in Tasks, TaskResume(tsk)
  PROVE  Order(w)'
<1> DEFINE st == [state EXCEPT ![tsk] = "ready"]
           h == ReadyAdd(tq, prio, tsk)
<1>1. /\ InTask /\ pc[CurrentTask] = "run" /\ pc[tsk] # "init" /\ state[tsk] = "suspended"
      /\ PreemptOrEnable(st, prio, h, ctx, savedIPL, pc)
      /\ UNCHANGED <<eventSet, NeedReschedule, depth, notify>>
  BY DEF TaskResume, Asks
<1>2. /\ CurrentTask \in Tasks /\ state \in States /\ pc \in [Tasks -> Labels] /\ ctx \in Links
      /\ prio \in Priorities /\ tq \in TQ!Heap /\ state[CurrentTask] = "ready"
      /\ Placed(tq, state, pc, CurrentTask, prio)
      /\ Labelled(w, state, pc) /\ Stays(w, state, pc)
      /\ Framed(pc, ctx, CurrentTask) /\ Wakeful(state, pc, owner)
  BY <1>1, TaskTypes
<1>3. st \in States
  BY <1>2 DEF States
<1>4. \A t \in Tasks : st[t] = IF t = tsk THEN "ready" ELSE state[t]
  BY <1>2 DEF States
<1>5. tsk # CurrentTask
  BY <1>1, <1>2
<1>6. Placed(h, st, pc, CurrentTask, prio) /\ h.next[WaitList] = tq.next[WaitList] /\ h \in TQ!Heap
  BY <1>1, <1>2, <1>5, ReadiedPlaces
<1> HIDE DEF st, h
<1>7. st[CurrentTask] = "ready" /\ (st[w] = "blocked" <=> state[w] = "blocked")
  BY <1>1, <1>2, <1>4
<1>8. Labelled(w, st, pc) /\ Stays(w, st, pc)
  BY <1>1, <1>2, <1>4, MainAssumption DEF Labelled, Stays
<1>9. Wakeful(st, pc, owner)
  <2>1. \A t \in Tasks : st[t] = "blocked" <=> state[t] = "blocked"
    BY <1>1, <1>4
  <2>2. QED
    BY <1>2, <2>1, WakefulSame
<1>10. QED
  BY <1>1, <1>2, <1>3, <1>6, <1>7, <1>8, <1>9, PreemptOrEnableOrders

LEMMA TaskPrioritySetOrders ==
  ASSUME NEW w \in Tasks, LInv(w), ClientRules(w), Others,
         NEW tsk \in Tasks \cup {NULL}, NEW p \in Prios, TaskPrioritySet(tsk, p)
  PROVE  Order(w)'
<1> DEFINE q == [prio EXCEPT ![tsk] = p]
           out == [state EXCEPT ![tsk] = "suspended"]
           st == [state EXCEPT ![tsk] = "ready"]
           g == TQ!Remove(tq, ReadyList, tsk)
           h == ReadyAdd(g, q, tsk)
<1>1. InTask /\ CurrentTask \in Tasks /\ <<CurrentTask, "prio", <<tsk, p>>>> \in Calls
  BY OrderTypes DEF TaskPrioritySet, Asks
<1>2. tsk \in Tasks /\ tsk # NULL /\ tsk # CurrentTask
  BY <1>1, NullNotTask DEF ClientRules
<1>3. /\ pc[CurrentTask] = "run" /\ state[tsk] = "ready"
      /\ PreemptOrEnable(st, q, h, ctx, savedIPL, pc)
      /\ UNCHANGED <<eventSet, NeedReschedule, depth, notify>>
  BY <1>2 DEF TaskPrioritySet, Asks
<1>4. /\ state \in States /\ pc \in [Tasks -> Labels] /\ ctx \in Links
      /\ prio \in Priorities /\ tq \in TQ!Heap /\ state[CurrentTask] = "ready"
      /\ Placed(tq, state, pc, CurrentTask, prio)
      /\ Labelled(w, state, pc) /\ Stays(w, state, pc)
      /\ Framed(pc, ctx, CurrentTask) /\ Wakeful(state, pc, owner)
  BY <1>1, TaskTypes
<1>5. q \in Priorities /\ st \in States /\ out \in States
  BY <1>2, <1>4 DEF Priorities, States
<1>6. \A t \in Tasks : /\ q[t] = IF t = tsk THEN p ELSE prio[t]
                       /\ out[t] = IF t = tsk THEN "suspended" ELSE state[t]
                       /\ st[t] = state[t]
  BY <1>2, <1>3, <1>4 DEF Priorities, States
<1>7. st = [out EXCEPT ![tsk] = "ready"]
  BY <1>2, <1>4 DEF States
<1> HIDE DEF st, out, q, g, h
<1>8. Where(state, pc, CurrentTask)[tsk] = ReadyList
  BY <1>2, <1>3, <1>4, WhereIs
<1>9. /\ Placed(g, out, pc, CurrentTask, prio) /\ g \in TQ!Heap
      /\ g.next[WaitList] = tq.next[WaitList]
  BY <1>2, <1>4, <1>8, TakenPlaces, ReadyHead DEF g, out
<1>10. /\ Placed(h, st, pc, CurrentTask, q) /\ h \in TQ!Heap
       /\ h.next[WaitList] = tq.next[WaitList]
  <2>1. out[tsk] = "suspended" /\ \A t \in Tasks \ {tsk} : q[t] = prio[t]
    BY <1>2, <1>6
  <2>2. /\ Placed(ReadyAdd(g, q, tsk), [out EXCEPT ![tsk] = "ready"], pc, CurrentTask, q)
        /\ ReadyAdd(g, q, tsk).next[WaitList] = g.next[WaitList]
        /\ ReadyAdd(g, q, tsk) \in TQ!Heap
    <3>1. /\ tsk \in Tasks /\ tsk # CurrentTask
          /\ prio \in Priorities /\ q \in Priorities /\ out \in States /\ g \in TQ!Heap
          /\ Placed(g, out, pc, CurrentTask, prio)
      BY <1>2, <1>4, <1>5, <1>9
    <3>2. QED
      BY <2>1, <3>1, ResumedPlaces
  <2>3. QED
    BY <1>7, <1>9, <2>2 DEF h
<1>11. /\ st[CurrentTask] = "ready" /\ Labelled(w, st, pc) /\ Stays(w, st, pc)
       /\ Wakeful(st, pc, owner) /\ (st[w] = "blocked" <=> state[w] = "blocked")
  <2>1. st = state
    BY <1>4, <1>5, <1>6 DEF States
  <2>2. QED
    BY <1>1, <1>4, <2>1
<1>12. QED
  BY <1>1, <1>3, <1>4, <1>5, <1>10, <1>11, PreemptOrEnableOrders

LEMMA TaskSuspendOrders ==
  ASSUME NEW w \in Tasks, LInv(w), ClientRules(w), Others,
         NEW tsk \in Tasks \cup {NULL}, TaskSuspend(tsk)
  PROVE  Order(w)'
<1> DEFINE self == IF tsk = NULL THEN CurrentTask ELSE tsk
           st == [state EXCEPT ![self] = "suspended"]
           h == IF tsk = NULL THEN tq ELSE TQ!Remove(tq, ReadyList, tsk)
<1>1. /\ InTask /\ pc[CurrentTask] = "run" /\ <<CurrentTask, "suspend", tsk>> \in Calls
      /\ tsk # NULL => state[tsk] = "ready"
      /\ state' = st /\ pc' = [pc EXCEPT ![CurrentTask] = "enable"]
      /\ Yield(st, prio, h, ctx, savedIPL, 7)
      /\ UNCHANGED <<prio, eventSet, NeedReschedule, depth, notify>>
      /\ owner' = owner /\ IsWaiting' = IsWaiting
  BY DEF TaskSuspend, Asks, YieldTo, Others, mutexVars
<1>2. /\ CurrentTask \in Tasks /\ state \in States /\ pc \in [Tasks -> Labels] /\ ctx \in Links
      /\ prio \in Priorities /\ tq \in TQ!Heap /\ mode = "run"
      /\ state[CurrentTask] = "ready" /\ notify = NoNotify /\ ~NeedReschedule
      /\ Placed(tq, state, pc, CurrentTask, prio)
      /\ Labelled(w, state, pc) /\ Stays(w, state, pc)
      /\ Framed(pc, ctx, CurrentTask) /\ Wakeful(state, pc, owner)
  BY <1>1, TaskTypes
<1>3. /\ self \in Tasks /\ state[self] = "ready" /\ (tsk # NULL => tsk # CurrentTask)
      /\ MainStays => self # Main
      /\ OthersStay(w) => self = w
  BY <1>1, <1>2, NullNotTask, MainAssumption DEF ClientRules, MainStays, OthersStay
<1>4. st \in States /\ \A t \in Tasks : st[t] = IF t = self THEN "suspended" ELSE state[t]
  BY <1>2, <1>3 DEF States
<1>5. /\ Placed(h, st, pc, CurrentTask, prio) /\ h \in TQ!Heap
      /\ h.next[WaitList] = tq.next[WaitList]
  <2>1. CASE tsk = NULL
    <3>1. Where(state, pc, CurrentTask) = Where(st, pc, CurrentTask)
      <4> HIDE DEF st
      <4>1. \A t \in Tasks : st[t] = IF t = CurrentTask THEN "suspended" ELSE state[t]
        BY <1>4, <2>1
      <4>2. QED
        BY <1>2, <4>1 DEF Where
    <3>2. QED
      BY <1>2, <2>1, <3>1 DEF Placed
  <2>2. CASE tsk # NULL
    <3>1. Where(state, pc, CurrentTask)[tsk] = ReadyList /\ tsk \in Tasks
      BY <1>2, <1>3, <2>2, WhereIs
    <3>2. QED
      BY <1>2, <2>2, <3>1, TakenPlaces, ReadyHead
  <2>3. QED
    BY <2>1, <2>2
<1> HIDE DEF self, st, h
<1>6. Labelled(w, st, pc) /\ st[CurrentTask] # "blocked"
  BY <1>2, <1>3, <1>4 DEF Labelled
<1>7. Stays(w, st, pc)
  BY <1>2, <1>3, <1>4, MainAssumption DEF Stays
<1>8. Wakeful(st, pc, owner)
  <2>1. \A t \in Tasks : st[t] = "blocked" <=> state[t] = "blocked"
    BY <1>3, <1>4
  <2>2. QED
    BY <1>2, <2>1, WakefulSame
<1>9. /\ pc' \in [Tasks -> Labels] /\ Labelled(w, st, pc') /\ Stays(w, st, pc')
      /\ Placed(h, st, pc', CurrentTask, prio) /\ Framed(pc', ctx, CurrentTask)
      /\ Wakeful(st, pc', owner)
  <2>1. pc[CurrentTask] \notin Mutexes \cup {"init"}
    BY <1>1, LabelsDistinct
  <2>2. QED
    BY <1>1, <1>2, <1>4, <1>5, <1>6, <1>7, <1>8, <2>1, Relabelled
<1>10. pc'[CurrentTask] # "init" /\ (pc'[w] = "vblank" <=> pc[w] = "vblank")
  BY <1>1, <1>2
<1>11. Awaits(w, h.next[WaitList], pc', eventSet') /\ (IsWaiting' <=> Asleep(w, st, pc'))
  BY <1>1, <1>2, <1>3, <1>4, <1>5, <1>10, StillAwaits
<1>12. QED
  BY <1>1, <1>2, <1>4, <1>5, <1>9, <1>10, <1>11, SwitchKeeps

(* TaskYield, and the switch at the end of an interrupt.                    *)
LEMMA YieldOrders ==
  ASSUME NEW w \in Tasks, LInv(w), ClientRules(w), mode = "run",
         UNCHANGED <<state, prio, pc, owner, eventSet, IsWaiting>>,
         notify = NoNotify, notify' = NoNotify, ~NeedReschedule',
         NEW level, Yield(state, prio, tq, ctx, savedIPL, level)
  PROVE  Order(w)'
<1>1. Awaits(w, tq.next[WaitList], pc', eventSet') /\ (IsWaiting' <=> Asleep(w, state', pc'))
  BY StillAwaits
<1>2. QED
  BY <1>1, OrderTypes, RunTypes, SwitchKeeps

LEMMA TaskYieldOrders ==
  ASSUME NEW w \in Tasks, LInv(w), ClientRules(w), Others, TaskYield
  PROVE  Order(w)'
<1>1. InTask
  BY DEF TaskYield, Asks
<1>2. QED
  BY <1>1, TaskTypes, YieldOrders DEF TaskYield, Others, mutexVars

LEMMA LeaveIntrOrders ==
  ASSUME NEW w \in Tasks, LInv(w), ClientRules(w), Others, LeaveIntr
  PROVE  Order(w)'
<1>1. /\ UNCHANGED <<state, prio, pc, owner, eventSet, IsWaiting, notify>> /\ notify = NoNotify
      /\ depth \in Nat /\ depth' = depth - 1 /\ depth > 0 /\ notify.ntasks = 0
  BY OrderTypes DEF LeaveIntr, Others, mutexVars, InIntr, NoNotify
<1>2. CASE depth = 1 /\ NeedReschedule
  <2>1. mode = "run"
    BY <1>2 DEF LInv, Order, Running, Idling
  <2>2. QED
    BY <1>1, <1>2, <2>1, YieldOrders DEF LeaveIntr
<1>3. CASE ~(depth = 1 /\ NeedReschedule)
  <2>1. UNCHANGED <<CurrentTask, tq, ctx, mode, NeedReschedule>>
    BY <1>3 DEF LeaveIntr
  <2>2. NeedReschedule' => depth' > 0
    BY <1>1, <1>3, <2>1
  <2>3. pc' = [pc EXCEPT ![CurrentTask] = pc[CurrentTask]] /\ Wakeful(state, pc', owner')
    BY <1>1, OrderTypes
  <2>4. /\ NeedReschedule \/ notify.ntasks = 1 => NeedReschedule'
        /\ mode = "idle" => ~NeedReschedule'
    BY <1>1, <2>1 DEF LInv, Order, Running, Idling
  <2>5. Awaits(w, tq.next[WaitList], pc', eventSet') /\ Alarm(w)'
    BY <1>1, <2>1, StillAwaits, AlarmSet
  <2>6. QED
    BY <1>1, <2>1, <2>2, <2>3, <2>4, <2>5, StayKeeps
<1>4. QED
  BY <1>2, <1>3

LEMMA TaskResumeISROrders ==
  ASSUME NEW w \in Tasks, LInv(w), ClientRules(w), Others, NEW tsk \in Tasks,
         TaskResumeISR(tsk)
  PROVE  Order(w)'
<1> DEFINE st == [state EXCEPT ![tsk] = "ready"]
           h == ReadyAdd(tq, prio, tsk)
<1>1. /\ pc[tsk] # "init" /\ state[tsk] = "suspended" /\ depth > 0 /\ notify = NoNotify
      /\ tq' = h /\ state' = st /\ <<"resume", tsk>> \in IsrCalls
      /\ NeedReschedule' = (NeedReschedule \/ ShouldPreempt(h, prio))
      /\ UNCHANGED <<CurrentTask, prio, pc, ctx, mode, depth, notify, owner, eventSet,
                     IsWaiting>>
  BY DEF TaskResumeISR, InIntr, Others, mutexVars
<1>2. mode = "run" /\ notify.ntasks = 0
  BY <1>1 DEF LInv, Order, Running, Idling, NoNotify
<1>3. /\ CurrentTask \in Tasks /\ state \in States /\ pc \in [Tasks -> Labels]
      /\ prio \in Priorities /\ tq \in TQ!Heap /\ state[CurrentTask] = "ready"
      /\ Placed(tq, state, pc, CurrentTask, prio) /\ Runner = CurrentTask
      /\ Labelled(w, state, pc) /\ Stays(w, state, pc) /\ Framed(pc, ctx, CurrentTask)
      /\ Wakeful(state, pc, owner)
  BY <1>2, OrderTypes, RunTypes
<1>4. st \in States /\ \A t \in Tasks : st[t] = IF t = tsk THEN "ready" ELSE state[t]
  BY <1>3 DEF States
<1>5. tsk # CurrentTask
  BY <1>1, <1>3
<1>6. /\ Placed(h, st, pc, CurrentTask, prio) /\ h \in TQ!Heap
      /\ h.next[WaitList] = tq.next[WaitList]
  <2>1. state[tsk] = "suspended"
    BY <1>1
  <2>2. /\ state \in States /\ prio \in Priorities /\ tq \in TQ!Heap
        /\ Placed(tq, state, pc, CurrentTask, prio)
    BY <1>3
  <2>3. QED
    BY <1>5, <2>1, <2>2, ReadiedPlaces
<1> HIDE DEF st, h
<1>7. st[CurrentTask] = "ready" /\ (st[w] = "blocked" <=> state[w] = "blocked")
  BY <1>1, <1>3, <1>4
<1>8. Labelled(w, st, pc) /\ Stays(w, st, pc)
  BY <1>1, <1>3, <1>4, MainAssumption DEF Labelled, Stays
<1>9. Wakeful(st, pc, owner)
  <2>1. \A t \in Tasks : st[t] = "blocked" <=> state[t] = "blocked"
    BY <1>1, <1>4
  <2>2. QED
    BY <1>3, <2>1, WakefulSame
<1>10. NeedReschedule' \/ Highest(st, pc, CurrentTask, prio)
  BY <1>1, <1>3, <1>4, <1>6, NotPreempted
<1>11. Awaits(w, h.next[WaitList], pc, eventSet') /\ (IsWaiting' <=> Asleep(w, st, pc))
  BY <1>1, <1>6, <1>7, StillAwaits
<1>12. Running' /\ Runner' = CurrentTask
  BY <1>1, <1>2, <1>7 DEF Running, Runner
<1>13. Alarm(w)'
  BY <1>1, <1>11, AlarmSet
<1>14. (Running \/ Idling(w))'
  BY <1>12
<1>15. QED
  BY <1>1, <1>3, <1>6, <1>8, <1>9, <1>10, <1>11, <1>12, <1>13, <1>14, OrderPrimed

(* A task that has not slept in TaskWaitVBlank does not begin to.            *)
LEMMA AwakeAwaits ==
  ASSUME NEW w \in Tasks, LInv(w), notify = NoNotify, NEW st, NEW at,
         ~Asleep(w, state, pc), ~Asleep(w, st, at), at[w] = "vblank" <=> pc[w] = "vblank",
         eventSet' = eventSet, IsWaiting' = IsWaiting
  PROVE  /\ Awaits(w, tq.next[WaitList], at, eventSet')
         /\ IsWaiting' <=> Asleep(w, st, at)
<1>1. Awaits(w, tq.next[WaitList], pc, eventSet) /\ ~IsWaiting
  BY DEF LInv, Order, Alarm
<1>2. QED
  BY <1>1 DEF Awaits

(* MutexLock and the rest of its loop.                                      *)
LEMMA LockLoopOrders ==
  ASSUME NEW w \in Tasks, LInv(w), ClientRules(w), InTask,
         NEW m \in Mutexes, NEW n, <<CurrentTask, "lock", m>> \in Calls,
         pc[CurrentTask] = "run" \/ pc[CurrentTask] = m,
         LockLoop(m, n), UNCHANGED <<prio, eventSet, depth, NeedReschedule, notify, IsWaiting>>
  PROVE  Order(w)'
<1>1. /\ CurrentTask \in Tasks /\ state \in States /\ pc \in [Tasks -> Labels] /\ ctx \in Links
      /\ prio \in Priorities /\ tq \in TQ!Heap /\ mode = "run"
      /\ state[CurrentTask] = "ready" /\ notify = NoNotify /\ ~NeedReschedule
      /\ Placed(tq, state, pc, CurrentTask, prio)
      /\ Labelled(w, state, pc) /\ Stays(w, state, pc)
      /\ Framed(pc, ctx, CurrentTask) /\ Wakeful(state, pc, owner)
      /\ owner \in [Mutexes -> Tasks \cup {NULL}]
  BY TaskTypes
<1>2. "run" \notin Mutexes /\ m \notin {"init", "wait", "vblank"}
  BY LabelsDistinct
<1>3. (MainStays => CurrentTask # Main) /\ (OthersStay(w) => CurrentTask = w)
  BY <1>1 DEF MainStays, OthersStay
<1>4. CASE owner[m] # NULL
  <2> DEFINE st == [state EXCEPT ![CurrentTask] = "blocked"]
             to == [pc EXCEPT ![CurrentTask] = m]
             h == TQ!InsertTail(tq, m, CurrentTask)
  <2>1. /\ state' = st /\ pc' = to /\ owner' = owner
        /\ Yield(st, prio, h, ctx, savedIPL, 7)
    BY <1>4 DEF LockLoop, YieldTo
  <2>2. /\ st \in States /\ to \in [Tasks -> Labels]
        /\ \A t \in Tasks : /\ st[t] = IF t = CurrentTask THEN "blocked" ELSE state[t]
                            /\ to[t] = IF t = CurrentTask THEN m ELSE pc[t]
    BY <1>1 DEF States, Labels
  <2>3. /\ Placed(h, st, to, CurrentTask, prio) /\ h \in TQ!Heap
        /\ h.next[WaitList] = tq.next[WaitList]
    <3>1. /\ CurrentTask \in Tasks /\ state \in States /\ pc \in [Tasks -> Labels]
          /\ tq \in TQ!Heap /\ state[CurrentTask] = "ready"
          /\ Placed(tq, state, pc, CurrentTask, prio)
      BY <1>1
    <3>2. Placed(h, st, to, CurrentTask, prio) /\ h \in TQ!Heap
      BY <3>1, BlockedPlaces
    <3>3. h.next[WaitList] = tq.next[WaitList]
      BY <3>1, BlockedPlaces, ZenonT(40)
    <3>4. QED
      BY <3>2, <3>3
  <2> HIDE DEF st, to, h
  <2>4. Labelled(w, st, to) /\ Framed(to, ctx, CurrentTask) /\ to[CurrentTask] # "init"
    BY <1>1, <1>2, <2>2 DEF Labelled, Framed
  <2>5. Stays(w, st, to)
    BY <1>1, <1>3, <2>2, MainAssumption DEF Stays
  <2>6. Wakeful(st, to, owner)
    <3>1. SUFFICES ASSUME NEW x \in Mutexes, owner[x] = NULL,
                          NEW u \in Tasks, st[u] = "blocked", to[u] = x
                   PROVE  \E t \in Tasks : to[t] = x /\ st[t] # "blocked"
      BY DEF Wakeful
    <3>2. x # m
      BY <1>4, <3>1
    <3>3. u # CurrentTask
      BY <2>2, <3>1, <3>2
    <3>4. state[u] = "blocked" /\ pc[u] = x
      BY <2>2, <3>1, <3>3
    <3>5. PICK t \in Tasks : pc[t] = x /\ state[t] # "blocked"
      BY <1>1, <3>1, <3>4 DEF Wakeful
    <3>6. t # CurrentTask
      BY <1>2, <3>2, <3>5
    <3>7. QED
      BY <2>2, <3>5, <3>6
  <2>7. Awaits(w, h.next[WaitList], to, eventSet') /\ (IsWaiting' <=> Asleep(w, st, to))
    <3>1. to[w] = "vblank" <=> pc[w] = "vblank"
      BY <1>2, <2>2
    <3>2. CASE w = CurrentTask
      <4>1. ~Asleep(w, state, pc) /\ ~Asleep(w, st, to)
        BY <1>1, <1>2, <2>2, <3>2 DEF Asleep
      <4>2. QED
        BY <1>1, <2>3, <3>1, <4>1, AwakeAwaits
    <3>3. CASE w # CurrentTask
      <4>1. st[w] = "blocked" <=> state[w] = "blocked"
        BY <2>2, <3>3
      <4>2. QED
        BY <1>1, <2>3, <3>1, <4>1, StillAwaits
    <3>4. QED
      BY <3>2, <3>3
  <2>8. QED
    BY <1>1, <2>1, <2>2, <2>3, <2>4, <2>5, <2>6, <2>7, SwitchKeeps
<1>5. CASE owner[m] = NULL
  <2>1. /\ owner' = [owner EXCEPT ![m] = CurrentTask]
        /\ pc' = [pc EXCEPT ![CurrentTask] = "run"]
        /\ UNCHANGED <<CurrentTask, tq, state, ctx, mode>>
    BY <1>5 DEF LockLoop
  <2>2. /\ \A t \in Tasks : pc'[t] = IF t = CurrentTask THEN "run" ELSE pc[t]
        /\ \A x \in Mutexes : owner'[x] = IF x = m THEN CurrentTask ELSE owner[x]
    BY <1>1, <2>1
  <2>3. Wakeful(state, pc', owner')
    <3>1. SUFFICES ASSUME NEW x \in Mutexes, owner'[x] = NULL,
                          NEW u \in Tasks, state[u] = "blocked", pc'[u] = x
                   PROVE  \E t \in Tasks : pc'[t] = x /\ state[t] # "blocked"
      BY DEF Wakeful
    <3>2. x # m /\ owner[x] = NULL
      BY <1>1, <2>2, <3>1, NullNotTask
    <3>3. pc[u] = x
      BY <1>2, <2>2, <3>1
    <3>4. PICK t \in Tasks : pc[t] = x /\ state[t] # "blocked"
      BY <1>1, <3>1, <3>2, <3>3 DEF Wakeful
    <3>5. t # CurrentTask
      BY <1>2, <3>2, <3>4
    <3>6. QED
      BY <2>2, <3>4, <3>5
  <2>4. pc'[w] = "vblank" <=> pc[w] = "vblank"
    BY <1>2, <2>2
  <2>5. Awaits(w, tq.next[WaitList], pc', eventSet') /\ Alarm(w)'
    BY <1>1, <2>1, <2>4, StillAwaits, AlarmSet
  <2>6. ~NeedReschedule' /\ ~(notify.ntasks = 1)
    BY <1>1 DEF NoNotify
  <2>7. QED
    BY <1>1, <2>1, <2>3, <2>5, <2>6, StayKeeps
<1>6. QED
  BY <1>4, <1>5

LEMMA MutexLockOrders ==
  ASSUME NEW w \in Tasks, LInv(w), ClientRules(w), UNCHANGED IsWaiting,
         NEW m \in Mutexes, MutexLock(m) \/ MutexLockAgain(m)
  PROVE  Order(w)'
<1>1. CASE MutexLock(m)
  <2>1. InTask /\ pc[CurrentTask] = "run" /\ <<CurrentTask, "lock", m>> \in Calls
    BY <1>1 DEF MutexLock, Asks
  <2>2. QED
    BY <1>1, <2>1, LockLoopOrders DEF MutexLock
<1>2. CASE MutexLockAgain(m)
  <2>1. InTask /\ pc[CurrentTask] = m
    BY <1>2 DEF MutexLockAgain
  <2>2. <<CurrentTask, "lock", m>> \in Calls
    BY <2>1, TaskTypes DEF Labelled
  <2>3. QED
    BY <1>2, <2>1, <2>2, LockLoopOrders DEF MutexLockAgain
<1>3. QED
  BY <1>1, <1>2

LEMMA MutexUnlockOrders ==
  ASSUME NEW w \in Tasks, LInv(w), ClientRules(w), UNCHANGED IsWaiting,
         NEW m \in Mutexes, MutexUnlock(m)
  PROVE  Order(w)'
<1> DEFINE tsk == TQ!First(tq, m)
           g == TQ!Remove(tq, m, tsk)
           out == [state EXCEPT ![tsk] = "suspended"]
           st == [state EXCEPT ![tsk] = "ready"]
           h == ReadyAdd(g, prio, tsk)
           on == Where(state, pc, CurrentTask)
<1>1. /\ InTask /\ pc[CurrentTask] = "run" /\ owner' = [owner EXCEPT ![m] = NULL]
      /\ IF tsk = NULL THEN UNCHANGED <<tq, state>> ELSE tq' = h /\ state' = st
      /\ UNCHANGED <<CurrentTask, prio, pc, ctx, mode, depth, NeedReschedule, notify, eventSet,
                     IsWaiting>>
  BY DEF MutexUnlock, Asks
<1>2. /\ CurrentTask \in Tasks /\ state \in States /\ pc \in [Tasks -> Labels] /\ ctx \in Links
      /\ prio \in Priorities /\ tq \in TQ!Heap /\ mode = "run" /\ Runner = CurrentTask
      /\ state[CurrentTask] = "ready" /\ notify = NoNotify /\ ~NeedReschedule
      /\ Placed(tq, state, pc, CurrentTask, prio)
      /\ Labelled(w, state, pc) /\ Stays(w, state, pc)
      /\ Framed(pc, ctx, CurrentTask) /\ Wakeful(state, pc, owner)
      /\ Highest(state, pc, CurrentTask, prio)
      /\ owner \in [Mutexes -> Tasks \cup {NULL}]
  BY <1>1, TaskTypes
<1>3. /\ on \in Places /\ Lists(tq, on)
      /\ \A x \in Mutexes : owner'[x] = IF x = m THEN NULL ELSE owner[x]
  BY <1>1, <1>2, WhereIs DEF Placed
<1>4. m \in Heads
  BY DEF Heads
<1>5. notify.ntasks # 1
  BY <1>2 DEF NoNotify
<1>6. CASE tsk = NULL
  <2>1. \A u \in Tasks : ~(state[u] = "blocked" /\ pc[u] = m)
    <3>1. SUFFICES ASSUME NEW u \in Tasks, state[u] = "blocked", pc[u] = m PROVE FALSE
      OBVIOUS
    <3>2. on[u] = m
      BY <1>2, <3>1, WhereIs
    <3>3. QED
      BY <1>2, <1>3, <1>4, <1>6, <3>2, FirstOfList DEF TQ!First
  <2>2. Wakeful(state, pc, owner')
    BY <1>2, <1>3, <2>1 DEF Wakeful
  <2>3. pc' = [pc EXCEPT ![CurrentTask] = pc[CurrentTask]]
    BY <1>1, <1>2
  <2>4. UNCHANGED <<CurrentTask, tq, state, prio, ctx, mode>>
    BY <1>1, <1>6
  <2>5. Awaits(w, tq.next[WaitList], pc', eventSet') /\ Alarm(w)'
    BY <1>1, <1>2, <2>4, StillAwaits, AlarmSet
  <2>6. Wakeful(state, pc', owner') /\ ~NeedReschedule'
    BY <1>1, <1>2, <2>2
  <2>7. QED
    BY <1>2, <1>5, <2>3, <2>4, <2>5, <2>6, StayKeeps
<1>7. CASE tsk # NULL
  <2>1. tsk \in Tasks /\ on[tsk] = m
    BY <1>2, <1>3, <1>4, <1>7, FirstOfList DEF TQ!First
  <2>2. state[tsk] = "blocked" /\ pc[tsk] = m
    <3>1. m # NULL /\ m # ReadyList
      BY NullNotTask, ListsDistinct
    <3>2. QED
      BY <1>2, <2>1, <3>1, WhereIs DEF States
  <2>3. tsk # CurrentTask
    BY <1>2, <2>2
  <2>4. /\ st \in States /\ out \in States /\ st = [out EXCEPT ![tsk] = "ready"]
        /\ \A t \in Tasks : /\ st[t] = IF t = tsk THEN "ready" ELSE state[t]
                            /\ out[t] = IF t = tsk THEN "suspended" ELSE state[t]
    BY <1>2, <2>1 DEF States
  <2>5. /\ Placed(g, out, pc, CurrentTask, prio) /\ g \in TQ!Heap
        /\ g.next[WaitList] = tq.next[WaitList]
    BY <1>2, <1>4, <2>1, TakenPlaces
  <2> HIDE DEF tsk, g, out, st, h, on
  <2>6. /\ Placed(h, st, pc, CurrentTask, prio) /\ h.next[WaitList] = tq.next[WaitList]
    <3>1. out[tsk] = "suspended"
      BY <2>1, <2>4
    <3>2. /\ tsk \in Tasks /\ tsk # CurrentTask
          /\ prio \in Priorities /\ out \in States /\ g \in TQ!Heap
          /\ Placed(g, out, pc, CurrentTask, prio)
      BY <1>2, <2>1, <2>3, <2>4, <2>5
    <3>3. /\ Placed(ReadyAdd(g, prio, tsk), [out EXCEPT ![tsk] = "ready"], pc, CurrentTask, prio)
          /\ ReadyAdd(g, prio, tsk).next[WaitList] = g.next[WaitList]
      BY <3>1, <3>2, ResumedPlaces
    <3>4. QED
      BY <2>4, <2>5, <3>3 DEF h
  <2>7. Labelled(w, st, pc) /\ st[CurrentTask] = "ready"
    BY <1>2, <2>2, <2>3, <2>4, LabelsDistinct DEF Labelled
  <2>8. Stays(w, st, pc)
    BY <1>2, <2>4, MainAssumption DEF Stays
  <2>9. Wakeful(st, pc, owner')
    <3>1. SUFFICES ASSUME NEW x \in Mutexes, owner'[x] = NULL,
                          NEW u \in Tasks, st[u] = "blocked", pc[u] = x
                   PROVE  \E t \in Tasks : pc[t] = x /\ st[t] # "blocked"
      BY DEF Wakeful
    <3>2. CASE x = m
      BY <2>1, <2>2, <2>4, <3>2
    <3>3. CASE x # m
      BY <1>2, <1>3, <2>4, <3>1, <3>3 DEF Wakeful
    <3>4. QED
      BY <3>2, <3>3
  <2>10. Highest(st, pc, CurrentTask, prio)
    BY <1>2, <2>2, <2>4 DEF Highest
  <2>11. Awaits(w, h.next[WaitList], pc, eventSet') /\ (IsWaiting' <=> Asleep(w, st, pc))
    <3>1. CASE w = tsk
      <4>1. pc[w] # "vblank"
        BY <2>2, <3>1, LabelsDistinct
      <4>2. ~Asleep(w, state, pc) /\ ~Asleep(w, st, pc)
        BY <4>1 DEF Asleep
      <4>3. QED
        BY <1>1, <1>2, <2>6, <4>2, AwakeAwaits
    <3>2. CASE w # tsk
      BY <1>1, <1>2, <2>4, <2>6, <3>2, StillAwaits
    <3>3. QED
      BY <3>1, <3>2
  <2>12. /\ tq' = h /\ state' = st /\ ~NeedReschedule' /\ Running' /\ Runner' = CurrentTask
    BY <1>1, <1>2, <1>7, <2>7 DEF Running, Runner
  <2>13. Alarm(w)'
    BY <1>1, <1>2, <2>11, <2>12, AlarmSet
  <2>14. (Running \/ Idling(w))'
    BY <2>12
  <2>15. QED
    BY <1>1, <1>2, <2>6, <2>7, <2>8, <2>9, <2>10, <2>11, <2>12, <2>13, <2>14, OrderPrimed
<1>8. QED
  BY <1>6, <1>7

(* Actions that touch neither the lists nor what orders them.               *)
LEMMA QuietSteps ==
  ASSUME NEW w \in Tasks, LInv(w), Others,
         IntrDisable \/ IntrEnable \/ FinishCall \/ EnterIntr
  PROVE  Order(w)'
<1>1. /\ pc \in [Tasks -> Labels] /\ depth \in Nat /\ CurrentTask \in Tasks
      /\ Wakeful(state, pc, owner) /\ (NeedReschedule => depth > 0)
      /\ owner' = owner /\ IsWaiting' = IsWaiting
      /\ pc = [pc EXCEPT ![CurrentTask] = pc[CurrentTask]]
  BY OrderTypes DEF Others, mutexVars
<1>2. /\ UNCHANGED <<CurrentTask, tq, state, prio, ctx, mode, notify, eventSet, NeedReschedule>>
      /\ notify = NoNotify
      /\ depth' = depth \/ depth' = depth + 1
      /\ \/ pc' = pc
         \/ /\ mode = "run" /\ pc[CurrentTask] \in {"run", "enable"}
            /\ pc' = [pc EXCEPT ![CurrentTask] = "run"]
  BY DEF IntrDisable, IntrEnable, FinishCall, EnterIntr, EnableAndReturn, Asks, InTask
<1>3. /\ NeedReschedule' => depth' > 0
      /\ mode = "idle" => ~NeedReschedule'
      /\ NeedReschedule \/ notify.ntasks = 1 => NeedReschedule'
  BY <1>1, <1>2 DEF LInv, Order, Running, Idling, NoNotify
<1>4. \A t \in Tasks : \/ pc'[t] = pc[t]
                       \/ pc[t] \notin Mutexes \cup {"vblank"} /\ pc'[t] = "run"
  BY <1>1, <1>2, LabelsDistinct
<1>5. Wakeful(state, pc', owner')
  <2>1. \A t \in Tasks : pc'[t] = pc[t] \/ (pc[t] \notin Mutexes /\ pc'[t] \notin Mutexes)
    BY <1>4, LabelsDistinct
  <2>2. QED
    BY <1>1, <2>1, WakefulSame
<1>6. Awaits(w, tq.next[WaitList], pc', eventSet') /\ Alarm(w)'
  <2>1. pc'[w] = "vblank" <=> pc[w] = "vblank"
    BY <1>4
  <2>2. QED
    BY <1>1, <1>2, <2>1, StillAwaits, AlarmSet
<1>7. CASE pc' = pc
  BY <1>1, <1>2, <1>3, <1>5, <1>6, <1>7, StayKeeps
<1>8. CASE pc' # pc
  <2>1. mode = "run" /\ pc' = [pc EXCEPT ![CurrentTask] = "run"]
    BY <1>2, <1>8
  <2>2. /\ UNCHANGED <<CurrentTask, tq, state, prio, ctx, mode>>
        /\ mode = "idle" => ~NeedReschedule'
        /\ NeedReschedule \/ notify.ntasks = 1 =>
             NeedReschedule' \/ notify'.ntasks = 1 \/ Highest(state, pc, CurrentTask, prio)
    BY <1>2, <1>3
  <2>3. NeedReschedule' => depth' > 0
    BY <1>3
  <2>4. QED
    BY <1>5, <1>6, <2>1, <2>2, <2>3, StayKeeps
<1>9. QED
  BY <1>7, <1>8

-----------------------------------------------------------------------------
(* TaskWaitVBlank, the interrupt server that ends it, and _TaskNotify.      *)
LEMMA TaskWaitVBlankOrders ==
  ASSUME NEW w \in Tasks, LInv(w), ClientRules(w), UNCHANGED mutexVars, TaskWaitVBlank
  PROVE  Order(w)'
<1> DEFINE st == [state EXCEPT ![w] = "blocked"]
           to == [pc EXCEPT ![w] = "vblank"]
           h == TQ!InsertHead(tq, WaitList, w)
<1>1. InTask /\ pc[CurrentTask] = "run" /\ <<CurrentTask, "vblank", NULL>> \in Calls
  BY DEF TaskWaitVBlank, Asks
<1>2. /\ CurrentTask \in Tasks /\ state \in States /\ pc \in [Tasks -> Labels] /\ ctx \in Links
      /\ prio \in Priorities /\ tq \in TQ!Heap /\ mode = "run"
      /\ state[CurrentTask] = "ready" /\ notify = NoNotify /\ ~NeedReschedule
      /\ Placed(tq, state, pc, CurrentTask, prio)
      /\ Labelled(w, state, pc) /\ Stays(w, state, pc)
      /\ Framed(pc, ctx, CurrentTask) /\ Wakeful(state, pc, owner)
  BY <1>1, TaskTypes
<1>3. CurrentTask = w /\ ~NobodyWaits /\ (MainStays => w # Main)
  BY <1>1, <1>2 DEF ClientRules, NobodyWaits, MainStays
<1>4. /\ state' = st /\ pc' = to /\ Yield(st, prio, h, ctx, savedIPL, 7)
      /\ eventSet' = [eventSet EXCEPT ![w] = {INTF_VERTB}]
      /\ IsWaiting' = TRUE /\ UNCHANGED <<prio, NeedReschedule, notify, owner>>
  BY <1>3 DEF TaskWaitVBlank, BlockOn, YieldTo, mutexVars
<1>5. /\ eventSet \in [Tasks -> SUBSET Events]
      /\ Awaits(w, tq.next[WaitList], pc, eventSet)
  BY OrderTypes
<1>6. /\ st \in States /\ to \in [Tasks -> Labels]
      /\ \A t \in Tasks : /\ st[t] = IF t = w THEN "blocked" ELSE state[t]
                          /\ to[t] = IF t = w THEN "vblank" ELSE pc[t]
                          /\ eventSet'[t] = IF t = w THEN {INTF_VERTB} ELSE eventSet[t]
  BY <1>2, <1>4, <1>5 DEF States, Labels
<1>7. Placed(h, st, to, w, prio) /\ h \in TQ!Heap /\ h.next[WaitList] = w
  <2>1. tq.next[WaitList] = NULL \/ tq.next[WaitList] = w
    BY <1>5 DEF Awaits
  <2>2. /\ state \in States /\ pc \in [Tasks -> Labels] /\ tq \in TQ!Heap
        /\ Placed(tq, state, pc, w, prio) /\ state[w] = "ready"
    BY <1>2, <1>3
  <2>3. Placed(h, st, to, w, prio) /\ h \in TQ!Heap
    BY <2>1, <2>2, WaiterPlaces
  <2>4. WaitList \in TQ!Slot /\ WaitList # w
    BY Distinct
  <2>5. h.next[WaitList] = w
    BY <1>2, <2>4 DEF h, TQ!InsertHead, TQ!Heap
  <2>6. QED
    BY <2>3, <2>5
<1> HIDE DEF st, to, h
<1>8. Labelled(w, st, to) /\ Framed(to, ctx, w) /\ to[w] # "init"
  BY <1>2, <1>3, <1>6, LabelsDistinct DEF Labelled, Framed
<1>9. Stays(w, st, to)
  BY <1>2, <1>3, <1>6, MainAssumption DEF Stays
<1>10. Wakeful(st, to, owner)
  <2>1. SUFFICES ASSUME NEW x \in Mutexes, owner[x] = NULL,
                        NEW u \in Tasks, st[u] = "blocked", to[u] = x
                 PROVE  \E t \in Tasks : to[t] = x /\ st[t] # "blocked"
    BY DEF Wakeful
  <2>2. u # w /\ pc[u] = x /\ state[u] = "blocked"
    BY <1>6, <2>1, LabelsDistinct
  <2>3. PICK t \in Tasks : pc[t] = x /\ state[t] # "blocked"
    BY <1>2, <2>1, <2>2 DEF Wakeful
  <2>4. t # w
    BY <1>1, <1>3, <2>3, LabelsDistinct
  <2>5. QED
    BY <1>6, <2>3, <2>4
<1>11. Awaits(w, h.next[WaitList], to, eventSet') /\ (IsWaiting' <=> Asleep(w, st, to))
  BY <1>3, <1>4, <1>5, <1>6, <1>7 DEF Awaits, Asleep
<1>12. QED
  BY <1>2, <1>3, <1>4, <1>6, <1>7, <1>8, <1>9, <1>10, <1>11, SwitchKeeps

LEMMA FinishWaitVBlankOrders ==
  ASSUME NEW w \in Tasks, LInv(w), UNCHANGED mutexVars, FinishWaitVBlank
  PROVE  Order(w)'
<1>1. /\ InTask /\ pc[CurrentTask] = "vblank" /\ pc' = [pc EXCEPT ![CurrentTask] = "run"]
      /\ UNCHANGED <<CurrentTask, tq, state, prio, ctx, mode, owner, notify, NeedReschedule,
                     depth, IsWaiting>>
      /\ eventSet' = [eventSet EXCEPT ![CurrentTask] = {}]
  BY DEF FinishWaitVBlank, EnableAndReturn, mutexVars
<1>2. /\ CurrentTask \in Tasks /\ pc \in [Tasks -> Labels] /\ mode = "run"
      /\ state[CurrentTask] = "ready" /\ notify = NoNotify /\ ~NeedReschedule
      /\ Labelled(w, state, pc) /\ Wakeful(state, pc, owner)
      /\ Awaits(w, tq.next[WaitList], pc, eventSet)
      /\ eventSet \in [Tasks -> SUBSET Events]
  BY <1>1, TaskTypes, OrderTypes
<1>3. CurrentTask = w
  BY <1>1, <1>2 DEF Labelled
<1>4. \A t \in Tasks : /\ pc'[t] = IF t = w THEN "run" ELSE pc[t]
                       /\ eventSet'[t] = IF t = w THEN {} ELSE eventSet[t]
  BY <1>1, <1>2, <1>3
<1>5. Awaits(w, tq.next[WaitList], pc', eventSet')
  BY <1>2, <1>4 DEF Awaits
<1>6. ~IsWaiting
  BY <1>2, <1>3 DEF LInv, Order, Alarm, Asleep
<1>7. ~Asleep(w, state', pc')
  BY <1>4 DEF Asleep
<1>8. Alarm(w)'
  BY <1>1, <1>2, <1>6, <1>7, AlarmSet
<1>9. Wakeful(state, pc', owner')
  <2>1. \A t \in Tasks : pc'[t] = pc[t] \/ (pc[t] \notin Mutexes /\ pc'[t] \notin Mutexes)
    BY <1>1, <1>3, <1>4, LabelsDistinct
  <2>2. QED
    BY <1>1, <1>2, <2>1, WakefulSame
<1>10. ~NeedReschedule' /\ notify.ntasks # 1
  BY <1>1, <1>2 DEF NoNotify
<1>11. QED
  BY <1>1, <1>2, <1>5, <1>8, <1>9, <1>10, StayKeeps

(* w is the first and the only one that waits.                              *)
LEMMA VBlankWakeupHandlerOrders ==
  ASSUME NEW w \in Tasks, LInv(w), UNCHANGED mutexVars, VBlankWakeupHandler
  PROVE  Order(w)'
<1>1. /\ UNCHANGED <<CurrentTask, tq, state, prio, ctx, mode, owner, pc, NeedReschedule,
                     depth, eventSet>>
      /\ depth > 0 /\ notify = NoNotify /\ IsWaiting /\ IsWaiting' = FALSE
      /\ notify' = [tsk |-> tq.next[WaitList], events |-> {INTF_VERTB}, ntasks |-> 0]
  BY DEF VBlankWakeupHandler, TaskNotifyISR, BeginNotify, InIntr, TQ!First, mutexVars
<1>2. /\ CurrentTask \in Tasks /\ pc \in [Tasks -> Labels] /\ Wakeful(state, pc, owner)
      /\ Awaits(w, tq.next[WaitList], pc, eventSet)
  BY OrderTypes
<1>3. Asleep(w, state, pc)
  BY <1>1 DEF LInv, Order, Alarm
<1>4. tq.next[WaitList] = w /\ eventSet[w] = {INTF_VERTB} /\ state[w] = "blocked"
  BY <1>2, <1>3 DEF Asleep, Awaits
<1>5. /\ notify'.tsk = w /\ notify'.ntasks = 0 /\ notify'.events = {INTF_VERTB}
      /\ notify.ntasks = 0
  BY <1>1, <1>4 DEF NoNotify
<1>6. Waking(w)'
  BY <1>1, <1>4, <1>5, NullNotTask DEF Waking
<1>7. Alarm(w)'
  BY <1>1, <1>4, <1>5, <1>6 DEF Alarm
<1>8. pc' = [pc EXCEPT ![CurrentTask] = pc[CurrentTask]]
  BY <1>1, <1>2
<1>9. (NeedReschedule' => depth' > 0) /\ (mode = "idle" => ~NeedReschedule')
  BY <1>1 DEF LInv, Order, Running, Idling
<1>10. Wakeful(state, pc', owner') /\ Awaits(w, tq.next[WaitList], pc', eventSet')
  BY <1>1, <1>2
<1>11. NeedReschedule \/ notify.ntasks = 1 => NeedReschedule'
  BY <1>1, <1>5
<1>12. QED
  BY <1>1, <1>7, <1>8, <1>9, <1>10, <1>11, StayKeeps

(* Tasks do not send the event of the vertical blank: w sleeps on.          *)
LEMMA TaskNotifyOrders ==
  ASSUME NEW w \in Tasks, LInv(w), ClientRules(w), Others,
         NEW evs \in SUBSET Events, TaskNotify(evs)
  PROVE  Order(w)'
<1>1. /\ UNCHANGED <<CurrentTask, tq, state, prio, ctx, mode, owner, pc, NeedReschedule,
                     depth, eventSet, IsWaiting>>
      /\ InTask /\ <<CurrentTask, "notify", evs>> \in Calls
      /\ notify' = [tsk |-> tq.next[WaitList], events |-> evs, ntasks |-> 0]
  BY DEF TaskNotify, BeginNotify, Asks, TQ!First, Others, mutexVars
<1>2. /\ CurrentTask \in Tasks /\ pc \in [Tasks -> Labels] /\ Wakeful(state, pc, owner)
      /\ Awaits(w, tq.next[WaitList], pc, eventSet) /\ Labelled(w, state, pc)
      /\ ~NeedReschedule /\ notify = NoNotify
  BY <1>1, OrderTypes, TaskTypes
<1>3. /\ notify.ntasks = 0 /\ notify.tsk = NULL
      /\ notify'.ntasks = 0 /\ notify'.events = evs
  BY <1>1, <1>2 DEF NoNotify
<1>4. eventSet[w] \cap evs = {}
  <2>1. eventSet[w] # {} => INTF_VERTB \notin evs /\ eventSet[w] = {INTF_VERTB}
    BY <1>1, <1>2 DEF Awaits, Labelled, ClientRules
  <2>2. QED
    BY <2>1
<1>5. IsWaiting <=> Asleep(w, state, pc)
  BY <1>3 DEF LInv, Order, Alarm, Waking
<1>6. ~Waking(w)' /\ (Asleep(w, state, pc)' <=> Asleep(w, state, pc))
  BY <1>1, <1>3, <1>4 DEF Waking, Asleep
<1>7. Alarm(w)'
  BY <1>1, <1>3, <1>4, <1>5, <1>6 DEF Alarm
<1>8. pc' = [pc EXCEPT ![CurrentTask] = pc[CurrentTask]]
  BY <1>1, <1>2
<1>9. Wakeful(state, pc', owner') /\ Awaits(w, tq.next[WaitList], pc', eventSet')
  BY <1>1, <1>2
<1>10. ~NeedReschedule' /\ notify.ntasks # 1
  BY <1>1, <1>2, <1>3
<1>11. QED
  BY <1>1, <1>7, <1>8, <1>9, <1>10, StayKeeps

LEMMA NotifyTypes ==
  ASSUME NEW w \in Tasks, LInv(w)
  PROVE  /\ notify \in [tsk : Tasks \cup {NULL}, events : SUBSET Events, ntasks : {0, 1}]
         /\ Alarm(w) /\ (NeedReschedule' = NeedReschedule /\ mode = "idle" => ~NeedReschedule')
BY DEF LInv, Order, Running, Idling, IInv, TypeOK, TaskTypeOK

(* The loop passes by a task that does not wait for the events.             *)
LEMMA NotifyPassesOrders ==
  ASSUME NEW w \in Tasks, LInv(w), Others, NotifyNext,
         eventSet[notify.tsk] \cap notify.events = {}
  PROVE  Order(w)'
<1> DEFINE tsk == notify.tsk
           on == Where(state, pc, Runner)
<1>1. /\ UNCHANGED <<CurrentTask, tq, state, prio, ctx, mode, owner, pc, NeedReschedule,
                     depth, eventSet, IsWaiting>>
      /\ tsk # NULL /\ notify' = [notify EXCEPT !.tsk = tq.next[tsk]]
  BY DEF NotifyNext, Others, mutexVars
<1>2. /\ CurrentTask \in Tasks /\ pc \in [Tasks -> Labels] /\ Wakeful(state, pc, owner)
      /\ Awaits(w, tq.next[WaitList], pc, eventSet) /\ (NeedReschedule => depth > 0)
      /\ tq \in TQ!Heap /\ state \in States /\ on \in Places
  BY OrderTypes, WhereIs
<1>3. /\ tsk \in Tasks /\ notify'.tsk = tq.next[tsk]
      /\ notify'.ntasks = notify.ntasks /\ notify'.events = notify.events
      /\ notify # NoNotify /\ Alarm(w)
      /\ mode = "idle" => ~NeedReschedule'
  BY <1>1, NotifyTypes DEF NoNotify
<1>4. ~Waking(w)
  BY <1>3 DEF Alarm, Waking
<1>5. ~Waking(w)' /\ (Asleep(w, state, pc)' <=> Asleep(w, state, pc))
  BY <1>1, <1>3, <1>4 DEF Waking, Asleep
<1>6. ASSUME notify'.ntasks = 1, notify'.tsk # NULL PROVE Behind(w)'
  <2>1. on[tsk] = ReadyList
    BY <1>1, <1>3, <1>6 DEF Alarm, Behind
  <2>2. PICK pos \in Numbers : Linked(tq, on, pos) /\ pos[w] < pos[tsk]
    BY <1>1, <1>3, <1>6 DEF Alarm, Behind
  <2>3. tq.next[tsk] # NULL /\ tsk \in Slots(on, ReadyList) /\ tsk \in TQ!Slot
    BY <1>3, <1>6, <2>1, Distinct DEF Slots
  <2>4. Succ(tq, ReadyList, tsk) = tq.next[tsk] /\ tq.next[tsk] \in Tasks
    BY <1>2, <2>3, SuccType, ReadyHead
  <2>5. /\ tq.next[tsk] \in Slots(on, ReadyList)
        /\ pos[tsk] < pos[tq.next[tsk]]
    BY <1>3, <2>2, <2>3, <2>4, ReadyHead DEF Linked
  <2>6. on[tq.next[tsk]] = ReadyList
    BY <2>4, <2>5, Distinct, ReadyHead DEF Slots
  <2>7. pos[w] \in Nat /\ pos[tsk] \in Nat /\ pos[tq.next[tsk]] \in Nat
    BY <1>3, <2>2, <2>4 DEF Numbers
  <2>8. pos[w] < pos[notify'.tsk] /\ on[notify'.tsk] = ReadyList
    BY <1>3, <2>2, <2>5, <2>6, <2>7
  <2>9. tq' = tq /\ Where(state', pc', Runner') = on
    BY <1>1 DEF Runner
  <2>10. QED
    BY <2>2, <2>8, <2>9, BehindPrimed
<1>7. Alarm(w)'
  <2>1. /\ IsWaiting' <=> Asleep(w, state, pc)'
        /\ depth' = 0 => notify'.ntasks = 0 /\ eventSet'[w] \cap notify'.events = {}
    BY <1>1, <1>3, <1>4, <1>5 DEF Alarm
  <2>2. QED
    BY <1>5, <1>6, <2>1 DEF Alarm
<1>8. pc' = [pc EXCEPT ![CurrentTask] = pc[CurrentTask]]
  BY <1>1, <1>2
<1>9. /\ Wakeful(state, pc', owner') /\ Awaits(w, tq.next[WaitList], pc', eventSet')
      /\ NeedReschedule' => depth' > 0
      /\ NeedReschedule \/ notify.ntasks = 1 => NeedReschedule' \/ notify'.ntasks = 1
  BY <1>1, <1>2, <1>3
<1>10. QED
  BY <1>1, <1>3, <1>7, <1>8, <1>9, StayKeeps

(* The loop wakes w, which it does once: then it goes on behind w.           *)
LEMMA NotifyWakesOrders ==
  ASSUME NEW w \in Tasks, LInv(w), Others, NotifyNext,
         eventSet[notify.tsk] \cap notify.events # {}
  PROVE  Order(w)'
<1> DEFINE tsk == notify.tsk
           st == [state EXCEPT ![w] = "ready"]
           h == ReadyAdd(tq, prio, w)
           new == Where(st, pc, Runner)
<1>1. /\ CurrentTask \in Tasks /\ pc \in [Tasks -> Labels] /\ prio \in Priorities
      /\ tq \in TQ!Heap /\ state \in States /\ eventSet \in [Tasks -> SUBSET Events]
      /\ Placed(tq, state, pc, Runner, prio) /\ Labelled(w, state, pc)
      /\ Stays(w, state, pc) /\ Framed(pc, ctx, Runner) /\ Wakeful(state, pc, owner)
      /\ Awaits(w, tq.next[WaitList], pc, eventSet) /\ (NeedReschedule => depth > 0)
  BY OrderTypes
<1>2. /\ tsk \in Tasks /\ notify.ntasks \in {0, 1} /\ notify # NoNotify /\ tsk # NULL
      /\ Alarm(w)
  BY NotifyTypes DEF NotifyNext, NoNotify
<1>3. tsk = w /\ pc[w] = "vblank" /\ eventSet[w] = {INTF_VERTB}
  BY <1>1, <1>2 DEF Awaits
<1>4. notify.ntasks = 0
  <2>1. ASSUME notify.ntasks = 1 PROVE FALSE
    <3>1. PICK pos \in Numbers : pos[w] < pos[tsk]
      BY <1>2, <2>1 DEF Alarm, Behind
    <3>2. pos[w] \in Nat
      BY <3>1 DEF Numbers
    <3>3. QED
      BY <1>3, <3>1, <3>2
  <2>2. QED
    BY <1>2, <2>1
<1>5. Waking(w) /\ state[w] = "blocked" /\ ~IsWaiting
  <2>1. Waking(w)
    BY <1>2, <1>3, <1>4 DEF Waking
  <2>2. QED
    BY <1>2, <2>1 DEF Alarm
<1>6. depth # 0
  BY <1>2, <1>3 DEF Alarm
<1>7. /\ tq' = h /\ state' = st
      /\ eventSet' = [eventSet EXCEPT ![w] = eventSet[w] \cap notify.events]
      /\ notify' = [notify EXCEPT !.tsk = h.next[w], !.ntasks = 1]
      /\ UNCHANGED <<CurrentTask, prio, pc, ctx, mode, depth, NeedReschedule, owner, IsWaiting>>
  BY <1>3 DEF NotifyNext, Others, mutexVars
<1>8. /\ notify'.tsk = h.next[w] /\ notify'.ntasks = 1
      /\ \A t \in Tasks : eventSet'[t] = IF t = w THEN {INTF_VERTB} ELSE eventSet[t]
  <2>1. eventSet[w] \cap notify.events = {INTF_VERTB}
    BY <1>3
  <2>2. QED
    BY <1>1, <1>2, <1>7, <2>1
<1>9. st \in States /\ \A t \in Tasks : st[t] = IF t = w THEN "ready" ELSE state[t]
  BY <1>1 DEF States
<1>10. w # Runner /\ Runner' = Runner
  BY <1>5, <1>7, NullNotTask, RunTypes DEF Runner
<1>11. /\ Placed(h, st, pc, Runner, prio) /\ h \in TQ!Heap
       /\ h.next[WaitList] = tq.next[WaitList]
  <2>1. pc[w] \notin Mutexes
    BY <1>3, LabelsDistinct
  <2>2. QED
    BY <1>1, <1>5, <1>10, <2>1, ResumedPlaces
<1> HIDE DEF st, h, new
<1>12. Labelled(w, st, pc) /\ Stays(w, st, pc)
  BY <1>1, <1>3, <1>9, MainAssumption DEF Labelled, Stays
<1>13. Wakeful(st, pc, owner)
  <2>1. SUFFICES ASSUME NEW x \in Mutexes, owner[x] = NULL,
                        NEW u \in Tasks, st[u] = "blocked", pc[u] = x
                 PROVE  \E t \in Tasks : pc[t] = x /\ st[t] # "blocked"
    BY DEF Wakeful
  <2>2. state[u] = "blocked"
    BY <1>9, <2>1
  <2>3. PICK t \in Tasks : pc[t] = x /\ state[t] # "blocked"
    BY <1>1, <2>1, <2>2 DEF Wakeful
  <2>4. st[t] # "blocked"
    BY <1>9, <2>3
  <2>5. QED
    BY <2>3, <2>4
<1>14. (Running \/ Idling(w))'
  <2>1. CASE Running
    BY <1>1, <1>7, <1>9, <2>1 DEF Running
  <2>2. CASE Idling(w)
    BY <1>7, <1>9, <2>2 DEF Idling
  <2>3. QED
    BY <2>1, <2>2 DEF LInv, Order
<1>15. Awaits(w, tq'.next[WaitList], pc', eventSet')
  BY <1>1, <1>3, <1>7, <1>8, <1>11 DEF Awaits
<1>16. ASSUME notify'.tsk # NULL PROVE Behind(w)'
  <2>1. /\ new \in Places /\ new[w] = ReadyList
        /\ new = Where(state', pc', Runner')
    BY <1>7, <1>9, <1>10, WhereIs DEF new
  <2>2. PICK pos \in Numbers : Linked(tq', new, pos)
    BY <1>7, <1>11 DEF Placed, Lists, new
  <2>3. h.next[w] # NULL /\ w \in Slots(new, ReadyList) /\ w \in TQ!Slot
    BY <1>8, <1>16, <2>1, Distinct DEF Slots
  <2>4. Succ(h, ReadyList, w) = h.next[w] /\ h.next[w] \in Tasks
    BY <1>11, <2>3, SuccType, ReadyHead
  <2>5. h.next[w] \in Slots(new, ReadyList) /\ pos[w] < pos[h.next[w]]
    BY <1>7, <2>2, <2>3, <2>4, ReadyHead DEF Linked
  <2>6. new[h.next[w]] = ReadyList
    BY <2>4, <2>5, Distinct, ReadyHead DEF Slots
  <2>7. QED
    BY <1>8, <2>1, <2>2, <2>5, <2>6, BehindPrimed
<1>17. Alarm(w)'
  <2>1. ~Waking(w)' /\ ~Asleep(w, state, pc)' /\ ~IsWaiting'
    BY <1>5, <1>7, <1>8, <1>9 DEF Waking, Asleep
  <2>2. depth' # 0
    BY <1>6, <1>7
  <2>3. QED
    BY <1>16, <2>1, <2>2 DEF Alarm
<1>18. /\ Placed(tq', state', pc', Runner', prio')
       /\ Labelled(w, state', pc') /\ Stays(w, state', pc') /\ Framed(pc', ctx', Runner')
       /\ NeedReschedule' => depth' > 0
       /\ Wakeful(state', pc', owner')
  BY <1>1, <1>7, <1>10, <1>11, <1>12, <1>13
<1>19. QED
  BY <1>8, <1>14, <1>15, <1>17, <1>18, OrderPrimed

LEMMA NotifyReturnOrders ==
  ASSUME NEW w \in Tasks, LInv(w), Others, NotifyReturn
  PROVE  Order(w)'
<1>1. /\ CurrentTask \in Tasks /\ pc \in [Tasks -> Labels] /\ prio \in Priorities
      /\ tq \in TQ!Heap /\ state \in States /\ depth \in Nat
      /\ Placed(tq, state, pc, Runner, prio) /\ Wakeful(state, pc, owner)
      /\ Awaits(w, tq.next[WaitList], pc, eventSet) /\ (NeedReschedule => depth > 0)
  BY OrderTypes
<1>2. /\ notify # NoNotify /\ notify.tsk = NULL /\ notify' = NoNotify
      /\ notify.ntasks \in {0, 1} /\ Alarm(w)
      /\ UNCHANGED <<state, prio, eventSet, depth, owner, IsWaiting>>
  BY NotifyTypes DEF NotifyReturn, Others, mutexVars
<1> DEFINE preempt == notify.ntasks > 0 /\ ShouldPreempt(tq, prio)
<1>3. /\ UNCHANGED <<CurrentTask, tq, pc, ctx, mode>>
      /\ \/ depth > 0 /\ NeedReschedule' = (NeedReschedule \/ preempt)
         \/ depth = 0 /\ notify.ntasks = 0 /\ NeedReschedule' = NeedReschedule
  <2>1. CASE depth > 0
    BY <2>1 DEF NotifyReturn
  <2>2. CASE ~(depth > 0)
    <3>1. depth = 0 /\ notify.ntasks = 0
      BY <1>1, <1>2, <2>2 DEF Alarm
    <3>2. ~(notify.ntasks > 0)
      BY <3>1
    <3>3. UNCHANGED <<CurrentTask, tq, pc, ctx, mode, NeedReschedule>>
      BY <2>2, <3>2, Zenon DEF NotifyReturn
    <3>4. QED
      BY <3>1, <3>3
  <2>3. QED
    BY <2>1, <2>2
<1>4. IsWaiting <=> Asleep(w, state, pc)
  BY <1>2 DEF Alarm, Waking
<1>5. Alarm(w)'
  <2>1. IsWaiting' <=> Asleep(w, state', pc')
    BY <1>2, <1>3, <1>4
  <2>2. QED
    BY <1>2, <2>1, AlarmSet
<1>6. NeedReschedule' => depth' > 0
  BY <1>1, <1>2, <1>3
<1>7. ASSUME mode = "idle" PROVE ~NeedReschedule'
  <2>1. ~NeedReschedule /\ CurrentTask = w /\ \A t \in Tasks : state[t] = "ready" => t = w
    BY <1>7 DEF LInv, Order, Running, Idling
  <2>2. ~ShouldPreempt(tq, prio)
    <3> DEFINE on == Where(state, pc, Runner)
               first == TQ!First(tq, ReadyList)
    <3>1. on \in Places /\ Lists(tq, on) /\ \A t \in Tasks : on[t] = ReadyList => state[t] = "ready"
      BY <1>1, WhereIs DEF Placed
    <3> HIDE DEF on
    <3>2. first # NULL => first \in Tasks /\ on[first] = ReadyList
      BY <1>1, <3>1, FirstOfList, ReadyHead DEF TQ!First
    <3>3. first # NULL => first = w
      BY <2>1, <3>1, <3>2
    <3>4. prio[w] \in Nat
      BY <1>1, PrioNat
    <3>5. QED
      BY <2>1, <3>3, <3>4 DEF ShouldPreempt
  <2>3. QED
    BY <1>3, <2>1, <2>2
<1>8. NeedReschedule \/ notify.ntasks = 1 =>
        NeedReschedule' \/ Highest(state, pc, CurrentTask, prio)
  <2>1. CASE ShouldPreempt(tq, prio)
    <3>1. notify.ntasks = 1 => notify.ntasks > 0
      OBVIOUS
    <3>2. depth = 0 => ~NeedReschedule /\ notify.ntasks # 1
      BY <1>1, <1>3
    <3>3. depth # 0 => NeedReschedule' = (NeedReschedule \/ preempt)
      BY <1>3
    <3>4. QED
      BY <2>1, <3>1, <3>2, <3>3
  <2>2. CASE ~ShouldPreempt(tq, prio)
    <3>1. Runner \in {CurrentTask, NULL}
      BY DEF Runner
    <3>2. Highest(state, pc, CurrentTask, prio)
      BY <1>1, <2>2, <3>1, NotPreempted
    <3>3. QED
      BY <3>2
  <2>3. QED
    BY <2>1, <2>2
<1>9. /\ pc' = [pc EXCEPT ![CurrentTask] = pc[CurrentTask]]
      /\ UNCHANGED <<CurrentTask, tq, state, prio, ctx, mode>>
      /\ Wakeful(state, pc', owner') /\ Awaits(w, tq.next[WaitList], pc', eventSet')
  BY <1>1, <1>2, <1>3
<1>10. QED
  BY <1>5, <1>6, <1>7, <1>8, <1>9, StayKeeps

(* An interrupt has made w ready, and the idle processor goes on with w.     *)
LEMMA IdleWakeupOrders ==
  ASSUME NEW w \in Tasks, LInv(w), Others, IdleWakeup
  PROVE  Order(w)'
<1> DEFINE on == Where(state, pc, NULL)
           new == Where(state, pc, CurrentTask')
<1>1. /\ mode = "idle" /\ depth = 0 /\ TQ!First(tq, ReadyList) # NULL
      /\ Dispatch(tq, ctx, savedIPL)
      /\ UNCHANGED <<state, prio, eventSet, pc, depth, NeedReschedule, notify, owner, IsWaiting>>
  BY DEF IdleWakeup, Others, mutexVars
<1>2. Idling(w) /\ Runner = NULL /\ notify = NoNotify
  BY <1>1 DEF LInv, Order, Running, Runner, IInv, NotifyMasked
<1>3. /\ CurrentTask \in Tasks /\ pc \in [Tasks -> Labels] /\ ctx \in Links
      /\ prio \in Priorities /\ tq \in TQ!Heap /\ state \in States
      /\ Placed(tq, state, pc, NULL, prio) /\ Labelled(w, state, pc)
      /\ Stays(w, state, pc) /\ Framed(pc, ctx, NULL) /\ Wakeful(state, pc, owner)
  BY <1>2, OrderTypes
<1>4. /\ on \in Places /\ Lists(tq, on) /\ Sorted(tq, on, prio)
      /\ \A t \in Tasks : on[t] = ReadyList <=> state[t] = "ready"
  BY <1>3, WhereIs, NullNotTask DEF Placed
<1>5. \A t \in Tasks : on[t] = ReadyList => ctx[t] = "code"
  BY <1>3, <1>4, NullNotTask DEF Labelled, Framed
<1>6. \A t \in Tasks : on[t] =
         IF state[t] = "ready" THEN ReadyList
         ELSE IF state[t] = "blocked" /\ pc[t] \in Mutexes THEN pc[t] ELSE NULL
  BY NullNotTask DEF Where
<1> HIDE DEF on
<1>7. PICK u \in Tasks : on[u] = ReadyList
  BY <1>1, <1>3, <1>4, FirstOfList, ReadyHead DEF TQ!First
<1>8. /\ mode' = "run" /\ CurrentTask' \in Tasks /\ on[CurrentTask'] = ReadyList
      /\ Lists(tq', [on EXCEPT ![CurrentTask'] = NULL])
      /\ Sorted(tq', [on EXCEPT ![CurrentTask'] = NULL], prio)
      /\ tq'.next[WaitList] = tq.next[WaitList]
      /\ \A t \in Tasks : on[t] = ReadyList => prio[CurrentTask'] <= prio[t]
      /\ \A t \in Tasks \ {CurrentTask'} : ctx'[t] = ctx[t]
  BY <1>1, <1>3, <1>4, <1>5, <1>7, DispatchPlaces
<1>9. [on EXCEPT ![CurrentTask'] = NULL] = new
  <2>1. state[CurrentTask'] = "ready"
    BY <1>4, <1>8
  <2> DEFINE r == [on EXCEPT ![CurrentTask'] = NULL]
  <2>2. r \in Places /\ \A t \in Tasks : r[t] = IF t = CurrentTask' THEN NULL ELSE on[t]
    BY <1>4 DEF Places
  <2> HIDE DEF r
  <2>3. \A t \in Tasks :
          r[t] = IF state[t] = "ready" THEN IF t = CurrentTask' THEN NULL ELSE ReadyList
                 ELSE IF state[t] = "blocked" /\ pc[t] \in Mutexes THEN pc[t] ELSE NULL
    BY <1>6, <2>1, <2>2
  <2>4. r = new
    BY <2>2, <2>3 DEF Where, Places
  <2>5. QED
    BY <2>4 DEF r
<1>10. Running' /\ Runner' = CurrentTask'
  BY <1>1, <1>4, <1>8 DEF Running, Runner
<1>11. Placed(tq', state', pc', Runner', prio')
  BY <1>1, <1>8, <1>9, <1>10 DEF Placed
<1>12. Highest(state', pc', CurrentTask', prio')
  <2>1. \A t \in Tasks : prio[t] \in Nat
    BY <1>3, PrioNat
  <2>2. QED
    BY <1>1, <1>4, <1>8, <2>1 DEF Highest
<1>13. /\ Labelled(w, state', pc') /\ Stays(w, state', pc') /\ Wakeful(state', pc', owner')
       /\ NeedReschedule' => depth' > 0
  BY <1>1, <1>2, <1>3 DEF Idling
<1>14. Framed(pc', ctx', Runner')
  BY <1>1, <1>3, <1>8, <1>10, NullNotTask DEF Framed
<1>15. Awaits(w, tq'.next[WaitList], pc', eventSet') /\ Alarm(w)'
  BY <1>1, <1>2, <1>8, StillAwaits, AlarmSet
<1>16. (Running \/ Idling(w))'
  BY <1>10
<1>17. QED
  BY <1>11, <1>12, <1>13, <1>14, <1>15, <1>16, OrderPrimed

LEMMA NoSuchSteps ==
  ASSUME NEW w \in Tasks, LInv(w), ClientRules(w)
  PROVE  ~FinishWait /\ \A evs \in SUBSET Events : ~TaskWait(evs)
<1>1. CurrentTask \in Tasks /\ pc[CurrentTask] # "wait"
  BY OrderTypes DEF Labelled
<1>2. QED
  BY <1>1 DEF FinishWait, TaskWait, Asks, ClientRules

-----------------------------------------------------------------------------
LEMMA InitOrder ==
  ASSUME NEW w \in Tasks, Init
  PROVE  LInv(w)
<1> DEFINE on == Where(state, pc, CurrentTask)
<1>1. /\ CurrentTask = Main /\ tq = TQ!EmptyHeap /\ mode = "run"
      /\ state = [t \in Tasks |-> IF t = Main THEN "ready" ELSE "suspended"]
      /\ pc = [t \in Tasks |-> IF t = Main THEN "run" ELSE "init"]
      /\ eventSet = [t \in Tasks |-> {}]
      /\ notify = NoNotify /\ ~IsWaiting /\ ~NeedReschedule
  BY DEF Init, TaskInit, VBlankInit
<1>2. IInv
  BY InitIInv
<1>3. Running /\ Runner = Main
  BY <1>1, MainAssumption DEF Running, Runner
<1>4. "run" \notin Mutexes /\ "init" \notin Mutexes
  BY LabelsDistinct
<1>5. Framed(pc, ctx, Runner) /\ Wakeful(state, pc, owner) /\ Stays(w, state, pc)
  BY <1>1, <1>3, MainAssumption DEF Framed, Wakeful, Stays
<1>6. Labelled(w, state, pc)
  BY <1>1, <1>4, MainAssumption DEF Labelled
<1>7. Highest(state, pc, CurrentTask, prio)
  <2>1. prio[Main] \in Nat
    BY <1>2, IInvTypes, PrioNat, MainAssumption DEF Priorities
  <2>2. ~(prio[Main] < prio[Main])
    BY <2>1
  <2>3. QED
    BY <1>1, <2>2, MainAssumption DEF Highest
<1>8. \A s \in TQ!Slot : tq.next[s] = NULL /\ (s \in Heads => tq.back[s] = s)
  BY <1>1 DEF TQ!EmptyHeap, Heads
<1>9. Awaits(w, tq.next[WaitList], pc, eventSet)
  <2>1. tq.next[WaitList] = NULL
    BY <1>8, Distinct
  <2>2. QED
    BY <1>1, <2>1 DEF Awaits
<1>10. Alarm(w)
  <2>1. ~Asleep(w, state, pc) /\ ~Waking(w) /\ notify.tsk = NULL
    BY <1>1 DEF Asleep, Waking, NoNotify
  <2>2. QED
    BY <1>1, <2>1 DEF Alarm
<1>11. \A t \in Tasks : on[t] = NULL
  BY <1>1 DEF Where
<1> HIDE DEF on
<1>12. \A l \in Heads : Slots(on, l) = {l} /\ l \in TQ!Slot
  BY <1>11, Distinct DEF Slots
<1> DEFINE pos == [t \in Tasks |-> 0]
<1>13. pos \in Numbers
  BY DEF Numbers
<1> HIDE DEF pos
<1>14. Linked(tq, on, pos)
  <2>1. SUFFICES ASSUME NEW l \in Heads
                 PROVE  /\ Succ(tq, l, l) = l /\ tq.back[l] = l /\ tq.next[l] = NULL
    BY <1>12 DEF Linked
  <2>2. QED
    BY <1>8, <1>12 DEF Succ
<1>15. Placed(tq, state, pc, Runner, prio)
  <2>1. tq \in TQ!Heap
    BY <1>2, IInvTypes
  <2>2. Sorted(tq, on, prio)
    BY <1>11, Distinct, ReadyHead DEF Sorted
  <2>3. QED
    BY <1>1, <1>3, <1>13, <1>14, <2>1, <2>2 DEF Lists, Placed, on
<1>16. QED
  BY <1>1, <1>2, <1>3, <1>5, <1>6, <1>7, <1>9, <1>10, <1>15 DEF LInv, Order

LEMMA StutterOrders ==
  ASSUME NEW w \in Tasks, LInv(w), UNCHANGED vars
  PROVE  Order(w)'
<1>1. UNCHANGED <<CurrentTask, tq, state, prio, pc, ctx, mode, NeedReschedule, depth, notify,
                  owner, eventSet, IsWaiting>>
  BY DEF vars, taskVars, mutexVars
<1>2. /\ (Running \/ Idling(w))' /\ Runner' = Runner
      /\ NeedReschedule' \/ notify'.ntasks = 1 \/ Highest(state', pc', CurrentTask', prio')
  BY <1>1 DEF LInv, Order, Running, Idling, Runner
<1>3. Alarm(w)'
  <2>1. Behind(w)' <=> Behind(w)
    BY <1>1 DEF Behind, Runner
  <2>2. QED
    BY <1>1, <2>1 DEF LInv, Order, Alarm, Waking, Asleep
<1>4. QED
  BY <1>1, <1>2, <1>3, OrderTypes, OrderPrimed

LEMMA NextOrder ==
  ASSUME NEW w \in Tasks, ClientRules(w), LInv(w), [Next]_vars
  PROVE  LInv(w)'
<1>1. IInv'
  BY NextIInv DEF LInv
<1>2. SUFFICES Order(w)'
  BY <1>1 DEF LInv
<1>3. CASE TaskStep /\ UNCHANGED <<mutexVars, IsWaiting>>
  <2>1. Others
    BY <1>3 DEF Others
  <2>2. CASE \E t \in Tasks, p \in Prios : TaskRun(t, p)
    BY <2>1, <2>2, TaskRunOrders
  <2>3. CASE \E t \in Tasks : TaskResume(t) \/ TaskResumeISR(t)
    BY <2>1, <2>3, TaskResumeOrders, TaskResumeISROrders
  <2>4. CASE \E t \in Tasks \cup {NULL} :
               TaskSuspend(t) \/ (\E p \in Prios : TaskPrioritySet(t, p))
    BY <2>1, <2>4, TaskSuspendOrders, TaskPrioritySetOrders
  <2>5. CASE \E evs \in SUBSET Events : TaskWait(evs) \/ TaskNotify(evs)
    BY <2>1, <2>5, NoSuchSteps, TaskNotifyOrders
  <2>6. CASE TaskYield \/ IntrDisable \/ IntrEnable \/ FinishCall \/ FinishWait
    BY <2>1, <2>6, TaskYieldOrders, QuietSteps, NoSuchSteps
  <2>7. CASE NotifyNext \/ NotifyReturn
    BY <2>1, <2>7, NotifyPassesOrders, NotifyWakesOrders, NotifyReturnOrders
  <2>8. CASE EnterIntr \/ LeaveIntr \/ IdleWakeup
    BY <2>1, <2>8, QuietSteps, LeaveIntrOrders, IdleWakeupOrders
  <2>9. QED
    BY <1>3, <2>2, <2>3, <2>4, <2>5, <2>6, <2>7, <2>8 DEF TaskStep
<1>4. CASE MutexStep /\ UNCHANGED IsWaiting
  BY <1>4, MutexLockOrders, MutexUnlockOrders DEF MutexStep
<1>5. CASE VBlankStep /\ UNCHANGED mutexVars
  BY <1>5, TaskWaitVBlankOrders, FinishWaitVBlankOrders, VBlankWakeupHandlerOrders
     DEF VBlankStep
<1>6. CASE UNCHANGED vars
  BY <1>6, StutterOrders
<1>7. QED
  BY <1>3, <1>4, <1>5, <1>6 DEF Next

LEMMA OrderInvariance ==
  ASSUME NEW w \in Tasks, ClientRules(w)
  PROVE  Spec => []LInv(w)
<1>1. LInv(w) /\ [Next]_vars => LInv(w)'
  BY NextOrder
<1>2. Init => LInv(w)
  BY InitOrder
<1>3. QED
  BY <1>1, <1>2, PTL DEF Spec

-----------------------------------------------------------------------------
(* What Order says of the definitions that the runs check.                  *)
LEMMA Whereabouts ==
  ASSUME NEW w \in Tasks, LInv(w)
  PROVE  LET on == Where(state, pc, Runner)
         IN  /\ on \in Places /\ Lists(tq, on) /\ Sorted(tq, on, prio) /\ tq \in TQ!Heap
             /\ \A t \in Tasks, l \in Heads : On(t, l) <=> on[t] = l
BY OrderTypes, WhereIs, MembersAre DEF Placed, On

(* Where nobody waits for an event, every ready task is on ReadyList or     *)
(* runs, every sleeping task on the list of one mutex, and no task on two  *)
(* lists.  A task woken from TaskWaitVBlank would stay on WaitList.        *)
THEOREM StatesMatchLists ==
  ASSUME NEW w \in Tasks, ClientRules(w), NobodyWaits
  PROVE  Spec => []StateMatchesLists
<1>1. ASSUME LInv(w) PROVE StateMatchesLists
  <2> DEFINE on == Where(state, pc, Runner)
             lists(t) == {l \in Mutexes \cup {ReadyList, WaitList} : On(t, l)}
  <2>1. \A t \in Tasks : ~On(t, WaitList)
    <3>1. tq \in TQ!Heap /\ tq.next[WaitList] = NULL
      BY <1>1, OrderTypes DEF Awaits
    <3>2. TQ!Members(tq, WaitList) = {}
      BY <3>1, EmptyWalk, Distinct
    <3>3. QED
      BY <3>2 DEF On
  <2>2. \A t \in Tasks : lists(t) = {l \in Heads : on[t] = l}
    BY <1>1, <2>1, Whereabouts DEF Heads
  <2>3. ASSUME NEW t \in Tasks
        PROVE  /\ state[t] = "ready" =>
                    lists(t) = IF t = CurrentTask /\ mode = "run" THEN {} ELSE {ReadyList}
               /\ state[t] = "blocked" => Cardinality(lists(t)) = 1 /\ ReadyList \notin lists(t)
               /\ state[t] = "suspended" => lists(t) = {}
    <3>1. /\ CurrentTask \in Tasks /\ state \in States /\ Labelled(w, state, pc)
          /\ t = Runner <=> t = CurrentTask /\ mode = "run"
      BY <1>1, OrderTypes, NullNotTask DEF Runner
    <3>2. /\ state[t] = "ready" => on[t] = IF t = Runner THEN NULL ELSE ReadyList
          /\ state[t] = "blocked" => on[t] = pc[t] /\ pc[t] \in Mutexes
          /\ state[t] = "suspended" => on[t] = NULL
      <4>1. state[t] = "blocked" => pc[t] \in Mutexes
        BY <3>1 DEF Labelled
      <4>2. QED
        BY <3>1, <4>1, WhereIs
    <3>3. NULL \notin Heads /\ ReadyList \in Heads /\ ReadyList \notin Mutexes
          /\ Mutexes \subseteq Heads
      BY Distinct, ListsDistinct DEF Heads
    <3>4. lists(t) = {l \in Heads : on[t] = l}
      BY <2>2
    <3> HIDE DEF on, lists
    <3>5. state[t] = "blocked" => lists(t) = {pc[t]}
      BY <3>2, <3>3, <3>4
    <3>6. state[t] = "blocked" => Cardinality(lists(t)) = 1 /\ ReadyList \notin lists(t)
      BY <3>2, <3>3, <3>5, FS_Singleton
    <3>7. state[t] = "ready" => lists(t) = IF t = Runner THEN {} ELSE {ReadyList}
      BY <3>2, <3>3, <3>4
    <3>8. QED
      BY <3>1, <3>2, <3>3, <3>4, <3>6, <3>7
  <2>4. QED
    BY <2>3 DEF StateMatchesLists
<1>2. Spec => []LInv(w)
  BY OrderInvariance
<1>3. QED
  BY <1>1, <1>2, PTL

(* The one node of each task leads the lists astray nowhere, and ReadyList  *)
(* stays sorted by priority, whatever wakes the task that waits.            *)
THEOREM ListsStaySound ==
  ASSUME NEW w \in Tasks, ClientRules(w)
  PROVE  Spec => []ListsSound
<1>1. ASSUME LInv(w) PROVE ListsSound
  <2> DEFINE on == Where(state, pc, Runner)
             at == TQ!Nth(tq, ReadyList)
  <2>1. on \in Places /\ Lists(tq, on) /\ Sorted(tq, on, prio) /\ tq \in TQ!Heap
    BY <1>1, Whereabouts
  <2> HIDE DEF on
  <2>2. \A l \in Mutexes \cup {ReadyList} : TQ!WellFormed(tq, l)
    BY <2>1, ListIsWellFormed DEF Heads
  <2>3. ASSUME NEW n \in 0..(Cardinality(Tasks) - 1), at[n + 1] # NULL
        PROVE  prio[at[n]] <= prio[at[n + 1]]
    <3>1. /\ n \in 0..NTasks /\ n + 1 \in 0..NTasks /\ n + 1 > 0
          /\ (n + 1) - 1 = n /\ n < n + 1
      BY NTasksType
    <3>2. at[n + 1] = IF at[n] = NULL THEN NULL ELSE tq.next[at[n]]
      BY <2>1, <3>1, Walk, ReadyHead, HeadsAreSlots
    <3>3. at[n] # NULL /\ at[n + 1] = tq.next[at[n]]
      BY <2>3, <3>2
    <3>4. at[n] \in Tasks /\ on[at[n]] = ReadyList
      BY <2>1, <3>1, <3>3, WalkGrows, ReadyHead DEF Lists
    <3>5. QED
      BY <2>1, <2>3, <3>3, <3>4 DEF Sorted
  <2>4. QED
    BY <2>2, <2>3 DEF ListsSound
<1>2. Spec => []LInv(w)
  BY OrderInvariance
<1>3. QED
  BY <1>1, <1>2, PTL

(* A task runs its own code only while no ready task is of higher priority, *)
(* but for one that MutexUnlock woke.                                       *)
THEOREM HighestRuns ==
  ASSUME NEW w \in Tasks, ClientRules(w)
  PROVE  Spec => []HighestPriorityRuns
<1>1. ASSUME LInv(w) PROVE HighestPriorityRuns
  <2>1. SUFFICES ASSUME InTask, NEW t \in Tasks, On(t, ReadyList), prio[t] < prio[CurrentTask]
                 PROVE  pc[t] \in Mutexes
    BY DEF HighestPriorityRuns
  <2>2. Highest(state, pc, CurrentTask, prio)
    BY <1>1, <2>1, TaskTypes
  <2>3. Where(state, pc, Runner)[t] = ReadyList
    BY <1>1, <2>1, Whereabouts, ReadyHead
  <2>4. state[t] = "ready"
    BY <1>1, <2>3, OrderTypes, WhereIs
  <2>5. QED
    BY <2>1, <2>2, <2>4 DEF Highest
<1>2. Spec => []LInv(w)
  BY OrderInvariance
<1>3. QED
  BY <1>1, <1>2, PTL

(* Nobody sleeps on a free mutex for good: a task woken before is still to  *)
(* take it, whatever other tasks took and left the mutex meanwhile.         *)
THEOREM FreeMutexWakes ==
  ASSUME NEW w \in Tasks, ClientRules(w)
  PROVE  Spec => []NoSleepOnFreeMutex
<1>1. ASSUME LInv(w) PROVE NoSleepOnFreeMutex
  <2> DEFINE on == Where(state, pc, Runner)
  <2>1. SUFFICES ASSUME NEW m \in Mutexes, TQ!First(tq, m) # NULL, owner[m] = NULL
                 PROVE  \E t \in Tasks : pc[t] = m /\ ~On(t, m)
    BY DEF NoSleepOnFreeMutex
  <2> DEFINE u == TQ!First(tq, m)
  <2>2. m \in Heads /\ m # NULL /\ m # ReadyList
    BY NullNotTask, ListsDistinct DEF Heads
  <2>3. /\ on \in Places /\ Lists(tq, on) /\ tq \in TQ!Heap
        /\ \A t \in Tasks : On(t, m) <=> on[t] = m
    BY <1>1, <2>2, Whereabouts
  <2>4. Wakeful(state, pc, owner)
    BY <1>1, OrderTypes
  <2>5. \A t \in Tasks : on[t] = m <=> state[t] = "blocked" /\ pc[t] = m
    BY <2>2 DEF Where
  <2> HIDE DEF on
  <2>6. u \in Tasks /\ on[u] = m
    BY <2>1, <2>2, <2>3, FirstOfList DEF TQ!First
  <2>7. PICK t \in Tasks : pc[t] = m /\ state[t] # "blocked"
    BY <2>1, <2>4, <2>5, <2>6 DEF Wakeful
  <2>8. QED
    BY <2>3, <2>5, <2>7
<1>2. Spec => []LInv(w)
  BY OrderInvariance
<1>3. QED
  BY <1>1, <1>2, PTL

(* No task sleeps in TaskWaitVBlank unknown to the interrupt server, be the *)
(* processor idle or not, and however far the loop of _TaskNotify went     *)
(* before it was left: there is no wakeup to be lost.                      *)
THEOREM SleepersAnnounced ==
  ASSUME NEW w \in Tasks, ClientRules(w)
  PROVE  Spec => []VBlankSleepersAnnounced
<1>1. ASSUME LInv(w) PROVE VBlankSleepersAnnounced
  <2>1. SUFFICES ASSUME notify = NoNotify, ~IsWaiting, NEW t \in Tasks,
                        pc[t] = "vblank", state[t] = "blocked"
                 PROVE  FALSE
    BY DEF VBlankSleepersAnnounced
  <2>2. t = w
    BY <1>1, <2>1, OrderTypes DEF Labelled
  <2>3. Asleep(w, state, pc) /\ ~Waking(w)
    BY <2>1, <2>2 DEF Asleep, Waking, NoNotify
  <2>4. QED
    BY <1>1, <2>1, <2>3 DEF LInv, Order, Alarm
<1>2. Spec => []LInv(w)
  BY OrderInvariance
<1>3. QED
  BY <1>1, <1>2, PTL
=============================================================================
