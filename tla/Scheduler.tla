----------------------------- MODULE Scheduler -----------------------------
(***************************************************************************)
(* The task scheduler: system/kernel/task.c, the nesting of interrupt      *)
(* masks (IntrEnable, IntrDisable of interrupt.c) and the context switch   *)
(* and interrupt exit of intr-entry.S, built with MULTITASK on one 68000.  *)
(*                                                                         *)
(* With interrupts masked nobody but the running task takes a step, so the *)
(* code between IntrDisable and the TaskYield or IntrEnable that follows   *)
(* is one action.  What a task does after TaskYield is an action of its    *)
(* own, enabled when the task runs again: pc says which.  The loop of      *)
(* _TaskNotify, which need not end, takes one action for each iteration.   *)
(*                                                                         *)
(* Assume halts the machine when its argument is false: it is a guard, and *)
(* there is no step after a halt.  Likewise ReadyAdd takes no step on a    *)
(* ReadyList that goes in a cycle, where its loop would not end.           *)
(*                                                                         *)
(* Calls and IsrCalls are the client: which task may call which function,  *)
(* with which arguments, and what interrupt service routines may call.     *)
(***************************************************************************)
EXTENDS Naturals, FiniteSets

CONSTANTS Tasks, Main,           \* Main is the task that TaskInit finds running
          Mutexes,               \* whose wait lists link tasks, too (mutex.h)
          ReadyList, WaitList, NULL,
          Prios, Events,
          Calls,                 \* a set of <<task, operation, argument>>
          IsrCalls,              \* a set of <<operation, argument>>
          MaxNest,               \* bound: depth of the client's own IntrDisable
          MaxIntr                \* bound: depth of nested interrupts

ASSUME MainAssumption == Main \in Tasks
ASSUME TasksAssumption == IsFiniteSet(Tasks)
ASSUME NullNotTask == NULL \notin Tasks \cup Mutexes \cup {ReadyList, WaitList}
ASSUME ListsDistinct == /\ ReadyList # WaitList
                        /\ {ReadyList, WaitList} \cap Mutexes = {}
                        /\ Tasks \cap (Mutexes \cup {ReadyList, WaitList}) = {}
ASSUME LabelsDistinct == Mutexes \cap {"init", "run", "enable", "wait", "vblank"} = {}
ASSUME PriosAssumption == Prios \subseteq 0..255 /\ 0 \in Prios
ASSUME BoundsAssumption == MaxNest \in Nat /\ MaxIntr \in Nat

TQ == INSTANCE TailQueue WITH Elem <- Tasks,
                              List <- Mutexes \cup {ReadyList, WaitList}

VARIABLES
  CurrentTask,
  tq,              \* the links of all tasks and the heads of all lists
  state, prio, intrNest, eventSet,    \* the fields of TaskT
  pc,              \* where the code of a task goes on when it runs
  ctx, savedIPL,   \* the frame that currSP points to, and the IPL of its SR
  mode,            \* what the processor does on the stack of CurrentTask
  ipl,             \* 0 or 7: the IPL of the code that runs outside interrupts
  depth,           \* the number of interrupts being served
  NeedReschedule,
  notify           \* the cursor of the loop in _TaskNotify, or NoNotify

taskVars == <<CurrentTask, tq, state, prio, intrNest, eventSet, pc, ctx, savedIPL,
              mode, ipl, depth, NeedReschedule, notify>>

NoNotify == [tsk |-> NULL, events |-> {}, ntasks |-> 0]

(* Labels of pc: "init" from TaskInit to TaskRun, "run" client code, then   *)
(* the places behind a TaskYield: "enable" where only IntrEnable is left,  *)
(* "wait" in TaskWait, "vblank" in TaskWait called by TaskWaitVBlank, and  *)
(* a mutex for the loop of MutexLock on it.                                *)
Labels == {"init", "run", "enable", "wait", "vblank"} \cup Mutexes

TaskTypeOK ==
  /\ CurrentTask \in Tasks
  /\ tq \in TQ!Heap
  /\ state \in [Tasks -> {"ready", "blocked", "suspended"}]
  /\ prio \in [Tasks -> Prios]
  /\ intrNest \in [Tasks -> Nat]
  /\ eventSet \in [Tasks -> SUBSET Events]
  /\ pc \in [Tasks -> Labels]
  /\ ctx \in [Tasks -> {"none", "code", "idle"}]
  /\ savedIPL \in [Tasks -> {0, 7}]
  /\ mode \in {"run", "idle", "crash"}
  /\ ipl \in {0, 7}
  /\ depth \in Nat
  /\ NeedReschedule \in BOOLEAN
  /\ notify \in [tsk : Tasks \cup {NULL}, events : SUBSET Events, ntasks : {0, 1}]

(* TaskInit of every task; CurrentTask is the one that is running.          *)
TaskInit ==
  /\ CurrentTask = Main
  /\ tq = TQ!EmptyHeap
  /\ state = [t \in Tasks |-> IF t = Main THEN "ready" ELSE "suspended"]
  /\ prio = [t \in Tasks |-> 0]
  /\ intrNest = [t \in Tasks |-> 0]
  /\ eventSet = [t \in Tasks |-> {}]
  /\ pc = [t \in Tasks |-> IF t = Main THEN "run" ELSE "init"]
  /\ ctx = [t \in Tasks |-> "none"]
  /\ savedIPL = [t \in Tasks |-> 0]
  /\ mode = "run" /\ ipl = 0 /\ depth = 0
  /\ NeedReschedule = FALSE
  /\ notify = NoNotify

-----------------------------------------------------------------------------
(* The first task on ReadyList of a priority lower than that of tsk.  Note  *)
(* that 0 is the highest priority.                                         *)
LowerPrio(h, p, tsk) ==
  LET at == TQ!Nth(h, ReadyList)
      found == {e \in Tasks :
                  \E n \in DOMAIN at :
                    /\ at[n] = e /\ p[e] > p[tsk]
                    /\ \A k \in DOMAIN at : k < n => at[k] # NULL /\ p[at[k]] <= p[tsk]}
  IN  IF found = {} THEN NULL ELSE CHOOSE e \in found : TRUE

ReadyAdd(h, p, tsk) ==
  LET before == LowerPrio(h, p, tsk)
  IN  IF before = NULL THEN TQ!InsertTail(h, ReadyList, tsk)
                       ELSE TQ!InsertBefore(h, before, tsk)

ReadyAddEnds(h, p, tsk) == TQ!Ends(h, ReadyList) \/ LowerPrio(h, p, tsk) # NULL

(* Mistaken variant: 255 is taken for the highest priority.                 *)
ShouldPreemptLowest(h, p) ==
  LET first == TQ!First(h, ReadyList)
  IN  first # NULL /\ p[first] > p[CurrentTask]

(* The test of MaybePreempt and MaybePreemptISR.                            *)
ShouldPreempt(h, p) ==
  LET first == TQ!First(h, ReadyList)
  IN  first # NULL /\ p[first] < p[CurrentTask]

(* ReadyChoose in the loop of TaskSwitch, then LOADCTX of the task it finds:*)
(* h, c, lvl are the lists, frames and saved levels by then.  With nothing *)
(* to choose the processor stops at IPL 0, on the stack of CurrentTask.    *)
(* LOADCTX pops the frame: popped again, it would be garbage.              *)
Dispatch(h, c, lvl) ==
  LET tsk == TQ!First(h, ReadyList)
  IN  /\ savedIPL' = lvl
      /\ IF tsk = NULL
         THEN /\ mode' = "idle" /\ ipl' = 0
              /\ tq' = h /\ ctx' = c
              /\ UNCHANGED CurrentTask
         ELSE /\ CurrentTask' = tsk
              /\ tq' = TQ!Remove(h, ReadyList, tsk)
              /\ ctx' = [c EXCEPT ![tsk] = "none"]
              /\ ipl' = lvl[tsk]
              /\ mode' = IF c[tsk] = "code" THEN "run"
                       ELSE IF c[tsk] = "idle" THEN "idle" ELSE "crash"

(* YieldHandler: SAVECTX, TaskSwitch and LOADCTX, from code that runs at    *)
(* IPL level, with the states, priorities, lists, frames and saved levels  *)
(* that the caller has left.                                               *)
Yield(st, p, h, c, lvl, level) ==
  LET ready == st[CurrentTask] = "ready"
  IN  /\ ready => ReadyAddEnds(h, p, CurrentTask)
      /\ Dispatch(IF ready THEN ReadyAdd(h, p, CurrentTask) ELSE h,
                  [c EXCEPT ![CurrentTask] = IF mode = "run" THEN "code" ELSE "idle"],
                  [lvl EXCEPT ![CurrentTask] = level])

(* TaskYield under IntrDisable; the task will go on at label.               *)
YieldTo(label, st, p, h) ==
  /\ pc' = [pc EXCEPT ![CurrentTask] = label]
  /\ Yield(st, p, h, ctx, savedIPL, 7)

(* Mistaken variant: IntrEnable does not count.                             *)
EnableIPLUncounted(n) == 0

(* The IPL after IntrEnable when the nesting count was n.                   *)
EnableIPL(n) == IF n = 1 THEN 0 ELSE 7

(* IntrDisable, what follows it up to MaybePreempt (st, p, h, c, lvl and at *)
(* are its results), MaybePreempt and, if the task is not preempted,       *)
(* IntrEnable.                                                             *)
PreemptOrEnable(st, p, h, c, lvl, at) ==
  /\ state' = st /\ prio' = p
  /\ IF ShouldPreempt(h, p)
     THEN /\ intrNest' = [intrNest EXCEPT ![CurrentTask] = @ + 1]
          /\ pc' = [at EXCEPT ![CurrentTask] = "enable"]
          /\ Yield(st, p, h, c, lvl, 7)
     ELSE /\ tq' = h /\ ctx' = c /\ savedIPL' = lvl /\ pc' = at
          /\ ipl' = EnableIPL(intrNest[CurrentTask] + 1)
          /\ UNCHANGED <<CurrentTask, intrNest, mode>>

-----------------------------------------------------------------------------
(* Calls from a task.                                                      *)
InTask == mode = "run" /\ depth = 0 /\ notify = NoNotify

Asks(op, arg) ==
  /\ InTask /\ pc[CurrentTask] = "run"
  /\ <<CurrentTask, op, arg>> \in Calls

(* A first frame at IPL 0, then TaskResume.                                 *)
TaskRun(tsk, p) ==
  /\ Asks("run", <<tsk, p>>)
  /\ pc[tsk] = "init" /\ state[tsk] = "suspended"
  /\ LET q == [prio EXCEPT ![tsk] = p]
     IN  /\ ReadyAddEnds(tq, q, tsk)
         /\ PreemptOrEnable([state EXCEPT ![tsk] = "ready"], q, ReadyAdd(tq, q, tsk),
                            [ctx EXCEPT ![tsk] = "code"],
                            [savedIPL EXCEPT ![tsk] = 0],
                            [pc EXCEPT ![tsk] = "run"])
  /\ UNCHANGED <<eventSet, depth, NeedReschedule, notify>>

TaskResume(tsk) ==
  /\ Asks("resume", tsk)
  /\ pc[tsk] # "init" /\ state[tsk] = "suspended"
  /\ ReadyAddEnds(tq, prio, tsk)
  /\ PreemptOrEnable([state EXCEPT ![tsk] = "ready"], prio, ReadyAdd(tq, prio, tsk),
                     ctx, savedIPL, pc)
  /\ UNCHANGED <<eventSet, depth, NeedReschedule, notify>>

(* Mistaken variant: the suspended task stays on ReadyList.                 *)
TaskSuspendLinked(tsk) ==
  /\ Asks("suspend", tsk)
  /\ tsk # NULL => state[tsk] = "ready"
  /\ LET st == [state EXCEPT ![IF tsk = NULL THEN CurrentTask ELSE tsk] = "suspended"]
     IN  /\ state' = st
         /\ intrNest' = [intrNest EXCEPT ![CurrentTask] = @ + 1]
         /\ YieldTo("enable", st, prio, tq)
  /\ UNCHANGED <<prio, eventSet, depth, NeedReschedule, notify>>

(* With tsk = NULL the test of the state reads a byte of the exception     *)
(* vectors: it may pass.                                                   *)
TaskSuspend(tsk) ==
  /\ Asks("suspend", tsk)
  /\ tsk # NULL => state[tsk] = "ready"
  /\ LET self == IF tsk = NULL THEN CurrentTask ELSE tsk
         st == [state EXCEPT ![self] = "suspended"]
     IN  /\ state' = st
         /\ intrNest' = [intrNest EXCEPT ![CurrentTask] = @ + 1]
         /\ YieldTo("enable", st, prio,
                    IF tsk = NULL THEN tq ELSE TQ!Remove(tq, ReadyList, tsk))
  /\ UNCHANGED <<prio, eventSet, depth, NeedReschedule, notify>>

(* Mistaken variant: the task stays where it is on ReadyList.               *)
TaskPrioritySetInPlace(tsk, p) ==
  /\ Asks("prio", <<tsk, p>>)
  /\ tsk # NULL => state[tsk] = "ready"
  /\ LET q == [prio EXCEPT ![IF tsk = NULL THEN CurrentTask ELSE tsk] = p]
     IN  PreemptOrEnable(state, q, tq, ctx, savedIPL, pc)
  /\ UNCHANGED <<eventSet, depth, NeedReschedule, notify>>

TaskPrioritySet(tsk, p) ==
  /\ Asks("prio", <<tsk, p>>)
  /\ tsk # NULL => state[tsk] = "ready"
  /\ LET self == IF tsk = NULL THEN CurrentTask ELSE tsk
         h == IF tsk = NULL THEN tq ELSE TQ!Remove(tq, ReadyList, tsk)
         q == [prio EXCEPT ![self] = p]
     IN  /\ ReadyAddEnds(h, q, self)
         /\ PreemptOrEnable([state EXCEPT ![self] = "ready"], q, ReadyAdd(h, q, self),
                            ctx, savedIPL, pc)
  /\ UNCHANGED <<eventSet, depth, NeedReschedule, notify>>

(* TaskYield, called by client code.                                       *)
TaskYield ==
  /\ Asks("yield", NULL)
  /\ Yield(state, prio, tq, ctx, savedIPL, ipl)
  /\ UNCHANGED <<state, prio, intrNest, eventSet, pc, depth, NeedReschedule, notify>>

IntrDisable ==
  /\ Asks("disable", NULL)
  /\ intrNest[CurrentTask] < MaxNest
  /\ intrNest' = [intrNest EXCEPT ![CurrentTask] = @ + 1]
  /\ ipl' = 7
  /\ UNCHANGED <<CurrentTask, tq, state, prio, eventSet, pc, ctx, savedIPL, mode,
                 depth, NeedReschedule, notify>>

(* Mistaken variant: without Assume(IntrNest > 0).                          *)
EnableUnchecked(n) ==
  /\ intrNest' = [intrNest EXCEPT ![CurrentTask] = @ - n]
  /\ ipl' = IF intrNest[CurrentTask] = n THEN 0 ELSE 7
  /\ pc' = [pc EXCEPT ![CurrentTask] = "run"]
  /\ UNCHANGED <<CurrentTask, tq, state, prio, ctx, savedIPL, mode,
                 depth, NeedReschedule, notify>>

(* n calls of IntrEnable in a row, and on to client code.                   *)
EnableAndReturn(n) ==
  /\ intrNest[CurrentTask] >= n
  /\ intrNest' = [intrNest EXCEPT ![CurrentTask] = @ - n]
  /\ ipl' = IF intrNest[CurrentTask] = n THEN 0 ELSE 7
  /\ pc' = [pc EXCEPT ![CurrentTask] = "run"]
  /\ UNCHANGED <<CurrentTask, tq, state, prio, ctx, savedIPL, mode,
                 depth, NeedReschedule, notify>>

IntrEnable ==
  /\ Asks("enable", NULL)
  /\ EnableAndReturn(1)
  /\ UNCHANGED eventSet

(* What is left of a call when its TaskYield returns.                       *)
FinishCall ==
  /\ InTask /\ pc[CurrentTask] = "enable"
  /\ EnableAndReturn(1)
  /\ UNCHANGED eventSet

(* TaskWait(events), called with the mask nested extra times; the task     *)
(* will go on at label.                                                    *)
BlockOn(events, extra, label) ==
  /\ events # {}
  /\ LET st == [state EXCEPT ![CurrentTask] = "blocked"]
     IN  /\ state' = st
         /\ eventSet' = [eventSet EXCEPT ![CurrentTask] = events]
         /\ intrNest' = [intrNest EXCEPT ![CurrentTask] = @ + 1 + extra]
         /\ YieldTo(label, st, prio, TQ!InsertHead(tq, WaitList, CurrentTask))
  /\ UNCHANGED <<prio, depth, NeedReschedule, notify>>

TaskWait(events) ==
  /\ Asks("wait", events)
  /\ BlockOn(events, 0, "wait")

FinishWait ==
  /\ InTask /\ pc[CurrentTask] = "wait"
  /\ eventSet' = [eventSet EXCEPT ![CurrentTask] = {}]
  /\ EnableAndReturn(1)

-----------------------------------------------------------------------------
(* _TaskNotify: TaskNotify and TaskNotifyISR begin the loop over WaitList,  *)
(* NotifyNext is an iteration, NotifyReturn what follows the loop.         *)
BeginNotify(events) ==
  /\ events # {}
  /\ notify' = [tsk |-> TQ!First(tq, WaitList), events |-> events, ntasks |-> 0]

TaskNotify(events) ==
  /\ Asks("notify", events)
  /\ ipl = 0
  /\ BeginNotify(events)
  /\ intrNest' = [intrNest EXCEPT ![CurrentTask] = @ + 1]
  /\ ipl' = 7
  /\ UNCHANGED <<CurrentTask, tq, state, prio, eventSet, pc, ctx, savedIPL, mode,
                 depth, NeedReschedule>>

(* The task that is woken goes to ReadyList, and nothing takes it off       *)
(* WaitList; the loop follows the link that ReadyAdd has just written.     *)
NotifyNext ==
  /\ notify.tsk # NULL
  /\ LET tsk == notify.tsk
         match == eventSet[tsk] \cap notify.events
     IN  IF match = {}
         THEN /\ notify' = [notify EXCEPT !.tsk = tq.next[tsk]]
              /\ UNCHANGED <<tq, state, eventSet>>
         ELSE LET h == ReadyAdd(tq, prio, tsk)
              IN  /\ ReadyAddEnds(tq, prio, tsk)
                  /\ tq' = h
                  /\ state' = [state EXCEPT ![tsk] = "ready"]
                  /\ eventSet' = [eventSet EXCEPT ![tsk] = match]
                  /\ notify' = [notify EXCEPT !.tsk = h.next[tsk], !.ntasks = 1]
  /\ UNCHANGED <<CurrentTask, prio, intrNest, pc, ctx, savedIPL, mode, ipl, depth,
                 NeedReschedule>>

NotifyReturn ==
  /\ notify # NoNotify /\ notify.tsk = NULL
  /\ notify' = NoNotify
  /\ LET preempt == notify.ntasks > 0 /\ ShouldPreempt(tq, prio)
     IN  IF depth > 0
         THEN /\ NeedReschedule' = (NeedReschedule \/ preempt)
              /\ UNCHANGED <<CurrentTask, tq, intrNest, pc, ctx, savedIPL, mode, ipl>>
         ELSE /\ IF preempt
                 THEN /\ YieldTo("enable", state, prio, tq)
                      /\ UNCHANGED intrNest
                 ELSE /\ intrNest' = [intrNest EXCEPT ![CurrentTask] = @ - 1]
                      /\ ipl' = EnableIPL(intrNest[CurrentTask])
                      /\ UNCHANGED <<CurrentTask, tq, pc, ctx, savedIPL, mode>>
              /\ UNCHANGED NeedReschedule
  /\ UNCHANGED <<state, prio, eventSet, depth>>

-----------------------------------------------------------------------------
(* Interrupts.  A service routine runs at the level of its interrupt: one   *)
(* of a higher level nests.  Its calls raise the IPL to 7 while they last. *)
EnterIntr ==
  /\ mode # "crash" /\ ipl = 0 /\ notify = NoNotify
  /\ depth < MaxIntr
  /\ depth' = depth + 1
  /\ UNCHANGED <<CurrentTask, tq, state, prio, intrNest, eventSet, pc, ctx, savedIPL,
                 mode, ipl, NeedReschedule, notify>>

InIntr == depth > 0 /\ notify = NoNotify

TaskResumeISR(tsk) ==
  /\ InIntr /\ <<"resume", tsk>> \in IsrCalls
  /\ pc[tsk] # "init" /\ state[tsk] = "suspended"
  /\ ReadyAddEnds(tq, prio, tsk)
  /\ LET h == ReadyAdd(tq, prio, tsk)
     IN  /\ tq' = h
         /\ NeedReschedule' = (NeedReschedule \/ ShouldPreempt(h, prio))
  /\ state' = [state EXCEPT ![tsk] = "ready"]
  /\ UNCHANGED <<CurrentTask, prio, intrNest, eventSet, pc, ctx, savedIPL, mode, ipl,
                 depth, notify>>

(* Called by the interrupt servers of the drivers.                          *)
TaskNotifyISR(events) ==
  /\ InIntr
  /\ BeginNotify(events)
  /\ UNCHANGED <<CurrentTask, tq, state, prio, intrNest, eventSet, pc, ctx, savedIPL,
                 mode, ipl, depth, NeedReschedule>>

(* Only the outermost interrupt returns to IPL 0, and may switch tasks.     *)
LeaveIntr ==
  /\ InIntr
  /\ depth' = depth - 1
  /\ IF depth = 1 /\ NeedReschedule
     THEN /\ NeedReschedule' = FALSE
          /\ Yield(state, prio, tq, ctx, savedIPL, 0)
     ELSE UNCHANGED <<CurrentTask, tq, ctx, savedIPL, mode, ipl, NeedReschedule>>
  /\ UNCHANGED <<state, prio, intrNest, eventSet, pc, notify>>

(* After an interrupt the loop in TaskSwitch looks at ReadyList again.      *)
IdleWakeup ==
  /\ mode = "idle" /\ depth = 0
  /\ TQ!First(tq, ReadyList) # NULL
  /\ Dispatch(tq, ctx, savedIPL)
  /\ UNCHANGED <<state, prio, intrNest, eventSet, pc, depth, NeedReschedule, notify>>

TaskStep ==
  \/ \E t \in Tasks, p \in Prios : TaskRun(t, p)
  \/ \E t \in Tasks : TaskResume(t) \/ TaskResumeISR(t)
  \/ \E t \in Tasks \cup {NULL} : TaskSuspend(t) \/ (\E p \in Prios : TaskPrioritySet(t, p))
  \/ \E evs \in SUBSET Events : TaskWait(evs) \/ TaskNotify(evs)
  \/ TaskYield \/ IntrDisable \/ IntrEnable
  \/ FinishCall \/ FinishWait
  \/ NotifyNext \/ NotifyReturn
  \/ EnterIntr \/ LeaveIntr \/ IdleWakeup
=============================================================================
