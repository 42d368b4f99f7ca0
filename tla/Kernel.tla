------------------------------- MODULE Kernel -------------------------------
(***************************************************************************)
(* The scheduler with the mutexes and the vertical blank wait that are     *)
(* built on it, and what they promise their callers.                       *)
(***************************************************************************)
EXTENDS Mutex, VBlank

vars == <<taskVars, mutexVars, IsWaiting>>

Init == TaskInit /\ MutexInit /\ VBlankInit

Next ==
  \/ TaskStep /\ UNCHANGED <<mutexVars, IsWaiting>>
  \/ MutexStep /\ UNCHANGED IsWaiting
  \/ VBlankStep /\ UNCHANGED mutexVars

Spec == Init /\ [][Next]_vars

(* The processor goes on with what it has begun, and client code does not   *)
(* keep interrupts disabled for good.  The vertical blank comes again and  *)
(* again, and its request stays pending while IPL masks it.  Service        *)
(* routines end, and leave the processor time: the outermost one ends      *)
(* although others interrupt it, and so does the loop of an idle processor.*)
Fairness ==
  /\ WF_vars(NotifyNext /\ UNCHANGED <<mutexVars, IsWaiting>>)
  /\ WF_vars(NotifyReturn /\ UNCHANGED <<mutexVars, IsWaiting>>)
  /\ WF_vars(IntrEnable /\ UNCHANGED <<mutexVars, IsWaiting>>)
  /\ WF_vars(FinishCall /\ UNCHANGED <<mutexVars, IsWaiting>>)
  /\ WF_vars(FinishWait /\ UNCHANGED <<mutexVars, IsWaiting>>)
  /\ WF_vars(FinishWaitVBlank /\ UNCHANGED mutexVars)
  /\ SF_vars(IdleWakeup /\ UNCHANGED <<mutexVars, IsWaiting>>)
  /\ WF_vars(LeaveIntr /\ UNCHANGED <<mutexVars, IsWaiting>>)
  /\ SF_vars(depth = 1 /\ LeaveIntr /\ UNCHANGED <<mutexVars, IsWaiting>>)
  /\ SF_vars(EnterIntr /\ UNCHANGED <<mutexVars, IsWaiting>>)
  /\ SF_vars(VBlankWakeupHandler /\ UNCHANGED mutexVars)

FairSpec == Spec /\ Fairness

(* Clients that the scheduler keeps its promises to.                       *)
NobodyWaits == \A t \in Tasks : <<t, "vblank", NULL>> \notin Calls

(* The main task neither sleeps nor is suspended: there always is a task   *)
(* to run.                                                                 *)
MainStays ==
  /\ \A t \in Tasks : <<t, "suspend", Main>> \notin Calls
  /\ <<Main, "suspend", NULL>> \notin Calls /\ <<Main, "vblank", NULL>> \notin Calls
  /\ \A m \in Mutexes : <<Main, "lock", m>> \notin Calls

(* No task but w ever stops, so that an idle processor is on the stack of  *)
(* w, and service routines only notify: the task they wake then is w.      *)
OthersStay(w) ==
  /\ IsrCalls = {}
  /\ \A t \in Tasks \ {w} : /\ <<t, "suspend", NULL>> \notin Calls
                            /\ \A u \in Tasks : <<u, "suspend", t>> \notin Calls
                            /\ \A m \in Mutexes : <<t, "lock", m>> \notin Calls

(* At most one task, w, waits for the vertical blank, and nobody for any   *)
(* other event: a task woken stays on WaitList, which one more would find  *)
(* it on.  Tasks do not send the event of the vertical blank.  No task     *)
(* suspends itself by name, or sets its own priority, by name or by NULL:  *)
(* it is not on the ReadyList that it would be removed from, or added to   *)
(* while it runs.                                                          *)
ClientRules(w) ==
  /\ \A t \in Tasks : \A evs \in SUBSET Events : <<t, "wait", evs>> \notin Calls
  /\ \A t \in Tasks \ {w} : <<t, "vblank", NULL>> \notin Calls
  /\ NobodyWaits \/ \A t \in Tasks : \A evs \in SUBSET Events :
                      INTF_VERTB \in evs => <<t, "notify", evs>> \notin Calls
  /\ \A t \in Tasks : <<t, "suspend", t>> \notin Calls
  /\ \A t \in Tasks, p \in Prios :
       <<t, "prio", <<t, p>>>> \notin Calls /\ <<t, "prio", <<NULL, p>>>> \notin Calls
  /\ MainStays \/ OthersStay(w)

-----------------------------------------------------------------------------
(* Every variable keeps to its type.                                        *)
TypeOK == TaskTypeOK /\ MutexTypeOK /\ IsWaiting \in BOOLEAN

On(t, l) == t \in TQ!Members(tq, l)

(* ReadyAdd, ReadyChoose, TaskSuspend, TaskPrioritySet and the mutexes link *)
(* one node of a task into several lists: whatever order they are called   *)
(* in, every list stays well formed and ReadyList sorted by priority.      *)
ListsSound ==
  /\ \A l \in Mutexes \cup {ReadyList} : TQ!WellFormed(tq, l)
  /\ LET at == TQ!Nth(tq, ReadyList)
     IN  \A n \in 0..(Cardinality(Tasks) - 1) :
           at[n + 1] # NULL => prio[at[n]] <= prio[at[n + 1]]

(* task.h on the TS_ constants: a ready task is either running or on        *)
(* ReadyList, a blocked task on one blocked list, a suspended task on none.*)
StateMatchesLists ==
  \A t \in Tasks :
    LET lists == {l \in Mutexes \cup {ReadyList, WaitList} : On(t, l)}
    IN  /\ state[t] = "ready" =>
             lists = IF t = CurrentTask /\ mode = "run" THEN {} ELSE {ReadyList}
        /\ state[t] = "blocked" => Cardinality(lists) = 1 /\ ReadyList \notin lists
        /\ state[t] = "suspended" => lists = {}

(* The interrupt mask goes with the task: a task that holds IntrDisable     *)
(* runs at IPL 7 even if it gave up the processor in between, and no other *)
(* task inherits the mask.                                                 *)
MaskMatchesNesting ==
  /\ mode = "run" => (ipl = 7 <=> intrNest[CurrentTask] > 0)
  /\ \A t \in Tasks : ctx[t] = "code" => (savedIPL[t] = 7 <=> intrNest[t] > 0)

(* A task runs its own code only if no ready task is of higher priority,    *)
(* but for one that MutexUnlock woke, which does not preempt.              *)
HighestPriorityRuns ==
  InTask /\ ipl = 0 =>
    \A t \in Tasks : On(t, ReadyList) /\ prio[t] < prio[CurrentTask] => pc[t] \in Mutexes

(* No two tasks are between MutexLock and MutexUnlock of one mutex, though  *)
(* a woken waiter finds the mutex free or taken by a third task.           *)
MutualExclusion ==
  \A m \in Mutexes, t, u \in Tasks : m \in held[t] /\ m \in held[u] => t = u

(* A mutex with sleepers is owned, or a task that left its wait list is on  *)
(* its way to take it: nobody sleeps on a free mutex for good.             *)
NoSleepOnFreeMutex ==
  \A m \in Mutexes :
    TQ!First(tq, m) # NULL /\ owner[m] = NULL =>
      \E t \in Tasks : pc[t] = m /\ ~On(t, m)

(* No task is asleep in TaskWaitVBlank while IsWaiting is clear and         *)
(* interrupts can come: the handler would not wake it.                     *)
VBlankSleepersAnnounced ==
  notify = NoNotify /\ ~IsWaiting =>
    \A t \in Tasks : ~(pc[t] = "vblank" /\ state[t] = "blocked")

(* A loop of _TaskNotify, at IPL 7, comes to an end.                        *)
NotifyEnds == notify # NoNotify ~> notify = NoNotify

(* A task that sleeps in TaskWaitVBlank gets back to its own code.          *)
VBlankWaitReturns == \A t \in Tasks : pc[t] = "vblank" ~> pc[t] = "run"
=============================================================================
