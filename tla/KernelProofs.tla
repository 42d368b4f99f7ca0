---------------------------- MODULE KernelProofs ----------------------------
(***************************************************************************)
(* What Kernel keeps for every set of tasks, priorities, events, mutexes   *)
(* and clients.  Nothing here depends on the shape of the lists, which the *)
(* client and _TaskNotify can spoil, only on the types of their links.     *)
(***************************************************************************)
EXTENDS Kernel, TLAPS

Links == [Tasks -> {"none", "code", "idle"}]

(* The tail queue operators map heaps to heaps.                             *)
LEMMA InsertHeadType ==
  ASSUME NEW h \in TQ!Heap, NEW l \in TQ!Slot, NEW t \in Tasks
  PROVE  TQ!InsertHead(h, l, t) \in TQ!Heap
BY DEF TQ!InsertHead, TQ!Heap, TQ!Slot

LEMMA InsertTailType ==
  ASSUME NEW h \in TQ!Heap, NEW l \in TQ!Slot, NEW t \in Tasks
  PROVE  TQ!InsertTail(h, l, t) \in TQ!Heap
BY DEF TQ!InsertTail, TQ!Heap, TQ!Slot

LEMMA InsertBeforeType ==
  ASSUME NEW h \in TQ!Heap, NEW x \in Tasks, NEW t \in Tasks
  PROVE  TQ!InsertBefore(h, x, t) \in TQ!Heap
BY DEF TQ!InsertBefore, TQ!Heap, TQ!Slot

LEMMA RemoveType ==
  ASSUME NEW h \in TQ!Heap, NEW l \in TQ!Slot, NEW t \in Tasks
  PROVE  TQ!Remove(h, l, t) \in TQ!Heap
BY DEF TQ!Remove, TQ!Heap, TQ!Slot

LEMMA FirstType ==
  ASSUME NEW h \in TQ!Heap, NEW l \in TQ!Slot
  PROVE  TQ!First(h, l) \in Tasks \cup {NULL}
BY DEF TQ!First, TQ!Heap

LEMMA ListIsSlot ==
  /\ ReadyList \in TQ!Slot /\ WaitList \in TQ!Slot
  /\ \A m \in Mutexes : m \in TQ!Slot
BY DEF TQ!Slot

LEMMA ReadyAddType ==
  ASSUME NEW h \in TQ!Heap, NEW p, NEW t \in Tasks
  PROVE  ReadyAdd(h, p, t) \in TQ!Heap
<1>1. LowerPrio(h, p, t) \in Tasks \cup {NULL}
  BY DEF LowerPrio
<1>2. QED
  BY <1>1, InsertTailType, InsertBeforeType, ListIsSlot DEF ReadyAdd

-----------------------------------------------------------------------------
Levels == [Tasks -> {0, 7}]

(* Every saved frame of task code has IPL 7 in it just if its task, whose   *)
(* nesting count is in n, holds IntrDisable.                               *)
SavedMasks(c, lvl, n) == \A t \in Tasks : c[t] = "code" => (lvl[t] = 7 <=> n[t] > 0)

(* The variables that a task switch assigns; LOADCTX has popped the frame   *)
(* of the task that runs.                                                  *)
SwitchTypes ==
  /\ CurrentTask \in Tasks /\ tq \in TQ!Heap /\ ctx \in Links /\ savedIPL \in Levels
  /\ mode \in {"run", "idle", "crash"} /\ ipl \in {0, 7}
  /\ mode = "run" => ctx[CurrentTask] = "none"

(* A switch goes to a task whose frame was saved, at the level saved in it. *)
LEMMA DispatchSwitches ==
  ASSUME CurrentTask \in Tasks,
         NEW h \in TQ!Heap, NEW c \in Links, NEW lvl \in Levels,
         Dispatch(h, c, lvl)
  PROVE  /\ SwitchTypes'
         /\ savedIPL' = lvl
         /\ \A t \in Tasks : ctx'[t] = "code" => c[t] = "code"
         /\ mode' = "run" => c[CurrentTask'] = "code" /\ ipl' = lvl[CurrentTask']
<1>1. TQ!First(h, ReadyList) \in Tasks \cup {NULL}
  BY FirstType, ListIsSlot
<1>2. CASE TQ!First(h, ReadyList) = NULL
  BY <1>2 DEF Dispatch, SwitchTypes
<1>3. CASE TQ!First(h, ReadyList) # NULL
  <2> DEFINE tsk == TQ!First(h, ReadyList)
  <2>1. tsk \in Tasks
    BY <1>1, <1>3
  <2>2. TQ!Remove(h, ReadyList, tsk) \in TQ!Heap
    BY <2>1, RemoveType, ListIsSlot
  <2>3. /\ CurrentTask' = tsk /\ tq' = TQ!Remove(h, ReadyList, tsk)
        /\ ctx' = [c EXCEPT ![tsk] = "none"] /\ ipl' = lvl[tsk] /\ savedIPL' = lvl
        /\ mode' = IF c[tsk] = "code" THEN "run"
                       ELSE IF c[tsk] = "idle" THEN "idle" ELSE "crash"
    BY <1>3 DEF Dispatch
  <2>4. c[tsk] \in {"none", "code", "idle"}
    BY <2>1 DEF Links
  <2>5. mode' \in {"run", "idle", "crash"} /\ (mode' = "run" => c[tsk] = "code")
    BY <2>3, <2>4
  <2> HIDE DEF tsk
  <2>6. QED
    BY <2>1, <2>2, <2>3, <2>5 DEF SwitchTypes, Links, Levels
<1>4. QED
  BY <1>2, <1>3

(* After SAVECTX and a switch the masks still go with their tasks, if the   *)
(* running task was at the level that its nesting count demands.           *)
LEMMA YieldKeepsMasks ==
  ASSUME CurrentTask \in Tasks,
         NEW st, NEW p, NEW h \in TQ!Heap, NEW c \in Links, NEW lvl \in Levels,
         NEW level \in {0, 7},
         Yield(st, p, h, c, lvl, level),
         intrNest' \in [Tasks -> Nat],
         \A t \in Tasks \ {CurrentTask} : c[t] = "code" => (lvl[t] = 7 <=> intrNest'[t] > 0),
         mode = "run" => (level = 7 <=> intrNest'[CurrentTask] > 0)
  PROVE  SwitchTypes' /\ MaskMatchesNesting'
<1> DEFINE frames == [c EXCEPT ![CurrentTask] = IF mode = "run" THEN "code" ELSE "idle"]
           levels == [lvl EXCEPT ![CurrentTask] = level]
           heap == IF st[CurrentTask] = "ready" THEN ReadyAdd(h, p, CurrentTask) ELSE h
<1>1. frames \in Links /\ levels \in Levels
  BY DEF Links, Levels
<1>2. heap \in TQ!Heap
  BY ReadyAddType
<1>3. Dispatch(heap, frames, levels)
  BY DEF Yield
<1>4. \A t \in Tasks : frames[t] = "code" => (levels[t] = 7 <=> intrNest'[t] > 0)
  BY DEF Links, Levels
<1> HIDE DEF frames, levels, heap
<1>5. /\ SwitchTypes' /\ savedIPL' = levels
      /\ \A t \in Tasks : ctx'[t] = "code" => frames[t] = "code"
      /\ mode' = "run" => frames[CurrentTask'] = "code" /\ ipl' = levels[CurrentTask']
  BY <1>1, <1>2, <1>3, DispatchSwitches
<1>6. QED
  BY <1>4, <1>5 DEF MaskMatchesNesting, SwitchTypes

-----------------------------------------------------------------------------
(* The inductive invariant: a task keeps the mask while it is in a call     *)
(* that raised it, and interrupts are served only with IPL 0 below them.   *)
LabelsNested ==
  \A t \in Tasks : /\ pc[t] = "init" => intrNest[t] = 0
                   /\ pc[t] \in Mutexes => intrNest[t] > 0

NotifyMasked ==
  notify # NoNotify /\ depth = 0 =>
    mode = "run" /\ pc[CurrentTask] = "run" /\ intrNest[CurrentTask] > 0

IntrUnmasked == depth > 0 => ipl = 0

HoldersOwn == \A m \in Mutexes, t \in Tasks : m \in held[t] => owner[m] = t

IInv ==
  /\ TypeOK /\ SwitchTypes /\ MaskMatchesNesting
  /\ LabelsNested /\ NotifyMasked /\ IntrUnmasked /\ HoldersOwn

THEOREM InitIInv == Init => IInv
<1> SUFFICES ASSUME Init PROVE IInv
  OBVIOUS
<1> USE DEF Init, TaskInit, MutexInit, VBlankInit
<1>1. TypeOK
  <2>1. TQ!EmptyHeap \in TQ!Heap
    BY NullNotTask DEF TQ!EmptyHeap, TQ!Heap, TQ!Slot
  <2>2. NoNotify \in [tsk : Tasks \cup {NULL}, events : SUBSET Events, ntasks : {0, 1}]
    BY DEF NoNotify
  <2>3. QED
    BY <2>1, <2>2, MainAssumption, PriosAssumption
    DEF TypeOK, TaskTypeOK, MutexTypeOK, Labels
<1>2. MaskMatchesNesting
  BY MainAssumption DEF MaskMatchesNesting
<1>3. LabelsNested
  BY LabelsDistinct DEF LabelsNested
<1>4. NotifyMasked /\ IntrUnmasked /\ HoldersOwn
  BY DEF NotifyMasked, IntrUnmasked, HoldersOwn
<1>5. SwitchTypes
  BY <1>1 DEF SwitchTypes, TypeOK, TaskTypeOK, Links, Levels
<1>6. QED
  BY <1>1, <1>2, <1>3, <1>4, <1>5 DEF IInv

(* What is left to show of the actions that a task takes outside interrupts *)
(* and _TaskNotify, once the switch of tasks is accounted for.             *)
States == [Tasks -> {"ready", "blocked", "suspended"}]

Switched ==
  /\ SwitchTypes /\ MaskMatchesNesting /\ LabelsNested
  /\ intrNest \in [Tasks -> Nat] /\ pc \in [Tasks -> Labels]

LEMMA TaskCallKeeps ==
  ASSUME IInv, InTask, Switched',
         state' \in States, prio' \in [Tasks -> Prios],
         eventSet' \in [Tasks -> SUBSET Events],
         UNCHANGED <<depth, NeedReschedule, notify>>,
         MutexTypeOK', HoldersOwn', IsWaiting' \in BOOLEAN
  PROVE  IInv'
<1>1. TypeOK'
  BY DEF IInv, TypeOK, TaskTypeOK, Switched, SwitchTypes, Links, Levels, States
<1>2. NotifyMasked' /\ IntrUnmasked'
  BY DEF InTask, NotifyMasked, IntrUnmasked
<1>3. QED
  BY <1>1, <1>2 DEF IInv, Switched

(* Types of the state an action starts from, for the lemmas below.          *)
LEMMA IInvTypes ==
  ASSUME IInv
  PROVE  /\ CurrentTask \in Tasks /\ tq \in TQ!Heap /\ state \in States
         /\ prio \in [Tasks -> Prios] /\ intrNest \in [Tasks -> Nat]
         /\ eventSet \in [Tasks -> SUBSET Events] /\ pc \in [Tasks -> Labels]
         /\ ctx \in Links /\ savedIPL \in Levels
         /\ owner \in [Mutexes -> Tasks \cup {NULL}] /\ held \in [Tasks -> SUBSET Mutexes]
         /\ MutexTypeOK /\ HoldersOwn /\ IsWaiting \in BOOLEAN
         /\ SavedMasks(ctx, savedIPL, intrNest)
BY DEF IInv, TypeOK, TaskTypeOK, MutexTypeOK, Links, Levels, States,
       MaskMatchesNesting, SavedMasks

(* The common end of TaskRun, TaskResume and TaskPrioritySet.               *)
LEMMA PreemptOrEnableKeeps ==
  ASSUME IInv, InTask,
         NEW st, NEW p, NEW h \in TQ!Heap, NEW c \in Links, NEW lvl \in Levels,
         NEW at \in [Tasks -> Labels],
         SavedMasks(c, lvl, intrNest), c[CurrentTask] = "none",
         \A t \in Tasks : at[t] = pc[t] \/ at[t] = "run",
         PreemptOrEnable(st, p, h, c, lvl, at)
  PROVE  Switched' /\ state' = st /\ prio' = p
<1>0. CurrentTask \in Tasks /\ intrNest \in [Tasks -> Nat] /\ mode = "run"
  BY IInvTypes DEF InTask
<1>1. CASE ShouldPreempt(h, p)
  <2>1. /\ intrNest' = [intrNest EXCEPT ![CurrentTask] = @ + 1]
        /\ pc' = [at EXCEPT ![CurrentTask] = "enable"]
        /\ Yield(st, p, h, c, lvl, 7)
    BY <1>1 DEF PreemptOrEnable
  <2>2. intrNest' \in [Tasks -> Nat] /\ pc' \in [Tasks -> Labels] /\ intrNest'[CurrentTask] > 0
    BY <1>0, <2>1 DEF Labels
  <2>3. \A t \in Tasks \ {CurrentTask} : c[t] = "code" => (lvl[t] = 7 <=> intrNest'[t] > 0)
    BY <1>0, <2>1 DEF SavedMasks
  <2>4. SwitchTypes' /\ MaskMatchesNesting'
    BY <1>0, <2>1, <2>2, <2>3, YieldKeepsMasks
  <2>5. LabelsNested'
    BY <1>0, <2>1, LabelsDistinct DEF IInv, LabelsNested
  <2>6. QED
    BY <2>2, <2>4, <2>5 DEF Switched, PreemptOrEnable
<1>2. CASE ~ShouldPreempt(h, p)
  <2>1. /\ tq' = h /\ ctx' = c /\ savedIPL' = lvl /\ pc' = at
        /\ ipl' = EnableIPL(intrNest[CurrentTask] + 1)
        /\ UNCHANGED <<CurrentTask, intrNest, mode>>
    BY <1>2 DEF PreemptOrEnable
  <2>2. SwitchTypes' /\ MaskMatchesNesting'
    BY <1>0, <2>1 DEF SwitchTypes, MaskMatchesNesting, SavedMasks, EnableIPL
  <2>3. LabelsNested'
    BY <1>0, <2>1, LabelsDistinct DEF IInv, LabelsNested
  <2>4. QED
    BY <1>0, <2>1, <2>2, <2>3 DEF Switched, PreemptOrEnable
<1>3. QED
  BY <1>1, <1>2

(* A TaskYield under IntrDisable.                                           *)
LEMMA YieldToKeeps ==
  ASSUME IInv, mode = "run",
         NEW label \in Labels \ {"init"}, NEW st, NEW p, NEW h \in TQ!Heap,
         YieldTo(label, st, p, h),
         NEW n \in Nat \ {0}, intrNest' = [intrNest EXCEPT ![CurrentTask] = n]
  PROVE  Switched'
<1>1. /\ CurrentTask \in Tasks /\ intrNest \in [Tasks -> Nat] /\ pc \in [Tasks -> Labels]
      /\ ctx \in Links /\ savedIPL \in Levels
  BY IInvTypes
<1>2. /\ intrNest' \in [Tasks -> Nat] /\ intrNest'[CurrentTask] > 0
      /\ \A t \in Tasks \ {CurrentTask} : intrNest'[t] = intrNest[t]
  BY <1>1
<1>3. pc' = [pc EXCEPT ![CurrentTask] = label] /\ Yield(st, p, h, ctx, savedIPL, 7)
  BY DEF YieldTo
<1>4. \A t \in Tasks \ {CurrentTask} : ctx[t] = "code" => (savedIPL[t] = 7 <=> intrNest'[t] > 0)
  BY <1>2 DEF IInv, MaskMatchesNesting
<1>5. SwitchTypes' /\ MaskMatchesNesting'
  BY <1>1, <1>2, <1>3, <1>4, YieldKeepsMasks
<1>6. LabelsNested'
  BY <1>1, <1>2, <1>3 DEF IInv, LabelsNested
<1>7. QED
  BY <1>1, <1>2, <1>3, <1>5, <1>6 DEF Switched

(* n calls of IntrEnable, and back in client code.                          *)
LEMMA EnableAndReturnKeeps ==
  ASSUME IInv, InTask, NEW n \in Nat, EnableAndReturn(n)
  PROVE  /\ Switched'
         /\ UNCHANGED <<state, prio, depth, NeedReschedule, notify>>
<1>1. /\ CurrentTask \in Tasks /\ tq \in TQ!Heap /\ intrNest \in [Tasks -> Nat]
      /\ pc \in [Tasks -> Labels] /\ ctx \in Links /\ savedIPL \in Levels
      /\ mode = "run" /\ ctx[CurrentTask] = "none"
  BY IInvTypes DEF InTask, IInv, SwitchTypes
<1>2. /\ intrNest' = [intrNest EXCEPT ![CurrentTask] = @ - n] /\ intrNest[CurrentTask] >= n
      /\ ipl' = IF intrNest[CurrentTask] = n THEN 0 ELSE 7
      /\ pc' = [pc EXCEPT ![CurrentTask] = "run"]
      /\ UNCHANGED <<CurrentTask, tq, state, prio, ctx, savedIPL, mode,
                     depth, NeedReschedule, notify>>
  BY DEF EnableAndReturn
<1>3. intrNest' \in [Tasks -> Nat] /\ pc' \in [Tasks -> Labels]
  BY <1>1, <1>2 DEF Labels
<1>4. SwitchTypes'
  BY <1>1, <1>2 DEF SwitchTypes
<1>5. MaskMatchesNesting'
  BY <1>1, <1>2 DEF MaskMatchesNesting, IInv
<1>6. LabelsNested'
  BY <1>1, <1>2, LabelsDistinct DEF LabelsNested, IInv
<1>7. QED
  BY <1>2, <1>3, <1>4, <1>5, <1>6 DEF Switched

-----------------------------------------------------------------------------
(* Each action keeps the invariant.                                         *)
Others == UNCHANGED <<mutexVars, IsWaiting>>

LEMMA TaskRunKeeps ==
  ASSUME IInv, Others, NEW tsk \in Tasks, NEW p \in Prios, TaskRun(tsk, p)
  PROVE  IInv'
<1> DEFINE q == [prio EXCEPT ![tsk] = p]
           st == [state EXCEPT ![tsk] = "ready"]
           c == [ctx EXCEPT ![tsk] = "code"]
           lvl == [savedIPL EXCEPT ![tsk] = 0]
           at == [pc EXCEPT ![tsk] = "run"]
           h == ReadyAdd(tq, q, tsk)
<1>1. /\ InTask /\ pc[tsk] = "init" /\ pc[CurrentTask] = "run"
      /\ PreemptOrEnable(st, q, h, c, lvl, at)
      /\ UNCHANGED <<eventSet, depth, NeedReschedule, notify>>
  BY DEF TaskRun, Asks
<1>2. st \in States /\ q \in [Tasks -> Prios]
  BY IInvTypes DEF States
<1>3. h \in TQ!Heap /\ c \in Links /\ lvl \in Levels /\ at \in [Tasks -> Labels]
  BY IInvTypes, ReadyAddType DEF Links, Levels, Labels
<1>4. SavedMasks(c, lvl, intrNest) /\ c[CurrentTask] = "none"
  BY <1>1, IInvTypes DEF SavedMasks, IInv, LabelsNested, SwitchTypes, InTask, Links, Levels
<1>5. \A t \in Tasks : at[t] = pc[t] \/ at[t] = "run"
  BY IInvTypes
<1> HIDE DEF q, st, c, lvl, h, at
<1>6. Switched' /\ state' = st /\ prio' = q
  BY <1>1, <1>3, <1>4, <1>5, PreemptOrEnableKeeps
<1>7. MutexTypeOK' /\ HoldersOwn' /\ IsWaiting' \in BOOLEAN /\ eventSet' \in [Tasks -> SUBSET Events]
  BY <1>1, IInvTypes DEF Others, mutexVars, MutexTypeOK, HoldersOwn
<1>8. QED
  BY <1>1, <1>2, <1>6, <1>7, TaskCallKeeps

LEMMA TaskResumeKeeps ==
  ASSUME IInv, Others, NEW tsk \in Tasks, TaskResume(tsk)
  PROVE  IInv'
<1> DEFINE st == [state EXCEPT ![tsk] = "ready"]
           h == ReadyAdd(tq, prio, tsk)
<1>1. /\ InTask /\ PreemptOrEnable(st, prio, h, ctx, savedIPL, pc)
      /\ UNCHANGED <<eventSet, depth, NeedReschedule, notify>>
  BY DEF TaskResume, Asks
<1>2. st \in States /\ h \in TQ!Heap
  BY IInvTypes, ReadyAddType DEF States
<1>3. ctx[CurrentTask] = "none"
  BY <1>1 DEF IInv, SwitchTypes, InTask
<1> HIDE DEF st, h
<1>4. Switched' /\ state' = st /\ prio' = prio
  BY <1>1, <1>2, <1>3, IInvTypes, PreemptOrEnableKeeps
<1>5. MutexTypeOK' /\ HoldersOwn' /\ IsWaiting' \in BOOLEAN /\ eventSet' \in [Tasks -> SUBSET Events]
  BY <1>1, IInvTypes DEF Others, mutexVars, MutexTypeOK, HoldersOwn
<1>6. prio' \in [Tasks -> Prios]
  BY <1>4, IInvTypes
<1>7. QED
  BY <1>1, <1>2, <1>4, <1>5, <1>6, TaskCallKeeps

LEMMA TaskPrioritySetKeeps ==
  ASSUME IInv, Others, NEW tsk \in Tasks \cup {NULL}, NEW p \in Prios, TaskPrioritySet(tsk, p)
  PROVE  IInv'
<1> DEFINE self == IF tsk = NULL THEN CurrentTask ELSE tsk
           g == IF tsk = NULL THEN tq ELSE TQ!Remove(tq, ReadyList, tsk)
           q == [prio EXCEPT ![self] = p]
           st == [state EXCEPT ![self] = "ready"]
           h == ReadyAdd(g, q, self)
<1>1. /\ InTask /\ PreemptOrEnable(st, q, h, ctx, savedIPL, pc)
      /\ UNCHANGED <<eventSet, depth, NeedReschedule, notify>>
  BY DEF TaskPrioritySet, Asks
<1>2. self \in Tasks /\ g \in TQ!Heap
  BY IInvTypes, RemoveType, ListIsSlot
<1>3. st \in States /\ q \in [Tasks -> Prios] /\ h \in TQ!Heap
  BY <1>2, IInvTypes, ReadyAddType DEF States
<1>4. ctx[CurrentTask] = "none"
  BY <1>1 DEF IInv, SwitchTypes, InTask
<1> HIDE DEF st, h, q
<1>5. Switched' /\ state' = st /\ prio' = q
  BY <1>1, <1>3, <1>4, IInvTypes, PreemptOrEnableKeeps
<1>6. MutexTypeOK' /\ HoldersOwn' /\ IsWaiting' \in BOOLEAN /\ eventSet' \in [Tasks -> SUBSET Events]
  BY <1>1, IInvTypes DEF Others, mutexVars, MutexTypeOK, HoldersOwn
<1>7. QED
  BY <1>1, <1>3, <1>5, <1>6, TaskCallKeeps

LEMMA TaskSuspendKeeps ==
  ASSUME IInv, Others, NEW tsk \in Tasks \cup {NULL}, TaskSuspend(tsk)
  PROVE  IInv'
<1> DEFINE self == IF tsk = NULL THEN CurrentTask ELSE tsk
           h == IF tsk = NULL THEN tq ELSE TQ!Remove(tq, ReadyList, tsk)
           st == [state EXCEPT ![self] = "suspended"]
           n == intrNest[CurrentTask] + 1
<1>1. /\ InTask /\ state' = st /\ intrNest' = [intrNest EXCEPT ![CurrentTask] = n]
      /\ YieldTo("enable", st, prio, h)
      /\ UNCHANGED <<prio, eventSet, depth, NeedReschedule, notify>>
  BY DEF TaskSuspend, Asks
<1>2. h \in TQ!Heap /\ st \in States /\ n \in Nat \ {0}
  BY IInvTypes, RemoveType, ListIsSlot DEF States
<1> HIDE DEF st, h, n
<1>3. mode = "run" /\ "enable" \in Labels \ {"init"}
  BY <1>1 DEF InTask, Labels
<1>4. Switched'
  BY <1>1, <1>2, <1>3, YieldToKeeps
<1>5. MutexTypeOK' /\ HoldersOwn' /\ IsWaiting' \in BOOLEAN /\ eventSet' \in [Tasks -> SUBSET Events]
      /\ prio' \in [Tasks -> Prios]
  BY <1>1, IInvTypes DEF Others, mutexVars, MutexTypeOK, HoldersOwn
<1>6. QED
  BY <1>1, <1>2, <1>4, <1>5, TaskCallKeeps

LEMMA TaskYieldKeeps ==
  ASSUME IInv, Others, TaskYield
  PROVE  IInv'
<1>1. /\ InTask /\ Yield(state, prio, tq, ctx, savedIPL, ipl)
      /\ UNCHANGED <<state, prio, intrNest, eventSet, pc, depth, NeedReschedule, notify>>
  BY DEF TaskYield, Asks
<1>2. intrNest' \in [Tasks -> Nat] /\ ipl \in {0, 7}
  BY <1>1, IInvTypes DEF IInv, SwitchTypes
<1>3. /\ mode = "run" => (ipl = 7 <=> intrNest'[CurrentTask] > 0)
      /\ \A t \in Tasks \ {CurrentTask} :
           ctx[t] = "code" => (savedIPL[t] = 7 <=> intrNest'[t] > 0)
  BY <1>1 DEF IInv, MaskMatchesNesting
<1>4. SwitchTypes' /\ MaskMatchesNesting'
  BY <1>1, <1>2, <1>3, IInvTypes, YieldKeepsMasks
<1>5. Switched'
  BY <1>1, <1>4, IInvTypes DEF Switched, IInv, LabelsNested
<1>6. /\ MutexTypeOK' /\ HoldersOwn' /\ IsWaiting' \in BOOLEAN
      /\ eventSet' \in [Tasks -> SUBSET Events] /\ state' \in States /\ prio' \in [Tasks -> Prios]
  BY <1>1, IInvTypes DEF Others, mutexVars, MutexTypeOK, HoldersOwn
<1>7. QED
  BY <1>1, <1>5, <1>6, TaskCallKeeps

LEMMA IntrDisableKeeps ==
  ASSUME IInv, Others, IntrDisable
  PROVE  IInv'
<1>1. /\ InTask /\ pc[CurrentTask] = "run"
      /\ intrNest' = [intrNest EXCEPT ![CurrentTask] = @ + 1] /\ ipl' = 7
      /\ UNCHANGED <<CurrentTask, tq, state, prio, eventSet, pc, ctx, savedIPL, mode,
                     depth, NeedReschedule, notify>>
  BY DEF IntrDisable, Asks
<1>2. SwitchTypes' /\ intrNest' \in [Tasks -> Nat] /\ pc' \in [Tasks -> Labels]
  BY <1>1, IInvTypes DEF IInv, SwitchTypes
<1>3. MaskMatchesNesting'
  BY <1>1, IInvTypes DEF IInv, SwitchTypes, MaskMatchesNesting, InTask
<1>4. LabelsNested'
  BY <1>1, IInvTypes DEF IInv, LabelsNested
<1>5. Switched'
  BY <1>2, <1>3, <1>4 DEF Switched
<1>6. /\ MutexTypeOK' /\ HoldersOwn' /\ IsWaiting' \in BOOLEAN
      /\ eventSet' \in [Tasks -> SUBSET Events] /\ state' \in States /\ prio' \in [Tasks -> Prios]
  BY <1>1, IInvTypes DEF Others, mutexVars, MutexTypeOK, HoldersOwn
<1>7. QED
  BY <1>1, <1>5, <1>6, TaskCallKeeps

(* IntrEnable, FinishCall, FinishWait and FinishWaitVBlank.                 *)
LEMMA ReturnKeeps ==
  ASSUME IInv, InTask, NEW n \in Nat, EnableAndReturn(n),
         eventSet' \in [Tasks -> SUBSET Events], Others
  PROVE  IInv'
<1>1. Switched' /\ UNCHANGED <<state, prio, depth, NeedReschedule, notify>>
  BY EnableAndReturnKeeps
<1>2. /\ MutexTypeOK' /\ HoldersOwn' /\ IsWaiting' \in BOOLEAN
      /\ state' \in States /\ prio' \in [Tasks -> Prios]
  BY <1>1, IInvTypes DEF Others, mutexVars, MutexTypeOK, HoldersOwn
<1>3. QED
  BY <1>1, <1>2, TaskCallKeeps

LEMMA ReturnsKeep ==
  ASSUME IInv, Others, IntrEnable \/ FinishCall \/ FinishWait \/ FinishWaitVBlank
  PROVE  IInv'
<1>1. InTask
  BY DEF IntrEnable, FinishCall, FinishWait, FinishWaitVBlank, Asks
<1>2. eventSet' \in [Tasks -> SUBSET Events]
  BY IInvTypes DEF IntrEnable, FinishCall, FinishWait, FinishWaitVBlank
<1>3. EnableAndReturn(1) \/ EnableAndReturn(2)
  BY DEF IntrEnable, FinishCall, FinishWait, FinishWaitVBlank
<1>4. QED
  BY <1>1, <1>2, <1>3, ReturnKeeps

(* TaskWait and TaskWaitVBlank.                                             *)
LEMMA BlockOnKeeps ==
  ASSUME IInv, InTask, NEW events \in SUBSET Events, NEW extra \in Nat,
         NEW label \in Labels \ {"init"}, BlockOn(events, extra, label),
         UNCHANGED mutexVars, IsWaiting' \in BOOLEAN
  PROVE  IInv'
<1> DEFINE st == [state EXCEPT ![CurrentTask] = "blocked"]
           n == intrNest[CurrentTask] + 1 + extra
           h == TQ!InsertHead(tq, WaitList, CurrentTask)
<1>1. /\ state' = st /\ eventSet' = [eventSet EXCEPT ![CurrentTask] = events]
      /\ intrNest' = [intrNest EXCEPT ![CurrentTask] = n]
      /\ YieldTo(label, st, prio, h)
      /\ UNCHANGED <<prio, depth, NeedReschedule, notify>>
  BY DEF BlockOn
<1>2. h \in TQ!Heap /\ st \in States /\ n \in Nat \ {0}
  BY IInvTypes, InsertHeadType, ListIsSlot DEF States
<1> HIDE DEF st, h, n
<1>3. Switched'
  BY <1>1, <1>2, YieldToKeeps DEF InTask
<1>4. MutexTypeOK' /\ HoldersOwn' /\ eventSet' \in [Tasks -> SUBSET Events]
      /\ prio' \in [Tasks -> Prios]
  BY <1>1, IInvTypes DEF mutexVars, MutexTypeOK, HoldersOwn
<1>5. QED
  BY <1>1, <1>2, <1>3, <1>4, TaskCallKeeps

LEMMA WaitsKeep ==
  ASSUME IInv, UNCHANGED mutexVars,
         \/ UNCHANGED IsWaiting /\ \E evs \in SUBSET Events : TaskWait(evs)
         \/ TaskWaitVBlank
  PROVE  IInv'
<1>1. "wait" \in Labels \ {"init"} /\ "vblank" \in Labels \ {"init"}
  BY DEF Labels
<1>2. CASE UNCHANGED IsWaiting /\ \E evs \in SUBSET Events : TaskWait(evs)
  BY <1>1, <1>2, BlockOnKeeps, IInvTypes DEF TaskWait, Asks
<1>3. CASE TaskWaitVBlank
  BY <1>1, <1>3, BlockOnKeeps, VertbAssumption DEF TaskWaitVBlank, Asks
<1>4. QED
  BY <1>2, <1>3

LEMMA MutexLockKeeps ==
  ASSUME IInv, UNCHANGED IsWaiting, NEW m \in Mutexes, MutexLock(m) \/ MutexLockAgain(m)
  PROVE  IInv'
<1>1. PICK n \in Nat :
        /\ InTask /\ LockLoop(m, n)
        /\ UNCHANGED <<prio, eventSet, depth, NeedReschedule, notify>>
        /\ n + 1 = intrNest[CurrentTask] \/ n = intrNest[CurrentTask]
  <2>1. CASE MutexLock(m)
    BY <2>1, IInvTypes DEF MutexLock, Asks
  <2>2. CASE MutexLockAgain(m)
    <3>1. intrNest[CurrentTask] - 1 \in Nat
      BY <2>2, IInvTypes DEF MutexLockAgain, IInv, LabelsNested
    <3>2. QED
      BY <2>2, <3>1, IInvTypes DEF MutexLockAgain
  <2>3. QED
    BY <2>1, <2>2
<1>2. prio' \in [Tasks -> Prios] /\ eventSet' \in [Tasks -> SUBSET Events] /\ IsWaiting' \in BOOLEAN
  BY <1>1, IInvTypes
<1>3. CASE owner[m] # NULL
  <2> DEFINE st == [state EXCEPT ![CurrentTask] = "blocked"]
             h == TQ!InsertTail(tq, m, CurrentTask)
  <2>1. /\ state' = st /\ intrNest' = [intrNest EXCEPT ![CurrentTask] = n + 1]
        /\ YieldTo(m, st, prio, h) /\ UNCHANGED <<owner, held>>
    BY <1>1, <1>3 DEF LockLoop
  <2>2. h \in TQ!Heap /\ st \in States /\ n + 1 \in Nat \ {0} /\ m \in Labels \ {"init"}
    BY IInvTypes, InsertTailType, ListIsSlot, LabelsDistinct DEF States, Labels
  <2> HIDE DEF st, h
  <2>3. Switched'
    BY <1>1, <2>1, <2>2, YieldToKeeps DEF InTask
  <2>4. MutexTypeOK' /\ HoldersOwn'
    BY <2>1, IInvTypes DEF MutexTypeOK, HoldersOwn
  <2>5. QED
    BY <1>1, <1>2, <2>1, <2>2, <2>3, <2>4, TaskCallKeeps
<1>4. CASE owner[m] = NULL
  <2>1. /\ owner' = [owner EXCEPT ![m] = CurrentTask]
        /\ held' = [held EXCEPT ![CurrentTask] = @ \cup {m}]
        /\ intrNest' = [intrNest EXCEPT ![CurrentTask] = n]
        /\ ipl' = EnableIPL(n + 1)
        /\ pc' = [pc EXCEPT ![CurrentTask] = "run"]
        /\ UNCHANGED <<CurrentTask, tq, state, ctx, savedIPL, mode>>
    BY <1>1, <1>4 DEF LockLoop
  <2>2. MutexTypeOK'
    BY <2>1, IInvTypes DEF MutexTypeOK
  <2>3. HoldersOwn'
    BY <1>4, <2>1, IInvTypes, NullNotTask DEF HoldersOwn
  <2>4. SwitchTypes' /\ intrNest' \in [Tasks -> Nat] /\ pc' \in [Tasks -> Labels]
    BY <2>1, IInvTypes DEF IInv, SwitchTypes, EnableIPL, Labels
  <2>5. MaskMatchesNesting'
    BY <1>1, <2>1, IInvTypes DEF MaskMatchesNesting, IInv, SwitchTypes, EnableIPL, InTask
  <2>6. LabelsNested'
    BY <2>1, IInvTypes, LabelsDistinct DEF LabelsNested, IInv
  <2>7. QED
    BY <1>1, <1>2, <2>1, <2>2, <2>3, <2>4, <2>5, <2>6, IInvTypes, TaskCallKeeps DEF Switched
<1>5. QED
  BY <1>3, <1>4

LEMMA MutexUnlockKeeps ==
  ASSUME IInv, UNCHANGED IsWaiting, NEW m \in Mutexes, MutexUnlock(m)
  PROVE  IInv'
<1> DEFINE tsk == TQ!First(tq, m)
           h == TQ!Remove(tq, m, tsk)
<1>1. /\ InTask /\ owner[m] = CurrentTask
      /\ owner' = [owner EXCEPT ![m] = NULL]
      /\ held' = [held EXCEPT ![CurrentTask] = @ \ {m}]
      /\ ipl' = EnableIPL(intrNest[CurrentTask] + 1)
      /\ UNCHANGED <<CurrentTask, prio, intrNest, eventSet, pc, ctx, savedIPL, mode, depth,
                     NeedReschedule, notify>>
  BY DEF MutexUnlock, Asks
<1>2. tq' \in TQ!Heap /\ state' \in States
  <2>1. CASE tsk = NULL
    BY <2>1, IInvTypes DEF MutexUnlock
  <2>2. CASE tsk # NULL
    <3>1. tsk \in Tasks
      BY <2>2, IInvTypes, FirstType, ListIsSlot
    <3>2. h \in TQ!Heap
      BY <3>1, IInvTypes, RemoveType, ListIsSlot
    <3>3. tq' = ReadyAdd(h, prio, tsk) /\ state' = [state EXCEPT ![tsk] = "ready"]
      BY <2>2 DEF MutexUnlock
    <3>4. QED
      BY <3>1, <3>2, <3>3, IInvTypes, ReadyAddType DEF States
  <2>3. QED
    BY <2>1, <2>2
<1>3. MutexTypeOK' /\ HoldersOwn'
  BY <1>1, IInvTypes DEF MutexTypeOK, HoldersOwn
<1>4. SwitchTypes' /\ MaskMatchesNesting'
  BY <1>1, <1>2, IInvTypes
  DEF SwitchTypes, MaskMatchesNesting, IInv, EnableIPL, InTask
<1>5. Switched'
  BY <1>1, <1>4, IInvTypes DEF Switched, LabelsNested, IInv
<1>6. QED
  BY <1>1, <1>2, <1>3, <1>5, IInvTypes, TaskCallKeeps

(* The cursor of _TaskNotify.                                               *)
Cursors == [tsk : Tasks \cup {NULL}, events : SUBSET Events, ntasks : {0, 1}]

LEMMA BeginNotifyCursor ==
  ASSUME IInv, NEW events \in SUBSET Events, BeginNotify(events)
  PROVE  notify' \in Cursors /\ notify' # NoNotify
<1>1. TQ!First(tq, WaitList) \in Tasks \cup {NULL} /\ events # {}
  BY IInvTypes, FirstType, ListIsSlot DEF BeginNotify
<1>2. notify' = [tsk |-> TQ!First(tq, WaitList), events |-> events, ntasks |-> 0]
  BY DEF BeginNotify
<1>3. notify'.events # NoNotify.events
  BY <1>1, <1>2 DEF NoNotify
<1>4. QED
  BY <1>1, <1>2, <1>3 DEF Cursors

LEMMA TaskNotifyKeeps ==
  ASSUME IInv, Others, NEW events \in SUBSET Events, TaskNotify(events)
  PROVE  IInv'
<1>1. /\ InTask /\ pc[CurrentTask] = "run" /\ BeginNotify(events)
      /\ intrNest' = [intrNest EXCEPT ![CurrentTask] = @ + 1] /\ ipl' = 7
      /\ UNCHANGED <<CurrentTask, tq, state, prio, eventSet, pc, ctx, savedIPL, mode,
                     depth, NeedReschedule>>
  BY DEF TaskNotify, Asks
<1>2. notify' \in Cursors
  BY <1>1, BeginNotifyCursor
<1>3. TypeOK'
  BY <1>1, <1>2, IInvTypes
  DEF IInv, TypeOK, TaskTypeOK, MutexTypeOK, Others, mutexVars, Cursors
<1>4. SwitchTypes' /\ MaskMatchesNesting'
  BY <1>1, IInvTypes DEF SwitchTypes, MaskMatchesNesting, IInv, InTask
<1>5. LabelsNested'
  BY <1>1, IInvTypes DEF LabelsNested, IInv
<1>6. NotifyMasked' /\ IntrUnmasked' /\ HoldersOwn'
  BY <1>1, IInvTypes DEF NotifyMasked, IntrUnmasked, HoldersOwn, InTask, Others, mutexVars
<1>7. QED
  BY <1>3, <1>4, <1>5, <1>6 DEF IInv

LEMMA NotifyNextKeeps ==
  ASSUME IInv, Others, NotifyNext
  PROVE  IInv'
<1> DEFINE tsk == notify.tsk
           match == eventSet[tsk] \cap notify.events
           h == ReadyAdd(tq, prio, tsk)
<1>1. notify \in Cursors /\ tsk \in Tasks
  BY DEF NotifyNext, IInv, TypeOK, TaskTypeOK, Cursors
<1>2. UNCHANGED <<CurrentTask, prio, intrNest, pc, ctx, savedIPL, mode, ipl, depth,
                  NeedReschedule>>
  BY DEF NotifyNext
<1>3. /\ tq' \in TQ!Heap /\ state' \in States /\ eventSet' \in [Tasks -> SUBSET Events]
      /\ notify' \in Cursors
  <2>1. CASE match = {}
    <3>1. notify' = [notify EXCEPT !.tsk = tq.next[tsk]] /\ UNCHANGED <<tq, state, eventSet>>
      BY <2>1 DEF NotifyNext
    <3>2. tq.next[tsk] \in Tasks \cup {NULL}
      BY <1>1, IInvTypes DEF TQ!Heap, TQ!Slot
    <3>3. QED
      BY <1>1, <3>1, <3>2, IInvTypes DEF Cursors
  <2>2. CASE match # {}
    <3>1. /\ tq' = h /\ state' = [state EXCEPT ![tsk] = "ready"]
          /\ eventSet' = [eventSet EXCEPT ![tsk] = match]
          /\ notify' = [notify EXCEPT !.tsk = h.next[tsk], !.ntasks = 1]
      BY <2>2 DEF NotifyNext
    <3>2. h \in TQ!Heap
      BY <1>1, IInvTypes, ReadyAddType
    <3>3. h.next[tsk] \in Tasks \cup {NULL} /\ match \in SUBSET Events
      BY <1>1, <3>2, IInvTypes DEF TQ!Heap, TQ!Slot
    <3> HIDE DEF tsk, match, h
    <3>4. QED
      BY <1>1, <3>1, <3>2, <3>3, IInvTypes DEF Cursors, States
  <2>3. QED
    BY <2>1, <2>2
<1>4. TypeOK'
  BY <1>2, <1>3, IInvTypes
  DEF IInv, TypeOK, TaskTypeOK, MutexTypeOK, Others, mutexVars, Cursors, States
<1>5. SwitchTypes' /\ MaskMatchesNesting' /\ LabelsNested'
  BY <1>2, <1>3, IInvTypes DEF SwitchTypes, MaskMatchesNesting, LabelsNested, IInv
<1>6. NotifyMasked' /\ IntrUnmasked' /\ HoldersOwn'
  BY <1>1, <1>2, IInvTypes
  DEF NotifyNext, NoNotify, NotifyMasked, IntrUnmasked, HoldersOwn, Others, mutexVars, IInv
<1>7. QED
  BY <1>4, <1>5, <1>6 DEF IInv

LEMMA NotifyReturnKeeps ==
  ASSUME IInv, Others, NotifyReturn
  PROVE  IInv'
<1> DEFINE preempt == notify.ntasks > 0 /\ ShouldPreempt(tq, prio)
<1>1. /\ notify # NoNotify /\ notify' = NoNotify
      /\ UNCHANGED <<state, prio, eventSet, depth>>
  BY DEF NotifyReturn
<1>2. NoNotify \in Cursors /\ depth \in Nat /\ NeedReschedule \in BOOLEAN
  BY DEF NoNotify, Cursors, IInv, TypeOK, TaskTypeOK
<1>3. CASE depth > 0
  <2>1. /\ NeedReschedule' = (NeedReschedule \/ preempt)
        /\ UNCHANGED <<CurrentTask, tq, intrNest, pc, ctx, savedIPL, mode, ipl>>
    BY <1>3 DEF NotifyReturn
  <2>2. NeedReschedule' \in BOOLEAN
    BY <1>2, <2>1
  <2>3. TypeOK'
    BY <1>1, <1>2, <2>1, <2>2, IInvTypes
    DEF IInv, TypeOK, TaskTypeOK, MutexTypeOK, Others, mutexVars, Cursors
  <2>4. SwitchTypes' /\ MaskMatchesNesting' /\ LabelsNested'
    BY <1>1, <2>1, IInvTypes DEF SwitchTypes, MaskMatchesNesting, LabelsNested, IInv
  <2>5. NotifyMasked' /\ IntrUnmasked' /\ HoldersOwn'
    BY <1>1, <2>1, IInvTypes
    DEF NotifyMasked, IntrUnmasked, HoldersOwn, Others, mutexVars, IInv
  <2>6. QED
    BY <2>3, <2>4, <2>5 DEF IInv
<1>4. CASE depth = 0
  <2>1. mode = "run" /\ pc[CurrentTask] = "run" /\ intrNest[CurrentTask] > 0
    BY <1>1, <1>4 DEF IInv, NotifyMasked
  <2>2. Switched' /\ UNCHANGED NeedReschedule
    <3>1. CASE preempt
      <4>1. YieldTo("enable", state, prio, tq) /\ UNCHANGED <<intrNest, NeedReschedule>>
        BY <1>4, <3>1 DEF NotifyReturn
      <4>2. intrNest' = [intrNest EXCEPT ![CurrentTask] = intrNest[CurrentTask]]
        BY <4>1, IInvTypes
      <4>3. intrNest[CurrentTask] \in Nat \ {0} /\ "enable" \in Labels \ {"init"}
        BY <2>1, IInvTypes DEF Labels
      <4>4. QED
        BY <2>1, <4>1, <4>2, <4>3, IInvTypes, YieldToKeeps
    <3>2. CASE ~preempt
      <4>1. /\ intrNest' = [intrNest EXCEPT ![CurrentTask] = @ - 1]
            /\ ipl' = EnableIPL(intrNest[CurrentTask])
            /\ UNCHANGED <<CurrentTask, tq, pc, ctx, savedIPL, mode, NeedReschedule>>
        BY <1>4, <3>2 DEF NotifyReturn
      <4>2. SwitchTypes' /\ intrNest' \in [Tasks -> Nat]
        BY <2>1, <4>1, IInvTypes DEF SwitchTypes, IInv, EnableIPL
      <4>3. MaskMatchesNesting'
        BY <2>1, <4>1, IInvTypes DEF SwitchTypes, MaskMatchesNesting, IInv, EnableIPL
      <4>4. LabelsNested'
        BY <2>1, <4>1, IInvTypes, LabelsDistinct DEF LabelsNested, IInv
      <4>5. QED
        BY <4>1, <4>2, <4>3, <4>4, IInvTypes DEF Switched
    <3>3. QED
      BY <3>1, <3>2
  <2>3. TypeOK'
    BY <1>1, <1>2, <2>2, IInvTypes
    DEF Switched, SwitchTypes, Links, Levels, States, TypeOK, TaskTypeOK, MutexTypeOK,
        Others, mutexVars, Cursors
  <2>4. NotifyMasked' /\ IntrUnmasked' /\ HoldersOwn'
    BY <1>1, <1>4, IInvTypes DEF NotifyMasked, IntrUnmasked, HoldersOwn, Others, mutexVars
  <2>5. QED
    BY <2>2, <2>3, <2>4 DEF IInv, Switched
<1>5. QED
  BY <1>2, <1>3, <1>4

LEMMA EnterIntrKeeps ==
  ASSUME IInv, Others, EnterIntr
  PROVE  IInv'
<1>1. /\ ipl = 0 /\ notify = NoNotify /\ depth' = depth + 1
      /\ UNCHANGED <<CurrentTask, tq, state, prio, intrNest, eventSet, pc, ctx, savedIPL,
                     mode, ipl, NeedReschedule, notify>>
  BY DEF EnterIntr
<1>2. TypeOK'
  BY <1>1 DEF IInv, TypeOK, TaskTypeOK, MutexTypeOK, Others, mutexVars
<1>3. SwitchTypes' /\ MaskMatchesNesting' /\ LabelsNested'
  BY <1>1 DEF SwitchTypes, MaskMatchesNesting, LabelsNested, IInv
<1>4. NotifyMasked' /\ IntrUnmasked' /\ HoldersOwn'
  BY <1>1 DEF NotifyMasked, IntrUnmasked, HoldersOwn, IInv, Others, mutexVars
<1>5. QED
  BY <1>2, <1>3, <1>4 DEF IInv

LEMMA TaskResumeISRKeeps ==
  ASSUME IInv, Others, NEW tsk \in Tasks, TaskResumeISR(tsk)
  PROVE  IInv'
<1> DEFINE h == ReadyAdd(tq, prio, tsk)
<1>1. /\ InIntr /\ tq' = h
      /\ NeedReschedule' = (NeedReschedule \/ ShouldPreempt(h, prio))
      /\ state' = [state EXCEPT ![tsk] = "ready"]
      /\ UNCHANGED <<CurrentTask, prio, intrNest, eventSet, pc, ctx, savedIPL, mode, ipl,
                     depth, notify>>
  BY DEF TaskResumeISR
<1>2. h \in TQ!Heap
  BY IInvTypes, ReadyAddType
<1>3. NeedReschedule' \in BOOLEAN
  BY <1>1 DEF IInv, TypeOK, TaskTypeOK
<1> HIDE DEF h
<1>4. TypeOK'
  BY <1>1, <1>2, <1>3 DEF IInv, TypeOK, TaskTypeOK, MutexTypeOK, Others, mutexVars
<1>5. SwitchTypes' /\ MaskMatchesNesting' /\ LabelsNested'
  BY <1>1, <1>2 DEF SwitchTypes, MaskMatchesNesting, LabelsNested, IInv
<1>6. NotifyMasked' /\ IntrUnmasked' /\ HoldersOwn'
  BY <1>1 DEF NotifyMasked, IntrUnmasked, HoldersOwn, IInv, InIntr, Others, mutexVars
<1>7. QED
  BY <1>4, <1>5, <1>6 DEF IInv

LEMMA VBlankWakeupKeeps ==
  ASSUME IInv, UNCHANGED mutexVars, VBlankWakeupHandler
  PROVE  IInv'
<1>1. /\ InIntr /\ IsWaiting' = FALSE /\ BeginNotify({INTF_VERTB})
      /\ UNCHANGED <<CurrentTask, tq, state, prio, intrNest, eventSet, pc, ctx, savedIPL,
                     mode, ipl, depth, NeedReschedule>>
  BY DEF VBlankWakeupHandler, TaskNotifyISR
<1>2. notify' \in Cursors
  BY <1>1, VertbAssumption, BeginNotifyCursor
<1>3. TypeOK'
  BY <1>1, <1>2 DEF IInv, TypeOK, TaskTypeOK, MutexTypeOK, mutexVars, Cursors
<1>4. SwitchTypes' /\ MaskMatchesNesting' /\ LabelsNested'
  BY <1>1 DEF SwitchTypes, MaskMatchesNesting, LabelsNested, IInv
<1>5. NotifyMasked' /\ IntrUnmasked' /\ HoldersOwn'
  BY <1>1 DEF NotifyMasked, IntrUnmasked, HoldersOwn, IInv, InIntr, mutexVars, TypeOK, TaskTypeOK
<1>6. QED
  BY <1>3, <1>4, <1>5 DEF IInv

LEMMA LeaveIntrKeeps ==
  ASSUME IInv, Others, LeaveIntr
  PROVE  IInv'
<1>1. /\ depth > 0 /\ notify = NoNotify /\ depth' = depth - 1
      /\ UNCHANGED <<state, prio, intrNest, eventSet, pc, notify>>
  BY DEF LeaveIntr, InIntr
<1>2. ipl = 0 /\ depth \in Nat /\ NeedReschedule \in BOOLEAN
  BY <1>1 DEF IInv, IntrUnmasked, TypeOK, TaskTypeOK
<1>3. SwitchTypes' /\ MaskMatchesNesting' /\ NeedReschedule' \in BOOLEAN
      /\ (depth' > 0 => ipl' = 0)
  <2>1. CASE depth = 1 /\ NeedReschedule
    <3>1. NeedReschedule' = FALSE /\ Yield(state, prio, tq, ctx, savedIPL, 0)
      BY <2>1 DEF LeaveIntr
    <3>2. /\ mode = "run" => (0 = 7 <=> intrNest'[CurrentTask] > 0)
          /\ \A t \in Tasks \ {CurrentTask} :
               ctx[t] = "code" => (savedIPL[t] = 7 <=> intrNest'[t] > 0)
      BY <1>1, <1>2 DEF IInv, MaskMatchesNesting
    <3>3. SwitchTypes' /\ MaskMatchesNesting'
      BY <1>1, <3>1, <3>2, IInvTypes, YieldKeepsMasks
    <3>4. depth' = 0
      BY <1>1, <1>2, <2>1
    <3>5. NeedReschedule' \in BOOLEAN
      BY <3>1
    <3>6. QED
      BY <3>3, <3>4, <3>5
  <2>2. CASE ~(depth = 1 /\ NeedReschedule)
    <3>1. UNCHANGED <<CurrentTask, tq, ctx, savedIPL, mode, ipl, NeedReschedule>>
      BY <2>2 DEF LeaveIntr
    <3>2. QED
      BY <1>1, <1>2, <3>1 DEF SwitchTypes, MaskMatchesNesting, IInv
  <2>3. QED
    BY <2>1, <2>2
<1>4. TypeOK'
  BY <1>1, <1>2, <1>3
  DEF IInv, SwitchTypes, Links, Levels, TypeOK, TaskTypeOK, MutexTypeOK, Others, mutexVars
<1>5. LabelsNested'
  BY <1>1 DEF IInv, LabelsNested
<1>6. NotifyMasked' /\ IntrUnmasked' /\ HoldersOwn'
  BY <1>1, <1>3 DEF NotifyMasked, IntrUnmasked, HoldersOwn, IInv, Others, mutexVars
<1>7. QED
  BY <1>3, <1>4, <1>5, <1>6 DEF IInv

LEMMA IdleWakeupKeeps ==
  ASSUME IInv, Others, IdleWakeup
  PROVE  IInv'
<1>1. /\ depth = 0 /\ mode = "idle" /\ Dispatch(tq, ctx, savedIPL)
      /\ UNCHANGED <<state, prio, intrNest, eventSet, pc, depth, NeedReschedule, notify>>
  BY DEF IdleWakeup
<1>2. notify = NoNotify
  BY <1>1 DEF IInv, NotifyMasked
<1>3. /\ SwitchTypes' /\ savedIPL' = savedIPL
      /\ \A t \in Tasks : ctx'[t] = "code" => ctx[t] = "code"
      /\ mode' = "run" => ctx[CurrentTask'] = "code" /\ ipl' = savedIPL[CurrentTask']
  BY <1>1, IInvTypes, DispatchSwitches
<1>4. MaskMatchesNesting'
  BY <1>1, <1>3 DEF IInv, MaskMatchesNesting, SwitchTypes
<1>5. TypeOK'
  BY <1>1, <1>3
  DEF IInv, SwitchTypes, Links, Levels, TypeOK, TaskTypeOK, MutexTypeOK, Others, mutexVars
<1>6. LabelsNested' /\ NotifyMasked' /\ IntrUnmasked' /\ HoldersOwn'
  BY <1>1, <1>2
  DEF LabelsNested, NotifyMasked, IntrUnmasked, HoldersOwn, IInv, Others, mutexVars
<1>7. QED
  BY <1>3, <1>4, <1>5, <1>6 DEF IInv

-----------------------------------------------------------------------------
(* Every step of the kernel keeps the invariant.                            *)
THEOREM NextIInv == IInv /\ [Next]_vars => IInv'
<1> SUFFICES ASSUME IInv, [Next]_vars PROVE IInv'
  OBVIOUS
<1>1. CASE TaskStep /\ UNCHANGED <<mutexVars, IsWaiting>>
  <2>0. Others
    BY <1>1 DEF Others
  <2>1. CASE \E t \in Tasks, p \in Prios : TaskRun(t, p)
    BY <2>0, <2>1, TaskRunKeeps
  <2>2. CASE \E t \in Tasks : TaskResume(t) \/ TaskResumeISR(t)
    BY <2>0, <2>2, TaskResumeKeeps, TaskResumeISRKeeps
  <2>3. CASE \E t \in Tasks \cup {NULL} :
               TaskSuspend(t) \/ (\E p \in Prios : TaskPrioritySet(t, p))
    BY <2>0, <2>3, TaskSuspendKeeps, TaskPrioritySetKeeps
  <2>4. CASE \E evs \in SUBSET Events : TaskWait(evs) \/ TaskNotify(evs)
    BY <1>1, <2>0, <2>4, WaitsKeep, TaskNotifyKeeps
  <2>5. CASE TaskYield \/ IntrDisable \/ IntrEnable \/ FinishCall \/ FinishWait
    BY <2>0, <2>5, TaskYieldKeeps, IntrDisableKeeps, ReturnsKeep
  <2>6. CASE NotifyNext \/ NotifyReturn
    BY <2>0, <2>6, NotifyNextKeeps, NotifyReturnKeeps
  <2>7. CASE EnterIntr \/ LeaveIntr \/ IdleWakeup
    BY <2>0, <2>7, EnterIntrKeeps, LeaveIntrKeeps, IdleWakeupKeeps
  <2>8. QED
    BY <1>1, <2>1, <2>2, <2>3, <2>4, <2>5, <2>6, <2>7 DEF TaskStep
<1>2. CASE MutexStep /\ UNCHANGED IsWaiting
  BY <1>2, MutexLockKeeps, MutexUnlockKeeps DEF MutexStep
<1>3. CASE VBlankStep /\ UNCHANGED mutexVars
  <2>1. CASE TaskWaitVBlank
    BY <1>3, <2>1, WaitsKeep
  <2>2. CASE FinishWaitVBlank
    BY <1>3, <2>2, ReturnsKeep DEF Others, FinishWaitVBlank
  <2>3. CASE VBlankWakeupHandler
    BY <1>3, <2>3, VBlankWakeupKeeps
  <2>4. QED
    BY <1>3, <2>1, <2>2, <2>3 DEF VBlankStep
<1>4. CASE UNCHANGED vars
  BY <1>4
  DEF vars, taskVars, mutexVars, IInv, TypeOK, TaskTypeOK, MutexTypeOK, SwitchTypes,
      MaskMatchesNesting, LabelsNested, NotifyMasked, IntrUnmasked, HoldersOwn
<1>5. QED
  BY <1>1, <1>2, <1>3, <1>4 DEF Next

LEMMA Invariance == Spec => []IInv
BY InitIInv, NextIInv, PTL DEF Spec

(* Every variable of the kernel keeps its type, whatever the client calls.  *)
THEOREM TypeCorrect == Spec => []TypeOK
<1>1. IInv => TypeOK
  BY DEF IInv
<1>2. QED
  BY <1>1, Invariance, PTL

(* IntrDisable and IntrEnable are private to a task: TaskYield, preemption   *)
(* and interrupts neither leak the mask to another task nor lose it.       *)
THEOREM MaskFollowsTask == Spec => []MaskMatchesNesting
<1>1. IInv => MaskMatchesNesting
  BY DEF IInv
<1>2. QED
  BY <1>1, Invariance, PTL

(* MutexLock and MutexUnlock exclude tasks from each other, even when other  *)
(* calls have spoilt the lists.                                            *)
THEOREM MutexExcludes == Spec => []MutualExclusion
<1>1. IInv => MutualExclusion
  BY DEF IInv, HoldersOwn, MutualExclusion
<1>2. QED
  BY <1>1, Invariance, PTL
=============================================================================
