------------------------------- MODULE Mutex -------------------------------
(***************************************************************************)
(* The mutexes of system/kernel/mutex.c.  The wait list of mutex m is the  *)
(* list m of tq.                                                           *)
(***************************************************************************)
EXTENDS Scheduler

VARIABLES owner,   \* the owner field of each mutex
          held     \* the mutexes each task has locked and not unlocked since

mutexVars == <<owner, held>>

MutexTypeOK ==
  /\ owner \in [Mutexes -> Tasks \cup {NULL}]
  /\ held \in [Tasks -> SUBSET Mutexes]

MutexInit ==
  /\ owner = [m \in Mutexes |-> NULL]
  /\ held = [t \in Tasks |-> {}]

(* The loop of MutexLock and what follows it.  n is the nesting count of    *)
(* the caller: IntrDisable has made it n + 1.                              *)
LockLoop(m, n) ==
  IF owner[m] # NULL
  THEN LET st == [state EXCEPT ![CurrentTask] = "blocked"]
       IN  /\ state' = st
           /\ intrNest' = [intrNest EXCEPT ![CurrentTask] = n + 1]
           /\ YieldTo(m, st, prio, TQ!InsertTail(tq, m, CurrentTask))
           /\ UNCHANGED <<owner, held>>
  ELSE /\ owner' = [owner EXCEPT ![m] = CurrentTask]
       /\ held' = [held EXCEPT ![CurrentTask] = @ \cup {m}]
       /\ intrNest' = [intrNest EXCEPT ![CurrentTask] = n]
       /\ ipl' = EnableIPL(n + 1)
       /\ pc' = [pc EXCEPT ![CurrentTask] = "run"]
       /\ UNCHANGED <<CurrentTask, tq, state, ctx, savedIPL, mode>>

(* A mutex is not recursive: its owner must not lock it again.              *)
MutexLock(m) ==
  /\ Asks("lock", m)
  /\ m \notin held[CurrentTask]
  /\ LockLoop(m, intrNest[CurrentTask])
  /\ UNCHANGED <<prio, eventSet, depth, NeedReschedule, notify>>

(* Mistaken variant: if in place of while.  A woken waiter takes the mutex  *)
(* without a look at its owner.                                            *)
MutexLockOnce(m) ==
  /\ InTask /\ pc[CurrentTask] = m
  /\ owner' = [owner EXCEPT ![m] = CurrentTask]
  /\ held' = [held EXCEPT ![CurrentTask] = @ \cup {m}]
  /\ EnableAndReturn(1)
  /\ UNCHANGED eventSet

(* The TaskYield in the loop returns.                                       *)
MutexLockAgain(m) ==
  /\ InTask /\ pc[CurrentTask] = m
  /\ LockLoop(m, intrNest[CurrentTask] - 1)
  /\ UNCHANGED <<prio, eventSet, depth, NeedReschedule, notify>>

(* Mistaken variant: nobody is woken.                                       *)
MutexUnlockSilently(m) ==
  /\ Asks("unlock", m)
  /\ owner[m] = CurrentTask
  /\ owner' = [owner EXCEPT ![m] = NULL]
  /\ held' = [held EXCEPT ![CurrentTask] = @ \ {m}]
  /\ ipl' = EnableIPL(intrNest[CurrentTask] + 1)
  /\ UNCHANGED <<CurrentTask, tq, state, prio, intrNest, eventSet, pc, ctx, savedIPL,
                 mode, depth, NeedReschedule, notify>>

(* The first waiter becomes ready, and has to compete for the mutex again.  *)
MutexUnlock(m) ==
  /\ Asks("unlock", m)
  /\ owner[m] = CurrentTask
  /\ owner' = [owner EXCEPT ![m] = NULL]
  /\ held' = [held EXCEPT ![CurrentTask] = @ \ {m}]
  /\ LET tsk == TQ!First(tq, m)
         h == TQ!Remove(tq, m, tsk)
     IN  IF tsk = NULL
         THEN UNCHANGED <<tq, state>>
         ELSE /\ ReadyAddEnds(h, prio, tsk)
              /\ tq' = ReadyAdd(h, prio, tsk)
              /\ state' = [state EXCEPT ![tsk] = "ready"]
  /\ ipl' = EnableIPL(intrNest[CurrentTask] + 1)
  /\ UNCHANGED <<CurrentTask, prio, intrNest, eventSet, pc, ctx, savedIPL, mode, depth,
                 NeedReschedule, notify>>

MutexStep == \E m \in Mutexes : MutexLock(m) \/ MutexLockAgain(m) \/ MutexUnlock(m)
=============================================================================
