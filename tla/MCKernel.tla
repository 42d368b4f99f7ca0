----------------------------- MODULE MCKernel -----------------------------
(***************************************************************************)
(* Small instances of Kernel for TLC: the clients of each run.             *)
(***************************************************************************)
EXTENDS Kernel

CONSTANTS main, a, b, c, bg, m, e, f

(* Three tasks, and the main task that starts them, compete for a           *)
(* mutex, suspend, resume and change the priority of each other, and       *)
(* interrupts resume them.  The main task neither locks nor is suspended,  *)
(* so the processor never idles.                                           *)
Workers == {a, b, c}

MutexCalls ==
     {<<main, "run", <<a, 0>>>>, <<main, "run", <<b, 1>>>>, <<main, "run", <<c, 0>>>>}
  \cup Workers \X {"lock", "unlock"} \X {m}
  \cup {main, a, b, c} \X {"yield"} \X {NULL}
  \cup {<<b, "suspend", a>>, <<main, "suspend", a>>, <<a, "suspend", c>>}
  \cup {<<main, "resume", a>>, <<main, "resume", c>>}
  \cup {<<a, "prio", <<main, 1>>>>, <<a, "prio", <<b, 0>>>>, <<c, "prio", <<a, 1>>>>}
  \cup {b, c} \X {"disable", "enable"} \X {NULL}

MutexIsrCalls == {<<"resume", a>>, <<"resume", c>>}

(* The theorems of KernelSchedule are about clients such as these.          *)
ASSUME MutexClientsKeepRules ==
  IsrCalls = MutexIsrCalls => ClientRules(main) /\ NobodyWaits

(* The main task waits for the vertical blank or for a notification of the  *)
(* background task.                                                        *)
VBlankCalls ==
  {<<main, "run", <<bg, 1>>>>, <<main, "vblank", NULL>>, <<bg, "notify", {e}>>,
   <<main, "wait", {e}>>, <<bg, "disable", NULL>>, <<bg, "enable", NULL>>}

(* The main task waits for every frame, as effects do, and the background   *)
(* task notifies of an event for which it may or may not be waiting.       *)
NotifyLoopCalls ==
  {<<main, "run", <<bg, 1>>>>, <<main, "vblank", NULL>>, <<bg, "notify", {f}>>}

ASSUME NotifyLoopClientsKeepRules == Calls = NotifyLoopCalls => ClientRules(main)

(* Every task may block on a mutex whose owner is suspended: then the       *)
(* processor idles until an interrupt resumes the owner.                   *)
IdleCalls ==
     {<<main, "run", <<a, 0>>>>, <<main, "run", <<b, 0>>>>}
  \cup {main, a, b} \X {"lock", "unlock"} \X {m}
  \cup {main, a, b} \X {"yield"} \X {NULL}
  \cup {<<main, "suspend", a>>, <<b, "suspend", a>>, <<b, "prio", <<main, 1>>>>}

IdleIsrCalls == {<<"resume", a>>}

NoCalls == {}
=============================================================================
