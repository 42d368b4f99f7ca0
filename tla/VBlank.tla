------------------------------- MODULE VBlank -------------------------------
(***************************************************************************)
(* Waiting for the vertical blank: system/vblank.c, on the scheduler.      *)
(***************************************************************************)
EXTENDS Scheduler

CONSTANT INTF_VERTB    \* the event that the interrupt server signals

ASSUME VertbAssumption == INTF_VERTB \in Events

VARIABLE IsWaiting

VBlankInit == IsWaiting = FALSE

(* Mistaken variant: the wait is not announced.                             *)
TaskWaitVBlankUnannounced ==
  /\ Asks("vblank", NULL)
  /\ BlockOn({INTF_VERTB}, 1, "vblank")
  /\ UNCHANGED IsWaiting

TaskWaitVBlank ==
  /\ Asks("vblank", NULL)
  /\ IsWaiting' = TRUE
  /\ BlockOn({INTF_VERTB}, 1, "vblank")

FinishWaitVBlank ==
  /\ InTask /\ pc[CurrentTask] = "vblank"
  /\ eventSet' = [eventSet EXCEPT ![CurrentTask] = {}]
  /\ EnableAndReturn(2)
  /\ UNCHANGED IsWaiting

(* The interrupt server, in the vertical blank interrupt.                   *)
VBlankWakeupHandler ==
  /\ IsWaiting
  /\ IsWaiting' = FALSE
  /\ TaskNotifyISR({INTF_VERTB})

VBlankStep == TaskWaitVBlank \/ FinishWaitVBlank \/ VBlankWakeupHandler
=============================================================================
