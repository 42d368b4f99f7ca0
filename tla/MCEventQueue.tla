---------------------------- MODULE MCEventQueue ----------------------------
(***************************************************************************)
(* A small instance of EventQueue for TLC.                                 *)
(***************************************************************************)
EXTENDS EventQueue

CONSTANTS gui, main, key, mouse

(* The vertical blank server of the mouse (level 3) interrupts that of the  *)
(* keyboard (level 2).                                                     *)
DriverLevels == {2, 3}
=============================================================================
