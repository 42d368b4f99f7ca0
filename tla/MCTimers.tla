------------------------------ MODULE MCTimers ------------------------------
EXTENDS TLC, Timers

Call(what, driver, timer) == << [call |-> what, who |-> driver, num |-> timer] >>

Keyboard ==
  Call("acquire", "keyboard", "CIAA_B") \o Call("KeyboardInit", "keyboard", "")
NoKeyboard ==
  Call("KeyboardKill", "keyboard", "") \o Call("release", "keyboard", "")
Player ==
  Call("acquire", "ahx", "ANY") \o Call("setup", "ahx", "")
    \o Call("release", "ahx", "")
Floppy ==
  Call("acquire", "floppy", "CIAB_A") \o Call("sleep", "floppy", "")
    \o Call("release", "floppy", "")

(* effects/playahx, which leaves the keyboard driver at work, and effects  *)
(* that start and stop it, twice as the intro may; each next to the disk.  *)
MCPrograms ==
  { [main |-> Keyboard \o Player, disk |-> Floppy],
    [main |-> Keyboard \o NoKeyboard \o Keyboard \o NoKeyboard,
     disk |-> Floppy] }

MCLevel == [PORTS |-> 2, EXTER |-> 6]
MCPrio == [s \in TimerSet \union {"keyboard"} |-> IF s = "keyboard" THEN -5 ELSE 0]
=============================================================================
