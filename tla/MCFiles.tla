------------------------------ MODULE MCFiles ------------------------------
(***************************************************************************)
(* Small instances of Files for TLC: eight tracks of two bytes.  The boot   *)
(* block takes tracks 0 and 1, the directory tracks 2 and 3.                *)
(***************************************************************************)
EXTENDS Files

CONSTANTS a, b

(* Two files, of three bytes on tracks 4 and 5, and of four on 6 and 7.     *)
SomeEntries == {[start |-> 2, size |-> 3], [start |-> 4, size |-> 4]}

BadArgument == -3
BackAndForth == {-1, 2}
SetCur == {"SET", "CUR"}
=============================================================================
