------------------------------ MODULE MCSerial ------------------------------
(***************************************************************************)
(* Small instances of Serial for TLC.                                      *)
(***************************************************************************)
EXTENDS Serial

CONSTANTS w, r, x, nl, cr

(* Two tasks write a newline, two characters; one of them also reads.       *)
ShortWrites == {w, r} \X {<<nl>>}
ShortReads == {<<r, 2>>}

(* One more than what the indices reach under the mask of 80, and the last  *)
(* one tells.                                                              *)
LongWrites == {<<w, [i \in 1..17 |-> x] \o <<cr>>>>}
=============================================================================
