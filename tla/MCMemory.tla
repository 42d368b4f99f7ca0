------------------------------ MODULE MCMemory ------------------------------
(***************************************************************************)
(* Small instances of Memory for TLC.                                      *)
(***************************************************************************)
EXTENDS Memory, TLC

CONSTANTS t1, t2

TaskSymmetry == Permutations(Tasks)

(* Fast memory before chip memory, as a500rom.asm reports them, or chip     *)
(* memory only.                                                            *)
FastAndChip == <<[units |-> 3, attributes |-> {"MEMF_FAST", "MEMF_PUBLIC"}],
                 [units |-> 2, attributes |-> {"MEMF_CHIP", "MEMF_PUBLIC"}]>>
ChipOnly == <<[units |-> 5, attributes |-> {"MEMF_CHIP", "MEMF_PUBLIC"}]>>

Machines == {FastAndChip, ChipOnly}
SmallMachine == {FastAndChip}

Requests == {{"MEMF_PUBLIC"}, {"MEMF_CHIP"}}

(* The word at ar->end may look like the header of a used or a free block.  *)
UsedOrFree == {[size |-> 1, flags |-> {"USED"}], [size |-> 1, flags |-> {}]}
=============================================================================
