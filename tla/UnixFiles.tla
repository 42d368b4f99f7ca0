----------------------------- MODULE UnixFiles -----------------------------
(***************************************************************************)
(* Files as include/system/file.h promises them: FileRead and FileSeek     *)
(* "behave like read/write/lseek known from UNIX".  Each task has at most  *)
(* one file open.  A call has its whole effect when it returns.            *)
(***************************************************************************)
EXTENDS Integers, Sequences

CONSTANTS Tasks,
          Content,    \* what is in the files: a function from entries to sequences
          Sizes,      \* of reads
          Offsets, Whences, \* of seeks; "SET", "CUR" and "END"
          NONE, EINVAL

VARIABLES file,     \* the directory entry of the open file, or NONE
          pos,      \* the position in it
          asked,    \* the number of bytes that a read under way asks for
          result    \* what the latest call returned, until the next one

vars == <<file, pos, asked, result>>

Init ==
  /\ file = [t \in Tasks |-> NONE]
  /\ pos = [t \in Tasks |-> 0]
  /\ asked = [t \in Tasks |-> 0]
  /\ result = NONE

Open(t, entry) ==
  /\ file[t] = NONE
  /\ file' = [file EXCEPT ![t] = entry] /\ pos' = [pos EXCEPT ![t] = 0]
  /\ result' = NONE
  /\ UNCHANGED asked

Idle(t) == file[t] # NONE /\ asked[t] = 0

Close(t) ==
  /\ Idle(t)
  /\ file' = [file EXCEPT ![t] = NONE] /\ pos' = [pos EXCEPT ![t] = 0]
  /\ result' = NONE
  /\ UNCHANGED asked

Size(t) == Len(Content[file[t]])

(* lseek, but that a position past the end is refused as a negative one is. *)
Seek(t, offset, whence) ==
  /\ Idle(t)
  /\ LET to == offset + CASE whence = "SET" -> 0
                          [] whence = "CUR" -> pos[t]
                          [] whence = "END" -> Size(t)
     IN  IF to \in 0..Size(t)
         THEN /\ pos' = [pos EXCEPT ![t] = to]
              /\ result' = [task |-> t, ret |-> to, bytes |-> <<>>]
         ELSE /\ result' = [task |-> t, ret |-> EINVAL, bytes |-> <<>>]
              /\ UNCHANGED pos
  /\ UNCHANGED <<file, asked>>

Read(t, n) ==
  /\ Idle(t)
  /\ asked' = [asked EXCEPT ![t] = n]
  /\ result' = NONE
  /\ UNCHANGED <<file, pos>>

(* The bytes from the position on, as many as asked for or are left.        *)
ReadReturns(t) ==
  /\ asked[t] > 0
  /\ LET n == IF asked[t] < Size(t) - pos[t] THEN asked[t] ELSE Size(t) - pos[t]
     IN  /\ pos' = [pos EXCEPT ![t] = @ + n]
         /\ result' = [task |-> t, ret |-> n,
                       bytes |-> SubSeq(Content[file[t]], pos[t] + 1, pos[t] + n)]
  /\ asked' = [asked EXCEPT ![t] = 0]
  /\ UNCHANGED file

Next ==
  \E t \in Tasks :
    \/ \E entry \in DOMAIN Content : Open(t, entry)
    \/ Close(t)
    \/ \E offset \in Offsets, whence \in Whences : Seek(t, offset, whence)
    \/ \E n \in Sizes : Read(t, n)
    \/ ReadReturns(t)

Spec == Init /\ [][Next]_vars
=============================================================================
