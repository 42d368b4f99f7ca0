---------------------------- MODULE CharStreams ----------------------------
(***************************************************************************)
(* What the serial port promises the tasks that write and read it: two     *)
(* streams of characters, each first in first out.  What a task writes     *)
(* goes out once and in order; a character is dropped only by a port with  *)
(* O_NONBLOCK, and only when its queue is full.  What the line receives is *)
(* read once and in order; a character is lost only when the queue is      *)
(* full.  Only a read with O_NONBLOCK gives NONE, and only when there is   *)
(* nothing to read.                                                        *)
(***************************************************************************)
EXTENDS Naturals, Sequences

CONSTANTS Tasks, Char, NONE, QUEUELEN,
          Newline, Return,
          Texts          \* what a task may write in one call

VARIABLES port,          \* "closed", "open", or "freed" for good
          nonblock,      \* opened with O_NONBLOCK
          sending,       \* accepted and not yet on the line
          arrived,       \* the character in the receiver, or NONE
          receiving,     \* received and not yet read
          out,           \* what each task has yet to write
          got            \* what each task has read last

vars == <<port, nonblock, sending, arrived, receiving, out, got>>

Init ==
  /\ port = "closed" /\ nonblock = FALSE
  /\ sending = <<>> /\ receiving = <<>> /\ arrived = NONE
  /\ out = [t \in Tasks |-> <<>>] /\ got = [t \in Tasks |-> NONE]

Open ==
  /\ port = "closed" /\ port' = "open"
  /\ nonblock' \in BOOLEAN
  /\ UNCHANGED <<sending, arrived, receiving, out, got>>

Close ==
  /\ port = "open" /\ port' = "freed"
  /\ \A t \in Tasks : out[t] = <<>>
  /\ UNCHANGED <<nonblock, sending, arrived, receiving, out, got>>

BeginWrite(t) ==
  /\ out[t] = <<>>
  /\ \E text \in Texts : out' = [out EXCEPT ![t] = text]
  /\ UNCHANGED <<port, nonblock, sending, arrived, receiving, got>>

(* A newline goes out with a return behind it.                              *)
Behind(text) == (IF Head(text) = Newline THEN <<Return>> ELSE <<>>) \o Tail(text)

Write(t) ==
  /\ out[t] # <<>> /\ out' = [out EXCEPT ![t] = Behind(@)]
  /\ sending' = Append(sending, Head(out[t]))
  /\ UNCHANGED <<port, nonblock, arrived, receiving, got>>

Drop(t) ==
  /\ out[t] # <<>> /\ out' = [out EXCEPT ![t] = Behind(@)]
  /\ nonblock /\ Len(sending) >= QUEUELEN
  /\ UNCHANGED <<port, nonblock, sending, arrived, receiving, got>>

Transmit ==
  /\ sending # <<>> /\ sending' = Tail(sending)
  /\ UNCHANGED <<port, nonblock, arrived, receiving, out, got>>

Arrive ==
  /\ arrived = NONE /\ arrived' \in Char
  /\ UNCHANGED <<port, nonblock, sending, receiving, out, got>>

Receive ==
  /\ arrived # NONE /\ arrived' = NONE
  /\ \/ receiving' = Append(receiving, arrived)
     \/ Len(receiving) = QUEUELEN /\ UNCHANGED receiving
  /\ UNCHANGED <<port, nonblock, sending, out, got>>

Read(t) ==
  /\ receiving # <<>> /\ receiving' = Tail(receiving)
  /\ got' = [got EXCEPT ![t] = Head(receiving)]
  /\ UNCHANGED <<port, nonblock, sending, arrived, out>>

ReadNone(t) ==
  /\ nonblock /\ receiving = <<>>
  /\ got' = [got EXCEPT ![t] = NONE]
  /\ UNCHANGED <<port, nonblock, sending, arrived, receiving, out>>

Next ==
  \/ Open \/ Close \/ Transmit \/ Arrive \/ Receive
  \/ \E t \in Tasks : BeginWrite(t) \/ Write(t) \/ Drop(t) \/ Read(t) \/ ReadNone(t)

Spec == Init /\ [][Next]_vars
=============================================================================
