------------------------------ MODULE Interrupts ------------------------------
(***************************************************************************)
(* Server chains of system/kernel/interrupt.c, and how intr-entry.S enters *)
(* and leaves the interrupts that have one.                                *)
(*                                                                         *)
(* A chain is the sequence of its servers.  Both lists of servers and the  *)
(* masks are changed with interrupts disabled, in one step.  A server may  *)
(* take several steps, and a higher level may interrupt each of them: the  *)
(* activations of chains are a stack, the latest first.                    *)
(***************************************************************************)
EXTENDS Integers, Sequences

CONSTANTS
  Level,   \* level of each interrupt that has a chain
  Prio     \* priority of each server

ASSUME LevelAssumption == \A irq \in DOMAIN Level : Level[irq] \in 1..6
ASSUME PrioAssumption == \A server \in DOMAIN Prio : Prio[server] \in Int

VARIABLES
  chain,     \* servers of each interrupt
  intena,    \* enabled interrupts
  intreq,    \* requested interrupts
  handlers   \* chains at work: the interrupt, the server, where it is

interrupts == <<chain, intena, intreq, handlers>>
Irqs == DOMAIN Level
Servers(irq) == {chain[irq][i] : i \in DOMAIN chain[irq]}

-----------------------------------------------------------------------------
Enable(irq) == intreq' = intreq \ {irq} /\ intena' = intena \union {irq}
Disable(irq) == intreq' = intreq \ {irq} /\ intena' = intena \ {irq}

(* The server goes behind the first i, which have a lower priority. *)
AddIntServer(irq, server) ==
  LET ic == chain[irq]
      lower(i) == Prio[ic[i]] < Prio[server]
  IN  /\ \E i \in 0..Len(ic) :
           /\ \A j \in 1..i : lower(j)
           /\ i < Len(ic) => ~lower(i + 1)
           /\ chain' = [chain EXCEPT ![irq] =
                          SubSeq(ic, 1, i) \o <<server>> \o SubSeq(ic, i + 1, Len(ic))]
      /\ IF ic = <<>> THEN Enable(irq) ELSE UNCHANGED <<intreq, intena>>
      /\ UNCHANGED handlers

(* The search for a server that is not on the chain has no end. *)
Unlink(irq, server) ==
  LET ic == chain[irq]
  IN  \E i \in DOMAIN ic :
        /\ ic[i] = server /\ \A j \in 1..(i - 1) : ic[j] /= server
        /\ chain' = [chain EXCEPT ![irq] =
                       SubSeq(ic, 1, i - 1) \o SubSeq(ic, i + 1, Len(ic))]

(* Mistaken variant: other servers of the chain are forgotten. *)
RemIntServerAndDisable(irq, server) ==
  Unlink(irq, server) /\ Disable(irq) /\ UNCHANGED handlers
RemIntServer(irq, server) ==
  /\ Unlink(irq, server)
  /\ IF chain'[irq] = <<>> THEN Disable(irq) ELSE UNCHANGED <<intreq, intena>>
  /\ UNCHANGED handlers

-----------------------------------------------------------------------------
IPL == IF handlers = <<>> THEN 0 ELSE Level[handlers[1].irq]

(* A chain is called for its first server even if there is none. *)
First(irq) == IF chain[irq] = <<>> THEN "none" ELSE chain[irq][1]

(* Nothing of a lower level goes on before an interrupt that can be taken. *)
CanEnter(irq) == irq \in intena \intersect intreq /\ Level[irq] > IPL
Quiet == \A irq \in Irqs : ~CanEnter(irq)

(* The request is cleared before the servers are called. *)
EnterIntr(irq) ==
  /\ CanEnter(irq)
  /\ intreq' = intreq \ {irq}
  /\ handlers' = <<[irq |-> irq, is |-> First(irq), at |-> "call"]>> \o handlers
  /\ UNCHANGED <<chain, intena>>

Serving(server, at) ==
  Quiet /\ handlers /= <<>> /\ handlers[1].is = server /\ handlers[1].at = at
GoesTo(at) == handlers' = [handlers EXCEPT ![1].at = at]

(* The server returns.  Its successor is looked up after that. *)
ServerReturns ==
  LET ic == chain[handlers[1].irq]
      later == {i \in 2..Len(ic) : ic[i - 1] = handlers[1].is}
  IN  handlers' =
        IF later = {} THEN Tail(handlers)
          ELSE [handlers EXCEPT ![1].is = ic[CHOOSE i \in later : TRUE],
                                ![1].at = "call"]

InterruptsInit ==
  /\ chain = [irq \in Irqs |-> <<>>]
  /\ intena = {} /\ intreq = {} /\ handlers = <<>>

-----------------------------------------------------------------------------
(* An interrupt is enabled exactly when it has servers, so that none that  *)
(* comes finds its chain empty; servers stay in the order of priorities,   *)
(* each once; and the server that is running is still on its chain.        *)
ChainsServed ==
  /\ \A irq \in Irqs :
       /\ irq \in intena <=> chain[irq] /= <<>>
       /\ \A i, j \in DOMAIN chain[irq] :
            i < j => /\ chain[irq][i] /= chain[irq][j]
                     /\ Prio[chain[irq][i]] <= Prio[chain[irq][j]]
  /\ \A i \in DOMAIN handlers : handlers[i].is \in Servers(handlers[i].irq)
=============================================================================
