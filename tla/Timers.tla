-------------------------------- MODULE Timers --------------------------------
(***************************************************************************)
(* The timers of the two CIAs: system/drivers/cia-timer.c on the interrupt *)
(* control registers of cia-icr.c, with those that use them: the keyboard  *)
(* driver spins in its interrupt server, the floppy driver sleeps, and the *)
(* player of effects/playahx has a routine called at every underflow.      *)
(*                                                                         *)
(* A read of the register ICR clears it.  SampleICR keeps the bits nobody  *)
(* has asked for in pending, for the other servers of the chain.  All its  *)
(* calls come from servers, which do not interrupt each other on one chip, *)
(* so it is one step; WriteICR is one store that matters.  The cached mask *)
(* of WriteICR is never read and left out.                                 *)
(*                                                                         *)
(* Tasks run while no interrupt is handled, in any interleaving: which of  *)
(* them the scheduler chooses is the matter of module Scheduler.           *)
(***************************************************************************)
EXTENDS Interrupts

CONSTANTS
  Programs   \* sets of tasks at work together, each a sequence of calls

VARIABLES
  icr,       \* bits of each CIA that are set
  mask,      \* bits that request its interrupt
  pending,   \* _ICRPending: bits read, not asked for yet
  oneshot,   \* timers with the flag RUNMODE set
  started,   \* timers that count
  elapsed,   \* underflowed since it was loaded or its player called
  timeout,   \* routine of each timer
  inUse,     \* InUse
  own,       \* timer that a driver holds a pointer to
  kbd,       \* the keyboard has sent a code that is not acknowledged
  tasks,     \* the program at work
  at, stage  \* call a task is at, and where in it

cias == <<icr, mask, pending, oneshot, started, elapsed>>
drivers == <<timeout, inUse, own>>
control == <<tasks, at, stage>>
vars == <<interrupts, cias, drivers, kbd, control>>

CIA == {"ciaa", "ciab"}
Irq(cia) == IF cia = "ciaa" THEN "PORTS" ELSE "EXTER"
TimerSeq == <<"CIAA_A", "CIAA_B", "CIAB_A", "CIAB_B">>
TimerSet == {TimerSeq[i] : i \in 1..4}
Chip(t) == IF t \in {"CIAA_A", "CIAA_B"} THEN "ciaa" ELSE "ciab"
Bit(t) == IF t \in {"CIAA_A", "CIAB_A"} THEN "TA" ELSE "TB"

ASSUME ChainsAssumption ==
  {"PORTS", "EXTER"} \subseteq Irqs /\ TimerSet \union {"keyboard"} \subseteq DOMAIN Prio

-----------------------------------------------------------------------------
(* The drivers, the timer each asks for and what else it calls *)
Drivers == {"keyboard", "ahx", "floppy"}
Wanted == [keyboard |-> "CIAA_B", ahx |-> "ANY", floppy |-> "CIAB_A"]
CallsOf == [keyboard |-> {"KeyboardInit", "KeyboardKill"}, ahx |-> {"setup"},
            floppy |-> {"sleep"}]

(* A driver has called first, and not last since, before its call i. *)
Between(calls, i, who, first, last) ==
  \E k \in 1..(i - 1) :
    /\ calls[k].who = who /\ calls[k].call = first
    /\ \A l \in (k + 1)..(i - 1) : ~(calls[l].who = who /\ calls[l].call = last)
HasTimer(calls, i, who) == Between(calls, i, who, "acquire", "release")
IsOn(calls, i) == Between(calls, i, "keyboard", "KeyboardInit", "KeyboardKill")

(* A driver works for one task.  It has its timer acquired, once, before   *)
(* it uses it and until it releases it, and the keyboard's server is       *)
(* started once, and stopped before the timer is released.                 *)
DriverRules(program) ==
  \A task \in DOMAIN program :
    LET calls == program[task]
    IN  /\ calls \in Seq([call : STRING, who : Drivers, num : STRING])
        /\ \A i \in DOMAIN calls :
             LET c == calls[i]
             IN  /\ c.call \in CallsOf[c.who] \union {"acquire", "release"}
                 /\ c.call = "acquire" => c.num = Wanted[c.who]
                 /\ c.call = "acquire" <=> ~HasTimer(calls, i, c.who)
                 /\ c.who = "keyboard" => (c.call = "KeyboardKill" <=> IsOn(calls, i))
                 /\ \A other \in DOMAIN program :
                      \A j \in DOMAIN program[other] :
                        program[other][j].who = c.who => other = task

ASSUME ProgramsAssumption == \A program \in Programs : DriverRules(program)

-----------------------------------------------------------------------------
(* cia-icr.c *)
MaskICR(cia, bit) == mask' = [mask EXCEPT ![cia] = @ \ {bit}]
UnmaskICR(cia, bit) == mask' = [mask EXCEPT ![cia] = @ \union {bit}]

Sampled(cia) == icr[cia] \union pending[cia]
(* Mistaken variants: bits for others are lost; the bit asked for is kept. *)
SampleICRDrops(cia, bit) ==
  /\ icr' = [icr EXCEPT ![cia] = {}]
  /\ pending' = [pending EXCEPT ![cia] = {}]
SampleICRKeeps(cia, bit) ==
  /\ icr' = [icr EXCEPT ![cia] = {}]
  /\ pending' = [pending EXCEPT ![cia] = Sampled(cia)]
SampleICR(cia, bit) ==
  /\ icr' = [icr EXCEPT ![cia] = {}]
  /\ pending' = [pending EXCEPT ![cia] = Sampled(cia) \ {bit}]

(* Flags are only ever set in the control register. *)
LoadTimer(t, flags) ==
  /\ oneshot' = oneshot \union (IF "RUNMODE" \in flags THEN {t} ELSE {})
  /\ started' = started \union {t}
  /\ elapsed' = elapsed \ {t}

-----------------------------------------------------------------------------
(* What a task calls *)

InTask(task) == Quiet /\ handlers = <<>> /\ at[task] <= Len(tasks[task])
Now(task) == tasks[task][at[task]]
In(task, call, where) ==
  InTask(task) /\ Now(task).call = call /\ stage[task] = where
Goes(task, where) == stage' = [stage EXCEPT ![task] = where] /\ UNCHANGED at
Returns(task) ==
  /\ at' = [at EXCEPT ![task] = @ + 1]
  /\ stage' = [stage EXCEPT ![task] = "start"]
Again(task) == Goes(task, "start") \/ Returns(task)
Own(task) == own[Now(task).who]

(* The first timer not in use that is the one wanted, if one is. *)
AcquireTimer(task) ==
  /\ In(task, "acquire", "start")
  /\ LET fit == {i \in 1..4 : /\ TimerSeq[i] \notin inUse
                              /\ Now(task).num \in {"ANY", TimerSeq[i]}}
         i == CHOOSE i \in fit : \A j \in fit : i <= j
     IN  /\ fit /= {}
         /\ inUse' = inUse \union {TimerSeq[i]}
         /\ own' = [own EXCEPT ![Now(task).who] = TimerSeq[i]]
  /\ Goes(task, "add")
  /\ UNCHANGED <<interrupts, cias, timeout, kbd, tasks>>

(* Its server is added outside of the mutex. *)
AcquireTimerAdd(task) ==
  /\ In(task, "acquire", "add")
  /\ AddIntServer(Irq(Chip(Own(task))), Own(task))
  /\ Returns(task)
  /\ UNCHANGED <<cias, drivers, kbd, tasks>>

(* The timer goes on counting, unmasked, and keeps its routine. *)
ReleaseTimer(task) ==
  /\ In(task, "release", "start")
  /\ RemIntServer(Irq(Chip(Own(task))), Own(task))
  /\ inUse' = inUse \ {Own(task)}
  /\ Returns(task)
  /\ UNCHANGED <<cias, timeout, own, kbd, tasks>>

SetupTimer(task) ==
  /\ In(task, "setup", "start")
  /\ timeout' = [timeout EXCEPT ![Own(task)] = "AhxPlayerTimeout"]
  /\ MaskICR(Chip(Own(task)), Bit(Own(task)))
  /\ Goes(task, "load")
  /\ UNCHANGED <<interrupts, icr, pending, oneshot, started, elapsed, inUse,
                 own, kbd, tasks>>

SetupTimerLoad(task) ==
  /\ In(task, "setup", "load")
  /\ LoadTimer(Own(task), {})
  /\ Goes(task, "on")
  /\ UNCHANGED <<interrupts, icr, mask, pending, drivers, kbd, tasks>>

SetupTimerOn(task) ==
  /\ In(task, "setup", "on")
  /\ UnmaskICR(Chip(Own(task)), Bit(Own(task)))
  /\ Again(task)
  /\ UNCHANGED <<interrupts, icr, pending, oneshot, started, elapsed, drivers,
                 kbd, tasks>>

(* Mistaken variant: the interrupt stays on while the timer is set up. *)
WaitTimerSleepUnmasked(task) ==
  /\ In(task, "sleep", "start")
  /\ Goes(task, "load")
  /\ UNCHANGED <<interrupts, cias, drivers, kbd, tasks>>
WaitTimerSleep(task) ==
  /\ In(task, "sleep", "start")
  /\ MaskICR(Chip(Own(task)), Bit(Own(task)))
  /\ Goes(task, "load")
  /\ UNCHANGED <<interrupts, icr, pending, oneshot, started, elapsed, drivers,
                 kbd, tasks>>

WaitTimerSleepLoad(task) ==
  /\ In(task, "sleep", "load")
  /\ LoadTimer(Own(task), {"RUNMODE"})
  /\ Goes(task, "wait")
  /\ UNCHANGED <<interrupts, icr, mask, pending, drivers, kbd, tasks>>

(* With interrupts disabled up to the switch to another task. *)
WaitTimerSleepWait(task) ==
  /\ In(task, "sleep", "wait")
  /\ timeout' = [timeout EXCEPT ![Own(task)] = "NotifyTimeout"]
  /\ UnmaskICR(Chip(Own(task)), Bit(Own(task)))
  /\ Goes(task, "asleep")
  /\ UNCHANGED <<interrupts, icr, pending, oneshot, started, elapsed, inUse,
                 own, kbd, tasks>>

WaitTimerSleepReturns(task) ==
  /\ In(task, "sleep", "woken")
  /\ Again(task)
  /\ UNCHANGED <<interrupts, cias, drivers, kbd, tasks>>

(* KeyboardInit after AcquireTimer; KeyboardKill before ReleaseTimer. *)
KeyboardInitICR(task) ==
  /\ In(task, "KeyboardInit", "start")
  /\ UnmaskICR("ciaa", "SP")
  /\ Goes(task, "add")
  /\ UNCHANGED <<interrupts, icr, pending, oneshot, started, elapsed, drivers,
                 kbd, tasks>>

KeyboardInitAdd(task) ==
  /\ In(task, "KeyboardInit", "add")
  /\ AddIntServer("PORTS", "keyboard")
  /\ Returns(task)
  /\ UNCHANGED <<cias, drivers, kbd, tasks>>

KeyboardKill(task) ==
  /\ In(task, "KeyboardKill", "start")
  /\ RemIntServer("PORTS", "keyboard")
  /\ Returns(task)
  /\ UNCHANGED <<cias, drivers, kbd, tasks>>

Task(task) ==
  \/ AcquireTimer(task) \/ AcquireTimerAdd(task) \/ ReleaseTimer(task)
  \/ SetupTimer(task) \/ SetupTimerLoad(task) \/ SetupTimerOn(task)
  \/ WaitTimerSleep(task) \/ WaitTimerSleepLoad(task)
  \/ WaitTimerSleepWait(task) \/ WaitTimerSleepReturns(task)
  \/ KeyboardInitICR(task) \/ KeyboardInitAdd(task) \/ KeyboardKill(task)

-----------------------------------------------------------------------------
(* What servers do *)

(* TaskNotifyISR(timer->event): nobody may be waiting. *)
NotifyTimeout(t) ==
  /\ stage' = [task \in DOMAIN tasks |->
                 IF /\ stage[task] = "asleep" /\ Own(task) = t
                   THEN "woken" ELSE stage[task]]
  /\ UNCHANGED <<mask, oneshot, started, elapsed>>

(* AhxInterrupt may call AhxSetTempo, which calls SetupTimer. *)
AhxPlayerTimeout(t) ==
  /\ \/ elapsed' = elapsed \ {t} /\ UNCHANGED <<oneshot, started>>
     \/ LoadTimer(t, {})
  /\ UnmaskICR(Chip(t), Bit(t)) \/ UNCHANGED mask
  /\ UNCHANGED stage

(* A routine at address 0 ends what can be said. *)
CIATimerHandler(t) ==
  /\ Serving(t, "call")
  /\ SampleICR(Chip(t), Bit(t))
  /\ IF Bit(t) \in Sampled(Chip(t))
       THEN \/ /\ timeout[t] = "NULL" /\ GoesTo("lost")
               /\ UNCHANGED <<mask, oneshot, started, elapsed, stage>>
            \/ timeout[t] = "NotifyTimeout" /\ NotifyTimeout(t) /\ ServerReturns
            \/ timeout[t] = "AhxPlayerTimeout" /\ AhxPlayerTimeout(t) /\ ServerReturns
       ELSE ServerReturns /\ UNCHANGED <<mask, oneshot, started, elapsed, stage>>
  /\ UNCHANGED <<chain, intena, intreq, drivers, kbd, tasks, at>>

(* The code is read, and the handshake begins. *)
KeyboardIntHandler ==
  /\ Serving("keyboard", "call")
  /\ SampleICR("ciaa", "SP")
  /\ IF "SP" \in Sampled("ciaa") THEN GoesTo("load") ELSE ServerReturns
  /\ UNCHANGED <<chain, intena, intreq, mask, oneshot, started, elapsed,
                 drivers, kbd, control>>

WaitTimerSpin ==
  /\ Serving("keyboard", "load")
  /\ MaskICR(Chip(own["keyboard"]), Bit(own["keyboard"]))
  /\ LoadTimer(own["keyboard"], {"RUNMODE"})
  /\ GoesTo("spin")
  /\ UNCHANGED <<chain, intena, intreq, icr, pending, drivers, kbd, control>>

(* Mistaken variant: any bit ends the wait. *)
WaitTimerSpinSampleAny ==
  /\ Serving("keyboard", "spin")
  /\ SampleICR(Chip(own["keyboard"]), Bit(own["keyboard"]))
  /\ GoesTo(IF Sampled(Chip(own["keyboard"])) /= {} THEN "ack" ELSE "spin")
  /\ UNCHANGED <<chain, intena, intreq, mask, oneshot, started, elapsed,
                 drivers, kbd, control>>
(* while (!SampleICR(cia, icr)) *)
WaitTimerSpinSample ==
  /\ Serving("keyboard", "spin")
  /\ SampleICR(Chip(own["keyboard"]), Bit(own["keyboard"]))
  /\ GoesTo(IF Bit(own["keyboard"]) \in Sampled(Chip(own["keyboard"]))
              THEN "ack" ELSE "spin")
  /\ UNCHANGED <<chain, intena, intreq, mask, oneshot, started, elapsed,
                 drivers, kbd, control>>

(* Mistaken variant: codes of errors return before the handshake ends. *)
KeyboardAckSkipped ==
  /\ Serving("keyboard", "ack")
  /\ kbd' \in {kbd, FALSE}
  /\ ServerReturns
  /\ UNCHANGED <<chain, intena, intreq, cias, drivers, control>>
(* The handshake ends.  The event goes to the event queue. *)
KeyboardAck ==
  /\ Serving("keyboard", "ack")
  /\ kbd' = FALSE
  /\ ServerReturns
  /\ UNCHANGED <<chain, intena, intreq, cias, drivers, control>>

Server ==
  \/ \E t \in TimerSet : CIATimerHandler(t)
  \/ KeyboardIntHandler \/ WaitTimerSpin \/ WaitTimerSpinSample \/ KeyboardAck

-----------------------------------------------------------------------------
(* The machine *)

Underflow(t) ==
  /\ t \in started
  /\ icr' = [icr EXCEPT ![Chip(t)] = @ \union {Bit(t)}]
  /\ elapsed' = elapsed \union {t}
  /\ started' = started \ (oneshot \intersect {t})
  /\ UNCHANGED <<interrupts, mask, pending, oneshot, drivers, kbd, control>>

(* The keyboard sends a code, and sends again if it is not acknowledged. *)
SendKey ==
  /\ icr' = [icr EXCEPT !["ciaa"] = @ \union {"SP"}]
  /\ kbd' = TRUE
  /\ UNCHANGED <<interrupts, mask, pending, oneshot, started, elapsed, drivers,
                 control>>

(* A CIA requests its interrupt as long as a bit is set that is not masked. *)
Request(cia) ==
  /\ icr[cia] \intersect mask[cia] /= {}
  /\ Irq(cia) \notin intreq
  /\ intreq' = intreq \union {Irq(cia)}
  /\ UNCHANGED <<chain, intena, handlers, cias, drivers, kbd, control>>

Interrupt(irq) == EnterIntr(irq) /\ UNCHANGED <<cias, drivers, kbd, control>>

Next ==
  \/ \E task \in DOMAIN tasks : Task(task)
  \/ Server
  \/ \E irq \in Irqs : Interrupt(irq)
  \/ \E cia \in CIA : Request(cia)
  \/ \E t \in TimerSet : Underflow(t)
  \/ SendKey

(* The loader stops the timers, masks their interrupts and clears the bits. *)
Init ==
  /\ InterruptsInit
  /\ icr = [cia \in CIA |-> {}] /\ mask = icr /\ pending = icr
  /\ oneshot = {} /\ started = {} /\ elapsed = {}
  /\ timeout = [t \in TimerSet |-> "NULL"]
  /\ inUse = {} /\ own = [who \in Drivers |-> "none"]
  /\ kbd = FALSE
  /\ tasks \in Programs
  /\ at = [task \in DOMAIN tasks |-> 1]
  /\ stage = [task \in DOMAIN tasks |-> "start"]

(* Timers count, the CPU takes interrupts and goes on in servers, and an   *)
(* impatient keyboard sends its code again.                                *)
Fairness ==
  /\ WF_vars(Server)
  /\ \A irq \in Irqs : WF_vars(Interrupt(irq))
  /\ \A cia \in CIA : WF_vars(Request(cia))
  /\ \A t \in TimerSet : WF_vars(Underflow(t))
  /\ WF_vars(kbd /\ SendKey)

Spec == Init /\ [][Next]_vars /\ Fairness

-----------------------------------------------------------------------------
(* No server calls the routine of a timer that was never given one, as the *)
(* keyboard's is not, although that timer has its server on the chain that *)
(* runs after each key.                                                    *)
NoNullTimeout == \A i \in DOMAIN handlers : handlers[i].at /= "lost"

(* A wait returns only after its own delay, neither woken nor released by  *)
(* a bit that an earlier underflow has left in a register or in pending.   *)
WaitsDelay ==
  /\ \A task \in DOMAIN tasks : stage[task] = "woken" => Own(task) \in elapsed
  /\ \A i \in DOMAIN handlers :
       handlers[i].at = "ack" => own["keyboard"] \in elapsed

(* A task that sleeps is woken: the timeout is noticed even if it comes    *)
(* while the interrupt is masked.                                          *)
SleepEnds ==
  \A task \in {"main", "disk"} :
    (task \in DOMAIN tasks /\ stage[task] = "asleep") ~>
      (stage[task] /= "asleep")

(* A code that the keyboard sends is acknowledged while the driver is      *)
(* there, even if the player's server has read the bit before.             *)
KeysHandled ==
  (kbd /\ "keyboard" \in Servers("PORTS")) ~>
    (~kbd \/ "keyboard" \notin Servers("PORTS"))

(* The player is called after an underflow of its timer, even if the       *)
(* keyboard driver has read the bit while it was waiting for its own.      *)
TicksServed ==
  \A t \in TimerSet :
    LET Ticks == timeout[t] = "AhxPlayerTimeout" /\ Bit(t) \in mask[Chip(t)]
                   /\ t \in Servers(Irq(Chip(t)))
    IN  (Ticks /\ t \in elapsed) ~> (~Ticks \/ t \notin elapsed)
=============================================================================
