---------------------------- MODULE TimersProofs ----------------------------
(***************************************************************************)
(* What the runs of MCTimers check of the server chains and of the waits   *)
(* of timers holds for all programs that follow DriverRules, and for all   *)
(* levels of interrupts and priorities of servers.                         *)
(*                                                                         *)
(* A driver has its timer in use, and its server on the chain, as the      *)
(* calls of its task say.  A timer counts, or its bit is set in the ICR or *)
(* among the pending ones, only while its driver waits for it; the player, *)
(* which never waits, has set its routine by then.  The other bits of an   *)
(* ICR do not matter to a driver, whoever reads them.                      *)
(***************************************************************************)
EXTENDS Timers, TLAPS

(* The timer that each driver gets: the first is left for the player, who  *)
(* takes any.                                                              *)
TimerOf == [keyboard |-> "CIAA_B", ahx |-> "CIAA_A", floppy |-> "CIAB_A"]

-----------------------------------------------------------------------------
(* Where the tasks are *)
Works(task, who, call, where) ==
  /\ at[task] \in DOMAIN tasks[task]
  /\ Now(task).who = who /\ Now(task).call = call /\ stage[task] = where
Does(who, call, where) == \E task \in DOMAIN tasks : Works(task, who, call, where)
Sleeps(where) == Does("floppy", "sleep", where)

Adding(who) == Does(who, "acquire", "add")
Added(who) == \E task \in DOMAIN tasks : HasTimer(tasks[task], at[task], who)
KeyboardOn == \E task \in DOMAIN tasks : IsOn(tasks[task], at[task])

-----------------------------------------------------------------------------
Stages == [acquire |-> {"start", "add"}, release |-> {"start"},
           setup |-> {"start", "load", "on"},
           sleep |-> {"start", "load", "wait", "asleep", "woken"},
           KeyboardInit |-> {"start", "add"}, KeyboardKill |-> {"start"}]
StageSet == {"start", "add", "load", "on", "wait", "asleep", "woken"}
Bits == {"TA", "TB", "SP"}
ServerSet == TimerSet \cup {"keyboard"}
Activation == [irq : Irqs, is : ServerSet, at : {"call", "load", "spin", "ack"}]

TasksOK ==
  /\ tasks \in Programs
  /\ at \in [DOMAIN tasks -> Nat] /\ stage \in [DOMAIN tasks -> StageSet]
  /\ \A task \in DOMAIN tasks :
       /\ at[task] \in 1..(Len(tasks[task]) + 1)
       /\ stage[task] \in IF at[task] \in DOMAIN tasks[task]
                          THEN Stages[Now(task).call] ELSE {"start"}
ChipsOK ==
  /\ icr \in [CIA -> SUBSET Bits] /\ mask \in [CIA -> SUBSET Bits]
  /\ pending \in [CIA -> SUBSET Bits]
  /\ oneshot \in SUBSET TimerSet /\ started \in SUBSET TimerSet
  /\ elapsed \in SUBSET TimerSet
  /\ timeout \in [TimerSet -> {"NULL", "NotifyTimeout", "AhxPlayerTimeout"}]
  /\ inUse \in SUBSET TimerSet /\ own \in [Drivers -> TimerSet \cup {"none"}]
IntrOK ==
  /\ chain \in [Irqs -> Seq(ServerSet)]
  /\ intena \in SUBSET Irqs /\ intreq \in SUBSET Irqs
  /\ handlers \in Seq(Activation)

(* Who has which timer *)
Owners ==
  /\ \A who \in Drivers : own[who] \in {"none", TimerOf[who]}
  /\ \A who \in Drivers : Added(who) \/ Adding(who) => own[who] = TimerOf[who]
  /\ \A t \in inUse : \E who \in Drivers :
       t = TimerOf[who] /\ (Added(who) \/ Adding(who))

(* Which servers are on the chains, and in which order *)
OnChain(irq, s) ==
  \/ \E who \in Drivers : s = TimerOf[who] /\ irq = Irq(Chip(s)) /\ Added(who)
  \/ s = "keyboard" /\ irq = "PORTS" /\ KeyboardOn
Ordered(ic) ==
  \A i, j \in DOMAIN ic : i < j => ic[i] # ic[j] /\ Prio[ic[i]] <= Prio[ic[j]]
ChainsOK ==
  \A irq \in Irqs : Ordered(chain[irq]) /\ (irq \in intena <=> chain[irq] # <<>>)
Chains ==
  /\ ChainsOK
  /\ \A irq \in Irqs : \A s \in ServerSet : s \in Servers(irq) <=> OnChain(irq, s)

(* The stack of handlers *)
Nested ==
  /\ \A i, j \in DOMAIN handlers : i < j => Level[handlers[i].irq] > Level[handlers[j].irq]
  /\ \A i \in DOMAIN handlers :
       /\ handlers[i].is \in Servers(handlers[i].irq)
       /\ handlers[i].at # "call" => handlers[i].is = "keyboard"
Handles(irq) == \E i \in DOMAIN handlers : handlers[i].irq = irq
KeyboardAt(where) == \E i \in DOMAIN handlers : handlers[i].at = where

(* The timers *)
Seen(t) == Bit(t) \in Sampled(Chip(t))
Busy(t) == t \in started \/ Seen(t)
(* A timer that a driver waits for fires once. *)
Once(t) == /\ t \in started => t \in oneshot /\ ~Seen(t)
           /\ Seen(t) => t \in elapsed

KeyboardWaits ==
  /\ Once("CIAA_B") /\ (Busy("CIAA_B") => KeyboardAt("spin"))
  /\ KeyboardAt("ack") => "CIAA_B" \in elapsed
PlayerTicks ==
  /\ Busy("CIAA_A") \/ Does("ahx", "setup", "load") \/ Does("ahx", "setup", "on") =>
       timeout["CIAA_A"] = "AhxPlayerTimeout"
  /\ timeout["CIAA_A"] # "NotifyTimeout"
FloppyWaits ==
  /\ Once("CIAB_A") /\ (Busy("CIAB_A") => Sleeps("wait") \/ Sleeps("asleep"))
  /\ Sleeps("asleep") \/ Sleeps("woken") => timeout["CIAB_A"] = "NotifyTimeout"
  /\ Sleeps("load") \/ Sleeps("wait") => "TA" \notin mask["ciab"]
  /\ Sleeps("woken") => "CIAB_A" \in elapsed
  /\ "EXTER" \in intreq \/ Handles("EXTER") => Sleeps("asleep") \/ Sleeps("woken")
OthersRest ==
  "CIAB_B" \notin started /\ "TB" \notin Sampled("ciab") /\ "SP" \notin Sampled("ciab")

Inv1 == TasksOK /\ ChipsOK /\ IntrOK /\ Owners /\ Chains /\ Nested
Inv2 == KeyboardWaits /\ PlayerTicks /\ FloppyWaits /\ OthersRest
IInv == Inv1 /\ Inv2

-----------------------------------------------------------------------------
(* What the calls before the next one say, from those before this one.      *)
LEMMA BetweenNext ==
  ASSUME NEW calls, NEW i \in Nat, i >= 1, NEW who, NEW first, NEW last, first # last
  PROVE  Between(calls, i + 1, who, first, last) <=>
           \/ calls[i].who = who /\ calls[i].call = first
           \/ /\ Between(calls, i, who, first, last)
              /\ ~(calls[i].who = who /\ calls[i].call = last)
<1> DEFINE on(k) == calls[k].who = who /\ calls[k].call = first
           off(k) == calls[k].who = who /\ calls[k].call = last
<1>1. Between(calls, i + 1, who, first, last) <=>
        \E k \in 1..i : on(k) /\ \A l \in (k + 1)..i : ~off(l)
  BY DEF Between
<1>2. Between(calls, i, who, first, last) <=>
        \E k \in 1..(i - 1) : on(k) /\ \A l \in (k + 1)..(i - 1) : ~off(l)
  BY DEF Between
<1>3. ~(on(i) /\ off(i))
  OBVIOUS
<1> HIDE DEF on, off
<1>4. (\E k \in 1..i : on(k) /\ \A l \in (k + 1)..i : ~off(l)) <=>
        \/ on(i)
        \/ /\ \E k \in 1..(i - 1) : on(k) /\ \A l \in (k + 1)..(i - 1) : ~off(l)
           /\ ~off(i)
  <2>1. ASSUME NEW k \in 1..i, on(k), \A l \in (k + 1)..i : ~off(l), ~on(i)
        PROVE  /\ k \in 1..(i - 1) /\ \A l \in (k + 1)..(i - 1) : ~off(l)
               /\ ~off(i)
    BY <2>1
  <2>2. ASSUME NEW k \in 1..(i - 1), on(k), \A l \in (k + 1)..(i - 1) : ~off(l), ~off(i)
        PROVE  k \in 1..i /\ \A l \in (k + 1)..i : ~off(l)
    BY <2>2
  <2>3. on(i) => i \in 1..i /\ \A l \in (i + 1)..i : ~off(l)
    OBVIOUS
  <2>4. QED
    BY <2>1, <2>2, <2>3
<1>5. QED
  BY <1>1, <1>2, <1>4 DEF on, off

(* Who calls what, and that what a driver has called is in its own task.    *)
LEMMA Rules ==
  ASSUME TasksOK, NEW task \in DOMAIN tasks
  PROVE  /\ tasks[task] \in Seq([call : STRING, who : Drivers, num : STRING])
         /\ DOMAIN tasks[task] = 1..Len(tasks[task]) /\ Len(tasks[task]) \in Nat
         /\ at[task] \in 1..(Len(tasks[task]) + 1)
<1>1. DriverRules(tasks)
  BY ProgramsAssumption DEF TasksOK
<1>2. tasks[task] \in Seq([call : STRING, who : Drivers, num : STRING])
  BY <1>1 DEF DriverRules
<1>3. QED
  BY <1>2 DEF TasksOK

LEMMA RulesAt ==
  ASSUME TasksOK, NEW task \in DOMAIN tasks, NEW i \in DOMAIN tasks[task], NEW who, NEW call,
         tasks[task][i].who = who, tasks[task][i].call = call
  PROVE  /\ who \in Drivers /\ call \in CallsOf[who] \cup {"acquire", "release"}
         /\ call = "acquire" => tasks[task][i].num = Wanted[who]
         /\ call = "acquire" <=> ~HasTimer(tasks[task], i, who)
         /\ who = "keyboard" => (call = "KeyboardKill" <=> IsOn(tasks[task], i))
         /\ \A other \in DOMAIN tasks : \A j \in DOMAIN tasks[other] :
              tasks[other][j].who = who => other = task
<1>1. DriverRules(tasks)
  BY ProgramsAssumption DEF TasksOK
<1>2. tasks[task][i] \in [call : STRING, who : Drivers, num : STRING]
  <2> DEFINE Call == [call : STRING, who : Drivers, num : STRING]
             calls == tasks[task]
  <2>1. calls \in Seq(Call)
    BY Rules
  <2> HIDE DEF Call, calls
  <2>2. \A j \in DOMAIN calls : calls[j] \in Call
    BY <2>1
  <2>3. QED
    BY <2>2 DEF Call, calls
<1>3. QED
  BY <1>1, <1>2 DEF DriverRules

(* A driver whose call before this one is somewhere in a task.              *)
LEMMA BetweenIn ==
  ASSUME TasksOK, NEW other \in DOMAIN tasks, NEW who, NEW first, NEW last,
         Between(tasks[other], at[other], who, first, last)
  PROVE  \E j \in DOMAIN tasks[other] : tasks[other][j].who = who
<1>1. PICK k \in 1..(at[other] - 1) : tasks[other][k].who = who
  BY DEF Between
<1>2. at[other] \in 1..(Len(tasks[other]) + 1) /\ DOMAIN tasks[other] = 1..Len(tasks[other])
  BY Rules
<1>3. k \in DOMAIN tasks[other]
  BY <1>2
<1>4. QED
  BY <1>1, <1>3

-----------------------------------------------------------------------------
(* A task is at a call: where its driver is.                                *)
Here(who, call, where) ==
  /\ \A c, x : Does(who, c, x) <=> c = call /\ x = where
  /\ Added(who) <=> call # "acquire"
  /\ who = "keyboard" => (KeyboardOn <=> call = "KeyboardKill")

LEMMA WorksHere ==
  ASSUME TasksOK, NEW task \in DOMAIN tasks, NEW who, NEW call, NEW where,
         Works(task, who, call, where)
  PROVE  /\ who \in Drivers /\ call \in CallsOf[who] \cup {"acquire", "release"}
         /\ where \in Stages[call]
         /\ call = "acquire" => Now(task).num = Wanted[who]
         /\ Here(who, call, where)
<1> DEFINE i == at[task]
           calls == tasks[task]
<1>1. i \in DOMAIN calls /\ calls[i].who = who /\ calls[i].call = call /\ stage[task] = where
  BY DEF Works, Now
<1>2. /\ who \in Drivers /\ call \in CallsOf[who] \cup {"acquire", "release"}
      /\ call = "acquire" => calls[i].num = Wanted[who]
      /\ call = "acquire" <=> ~HasTimer(calls, i, who)
      /\ who = "keyboard" => (call = "KeyboardKill" <=> IsOn(calls, i))
      /\ \A other \in DOMAIN tasks : \A j \in DOMAIN tasks[other] :
           tasks[other][j].who = who => other = task
  BY <1>1, RulesAt
<1>3. where \in Stages[call]
  BY <1>1 DEF TasksOK, Now
<1>4. \A other \in DOMAIN tasks : \A c, x : Works(other, who, c, x) <=> other = task /\ c = call /\ x = where
  BY <1>1, <1>2 DEF Works, Now
<1>5. \A other \in DOMAIN tasks : HasTimer(tasks[other], at[other], who) => other = task
  BY <1>2, BetweenIn DEF HasTimer
<1>6. Added(who) <=> call # "acquire"
  BY <1>2, <1>5 DEF Added
<1>7. who = "keyboard" => (KeyboardOn <=> call = "KeyboardKill")
  <2>1. who = "keyboard" => \A other \in DOMAIN tasks : IsOn(tasks[other], at[other]) => other = task
    BY <1>2, BetweenIn DEF IsOn
  <2>2. QED
    BY <1>2, <2>1 DEF KeyboardOn
<1>8. \A c, x : Does(who, c, x) <=> c = call /\ x = where
  BY <1>4 DEF Does
<1>9. Now(task).num = calls[i].num
  BY DEF Now
<1>10. QED
  BY <1>2, <1>3, <1>6, <1>7, <1>8, <1>9 DEF Here

(* What a step leaves of it: all, or the stage changes, or the call ends.   *)
SameAdded ==
  /\ \A who : Added(who)' <=> Added(who)
  /\ KeyboardOn' <=> KeyboardOn
Stays == SameAdded /\ \A who, c, x : Does(who, c, x)' <=> Does(who, c, x)
Moves(who, call, to) ==
  /\ SameAdded
  /\ \A w, c, x : Does(w, c, x)' <=>
       IF w = who THEN c = call /\ x = to ELSE Does(w, c, x)
Ends(who, call) ==
  /\ \A w, c, x : x # "start" => (Does(w, c, x)' <=> w # who /\ Does(w, c, x))
  /\ \A w : Added(w)' <=> IF w = who THEN call # "release" ELSE Added(w)
  /\ KeyboardOn' <=> IF who = "keyboard" THEN call = "KeyboardInit" ELSE KeyboardOn

LEMMA StaysSo ==
  ASSUME TasksOK, UNCHANGED control
  PROVE  TasksOK' /\ Stays
BY DEF control, TasksOK, Stays, SameAdded, Added, KeyboardOn, Does, Works, Now

LEMMA MovesTo ==
  ASSUME TasksOK, NEW task \in DOMAIN tasks, NEW who, NEW call, NEW where,
         Works(task, who, call, where), NEW to \in Stages[call], Goes(task, to), UNCHANGED tasks
  PROVE  TasksOK' /\ Moves(who, call, to)
<1>1. Here(who, call, where) /\ call \in CallsOf[who] \cup {"acquire", "release"} /\ who \in Drivers
  BY WorksHere
<1>2. tasks' = tasks /\ at' = at /\ stage' = [stage EXCEPT ![task] = to]
  BY DEF Goes
<1>3. stage \in [DOMAIN tasks -> StageSet] /\ to \in StageSet
  <2>1. call \in {"acquire", "release", "KeyboardInit", "KeyboardKill", "setup", "sleep"}
    BY <1>1 DEF Drivers, CallsOf
  <2>2. \A x \in Stages[call] : x \in StageSet
    BY <2>1 DEF Stages, StageSet
  <2>3. QED
    BY <2>2 DEF TasksOK
<1>9. \A other \in DOMAIN tasks : \A j \in DOMAIN tasks[other] :
        tasks[other][j].who = who => other = task
  BY RulesAt DEF Works, Now
<1>4. stage' \in [DOMAIN tasks -> StageSet]
      /\ \A other \in DOMAIN tasks : stage'[other] = IF other = task THEN to ELSE stage[other]
  BY <1>2, <1>3
<1>5. TasksOK'
  <2>1. Now(task).call = call /\ at[task] \in DOMAIN tasks[task]
    BY DEF Works
  <2>2. \A other \in DOMAIN tasks : stage'[other] \in
          IF at[other] \in DOMAIN tasks[other] THEN Stages[Now(other).call] ELSE {"start"}
    BY <1>4, <2>1 DEF TasksOK
  <2>3. QED
    BY <1>2, <1>4, <2>2 DEF TasksOK, Now
<1>6. SameAdded
  BY <1>2 DEF SameAdded, Added, KeyboardOn
<1>7. \A w, c, x : Does(w, c, x)' <=> IF w = who THEN c = call /\ x = to ELSE Does(w, c, x)
  <2>1. \A other \in DOMAIN tasks : \A w, c, x :
          Works(other, w, c, x)' <=> IF other = task THEN w = who /\ c = call /\ x = to
                                                     ELSE Works(other, w, c, x)
    BY <1>2, <1>4 DEF Works, Now
  <2>2. \A other \in DOMAIN tasks : \A c, x : Works(other, who, c, x) => other = task
    BY <1>9 DEF Works, Now
  <2>3. \A w, c, x : w # who => ~Works(task, w, c, x)
    BY DEF Works
  <2>4. QED
    BY <1>2, <2>1, <2>2, <2>3 DEF Does
<1>8. QED
  BY <1>5, <1>6, <1>7 DEF Moves

LEMMA EndsThere ==
  ASSUME TasksOK, NEW task \in DOMAIN tasks, NEW who, NEW call, NEW where,
         Works(task, who, call, where), Returns(task), UNCHANGED tasks
  PROVE  TasksOK' /\ Ends(who, call)
<1> DEFINE calls == tasks[task]
           i == at[task]
<1>1. Here(who, call, where) /\ call \in CallsOf[who] \cup {"acquire", "release"} /\ who \in Drivers
  BY WorksHere
<1>2. tasks' = tasks /\ at' = [at EXCEPT ![task] = @ + 1] /\ stage' = [stage EXCEPT ![task] = "start"]
  BY DEF Returns
<1>3. at \in [DOMAIN tasks -> Nat] /\ stage \in [DOMAIN tasks -> StageSet]
  BY DEF TasksOK
<1>4. /\ stage' \in [DOMAIN tasks -> StageSet] /\ at' \in [DOMAIN tasks -> Nat]
      /\ \A other \in DOMAIN tasks :
           /\ stage'[other] = IF other = task THEN "start" ELSE stage[other]
           /\ at'[other] = IF other = task THEN i + 1 ELSE at[other]
  <2>1. i \in Nat /\ "start" \in StageSet
    BY <1>3 DEF StageSet
  <2>2. at' = [at EXCEPT ![task] = i + 1]
    BY <1>2
  <2> HIDE DEF i
  <2>3. at' \in [DOMAIN tasks -> Nat]
        /\ \A other \in DOMAIN tasks : at'[other] = IF other = task THEN i + 1 ELSE at[other]
    BY <1>3, <2>1, <2>2
  <2>4. QED
    BY <1>2, <1>3, <2>1, <2>3
<1>5. i \in DOMAIN calls /\ DOMAIN calls = 1..Len(calls) /\ Len(calls) \in Nat
      /\ calls[i].who = who /\ calls[i].call = call
  BY Rules DEF Works, Now
<1>11. \A other \in DOMAIN tasks : \A j \in DOMAIN tasks[other] :
        tasks[other][j].who = who => other = task
  BY <1>5, RulesAt
<1>6. TasksOK'
  <2>1. \A other \in DOMAIN tasks : at'[other] \in 1..(Len(tasks[other]) + 1)
    BY <1>4, <1>5 DEF TasksOK
  <2>2. at'[task] \in DOMAIN calls => "start" \in Stages[calls[at'[task]].call]
    <3>1. SUFFICES ASSUME at'[task] \in DOMAIN calls
                   PROVE  "start" \in Stages[calls[at'[task]].call]
      OBVIOUS
    <3>2. /\ calls[at'[task]].who \in Drivers
          /\ calls[at'[task]].call \in CallsOf[calls[at'[task]].who] \cup {"acquire", "release"}
      BY <3>1, RulesAt
    <3>3. calls[at'[task]].call \in {"acquire", "release", "KeyboardInit", "KeyboardKill",
                                     "setup", "sleep"}
      BY <3>2 DEF Drivers, CallsOf
    <3>4. QED
      BY <3>3 DEF Stages
  <2>3. \A other \in DOMAIN tasks : stage'[other] \in
          IF at'[other] \in DOMAIN tasks[other] THEN Stages[tasks[other][at'[other]].call]
                                                ELSE {"start"}
    BY <1>4, <2>2 DEF TasksOK, Now
  <2>4. QED
    BY <1>2, <1>4, <2>1, <2>3 DEF TasksOK, Now
<1>7. \A w, c, x : x # "start" => (Does(w, c, x)' <=> w # who /\ Does(w, c, x))
  <2>1. \A other \in DOMAIN tasks : \A w, c, x : x # "start" =>
          (Works(other, w, c, x)' <=> other # task /\ Works(other, w, c, x))
    BY <1>2, <1>4 DEF Works, Now
  <2>2. \A other \in DOMAIN tasks : \A c, x : Works(other, who, c, x) => other = task
    BY <1>11 DEF Works, Now
  <2>3. \A w, c, x : w # who => ~Works(task, w, c, x)
    BY DEF Works
  <2>4. QED
    BY <1>2, <2>1, <2>2, <2>3 DEF Does
<1>8. \A w : Added(w)' <=> IF w = who THEN call # "release" ELSE Added(w)
  <2>1. \A w : HasTimer(calls, i + 1, w) <=>
                 (w = who /\ call = "acquire") \/ (HasTimer(calls, i, w) /\ ~(w = who /\ call = "release"))
    <3>1. i \in Nat /\ i >= 1 /\ "acquire" # "release"
      BY <1>5
    <3>2. \A w : HasTimer(calls, i + 1, w) <=>
            \/ calls[i].who = w /\ calls[i].call = "acquire"
            \/ HasTimer(calls, i, w) /\ ~(calls[i].who = w /\ calls[i].call = "release")
      BY <3>1, BetweenNext DEF HasTimer
    <3>3. QED
      BY <1>5, <3>2
  <2>2. Added(who) <=> call # "acquire"
    BY <1>1 DEF Here
  <2>3. \A other \in DOMAIN tasks : HasTimer(tasks[other], at[other], who) => other = task
    BY <1>11, BetweenIn DEF HasTimer
  <2>4. Added(who) <=> HasTimer(calls, i, who)
    BY <2>3 DEF Added
  <2>5. \A w : Added(w)' <=> \E other \in DOMAIN tasks : HasTimer(tasks[other], at'[other], w)
    BY <1>2 DEF Added
  <2>6. \A other \in DOMAIN tasks : \A w : HasTimer(tasks[other], at'[other], w) <=>
          IF other = task THEN HasTimer(calls, i + 1, w) ELSE HasTimer(tasks[other], at[other], w)
    BY <1>4
  <2>7. QED
    BY <2>1, <2>2, <2>3, <2>4, <2>5, <2>6 DEF Added
<1>9. KeyboardOn' <=> IF who = "keyboard" THEN call = "KeyboardInit" ELSE KeyboardOn
  <2>1. IsOn(calls, i + 1) <=>
          \/ who = "keyboard" /\ call = "KeyboardInit"
          \/ IsOn(calls, i) /\ ~(who = "keyboard" /\ call = "KeyboardKill")
    <3>1. i \in Nat /\ i >= 1 /\ "KeyboardInit" # "KeyboardKill"
      BY <1>5
    <3>2. IsOn(calls, i + 1) <=>
            \/ calls[i].who = "keyboard" /\ calls[i].call = "KeyboardInit"
            \/ IsOn(calls, i) /\ ~(calls[i].who = "keyboard" /\ calls[i].call = "KeyboardKill")
      BY <3>1, BetweenNext DEF IsOn
    <3>3. QED
      BY <1>5, <3>2
  <2>2. who = "keyboard" => (KeyboardOn <=> call = "KeyboardKill")
    BY <1>1 DEF Here
  <2>3. who = "keyboard" => \A other \in DOMAIN tasks : IsOn(tasks[other], at[other]) => other = task
    BY <1>11, BetweenIn DEF IsOn
  <2>4. KeyboardOn' <=> \E other \in DOMAIN tasks : IsOn(tasks[other], at'[other])
    BY <1>2 DEF KeyboardOn
  <2>5. \A other \in DOMAIN tasks : IsOn(tasks[other], at'[other]) <=>
          IF other = task THEN IsOn(calls, i + 1) ELSE IsOn(tasks[other], at[other])
    BY <1>4
  <2>6. KeyboardOn <=> \E other \in DOMAIN tasks : IsOn(tasks[other], at[other])
    BY DEF KeyboardOn
  <2>7. QED
    BY <2>1, <2>2, <2>3, <2>4, <2>5, <2>6
<1>10. QED
  BY <1>6, <1>7, <1>8, <1>9 DEF Ends

-----------------------------------------------------------------------------
(* Chains: a server is put before the first of no lower priority, or taken  *)
(* out.                                                                     *)
Members(ic) == {ic[i] : i \in DOMAIN ic}

LEMMA Joined ==
  ASSUME NEW S, NEW a \in Seq(S), NEW b \in Seq(S)
  PROVE  /\ a \o b \in Seq(S) /\ Len(a \o b) = Len(a) + Len(b)
         /\ \A k \in 1..(Len(a) + Len(b)) :
              (a \o b)[k] = IF k <= Len(a) THEN a[k] ELSE b[k - Len(a)]
OBVIOUS

PutIn(jc, ic, s, i) ==
  /\ Len(jc) = Len(ic) + 1
  /\ \A k \in 1..(Len(ic) + 1) :
       jc[k] = IF k <= i THEN ic[k] ELSE IF k = i + 1 THEN s ELSE ic[k - 1]
TakenOut(jc, ic, i) ==
  /\ Len(jc) = Len(ic) - 1
  /\ \A k \in 1..(Len(ic) - 1) : jc[k] = IF k < i THEN ic[k] ELSE ic[k + 1]

LEMMA InsertIs ==
  ASSUME NEW S, NEW ic \in Seq(S), NEW s \in S, NEW i \in 0..Len(ic)
  PROVE  LET jc == SubSeq(ic, 1, i) \o <<s>> \o SubSeq(ic, i + 1, Len(ic))
         IN  jc \in Seq(S) /\ PutIn(jc, ic, s, i)
<1> DEFINE a == SubSeq(ic, 1, i)
           b == SubSeq(ic, i + 1, Len(ic))
<1>1. /\ a \in Seq(S) /\ Len(a) = i /\ \A k \in 1..i : a[k] = ic[k]
  OBVIOUS
<1>2. /\ b \in Seq(S) /\ Len(b) = Len(ic) - i
      /\ \A k \in 1..(Len(ic) - i) : b[k] = ic[k + i]
  OBVIOUS
<1> HIDE DEF a, b
<1>3. /\ a \o <<s>> \in Seq(S) /\ Len(a \o <<s>>) = i + 1
      /\ \A k \in 1..(i + 1) : (a \o <<s>>)[k] = IF k <= i THEN ic[k] ELSE s
  BY <1>1
<1> DEFINE c == a \o <<s>>
<1> HIDE DEF c
<1>4. /\ c \in Seq(S) /\ Len(c) = i + 1 /\ \A k \in 1..(i + 1) : c[k] = IF k <= i THEN ic[k] ELSE s
  BY <1>3 DEF c
<1>5. /\ c \o b \in Seq(S) /\ Len(c \o b) = Len(ic) + 1
      /\ \A k \in 1..(Len(ic) + 1) :
           (c \o b)[k] = IF k <= i + 1 THEN c[k] ELSE b[k - (i + 1)]
  <2>1. Len(c) + Len(b) = Len(ic) + 1
    BY <1>2, <1>4
  <2>2. QED
    BY <1>2, <1>4, <2>1, Joined
<1>6. ASSUME NEW k \in 1..(Len(ic) + 1), k > i + 1
      PROVE  b[k - (i + 1)] = ic[k - 1]
  BY <1>2, <1>6
<1>7. QED
  <2>1. PutIn(c \o b, ic, s, i)
    BY <1>4, <1>5, <1>6 DEF PutIn
  <2>2. QED
    BY <1>5, <2>1 DEF a, b, c

LEMMA RemoveIs ==
  ASSUME NEW S, NEW ic \in Seq(S), NEW i \in DOMAIN ic
  PROVE  LET jc == SubSeq(ic, 1, i - 1) \o SubSeq(ic, i + 1, Len(ic))
         IN  jc \in Seq(S) /\ TakenOut(jc, ic, i)
<1> DEFINE a == SubSeq(ic, 1, i - 1)
           b == SubSeq(ic, i + 1, Len(ic))
<1>1. /\ a \in Seq(S) /\ Len(a) = i - 1 /\ \A k \in 1..(i - 1) : a[k] = ic[k]
  OBVIOUS
<1>2. /\ b \in Seq(S) /\ Len(b) = Len(ic) - i
      /\ \A k \in 1..(Len(ic) - i) : b[k] = ic[k + i]
  OBVIOUS
<1> HIDE DEF a, b
<1>3. /\ a \o b \in Seq(S) /\ Len(a \o b) = Len(ic) - 1
      /\ \A k \in 1..(Len(ic) - 1) :
           (a \o b)[k] = IF k <= i - 1 THEN a[k] ELSE b[k - (i - 1)]
  <2>1. Len(a) + Len(b) = Len(ic) - 1
    BY <1>1, <1>2
  <2>2. /\ a \o b \in Seq(S) /\ Len(a \o b) = Len(a) + Len(b)
        /\ \A k \in 1..(Len(a) + Len(b)) :
             (a \o b)[k] = IF k <= Len(a) THEN a[k] ELSE b[k - Len(a)]
    BY <1>1, <1>2, Joined
  <2>3. QED
    BY <1>1, <2>1, <2>2
<1>4. ASSUME NEW k \in 1..(Len(ic) - 1), ~(k < i)
      PROVE  b[k - (i - 1)] = ic[k + 1]
  BY <1>2, <1>4
<1>5. ASSUME NEW k \in 1..(Len(ic) - 1)
      PROVE  (a \o b)[k] = IF k < i THEN ic[k] ELSE ic[k + 1]
  <2>1. Len(ic) \in Nat /\ i \in 1..Len(ic) /\ k \in Int
    OBVIOUS
  <2>2. CASE k < i
    <3>1. k <= i - 1 /\ k \in 1..(i - 1)
      BY <2>1, <2>2
    <3>2. (a \o b)[k] = a[k] /\ a[k] = ic[k]
      BY <1>1, <1>3, <3>1
    <3>3. QED
      BY <2>2, <3>2
  <2>3. CASE ~(k < i)
    <3>1. ~(k <= i - 1)
      BY <2>1, <2>3
    <3>2. (a \o b)[k] = b[k - (i - 1)] /\ b[k - (i - 1)] = ic[k + 1]
      BY <1>3, <1>4, <2>3, <3>1
    <3>3. QED
      BY <2>3, <3>2
  <2>4. QED
    BY <2>2, <2>3
<1>6. TakenOut(a \o b, ic, i)
  BY <1>3, <1>5 DEF TakenOut
<1>7. QED
  BY <1>3, <1>6 DEF a, b

LEMMA InsertOrders ==
  ASSUME NEW ic \in Seq(ServerSet), Ordered(ic), NEW s \in ServerSet, s \notin Members(ic),
         NEW i \in 0..Len(ic), \A j \in 1..i : Prio[ic[j]] < Prio[s],
         i < Len(ic) => ~(Prio[ic[i + 1]] < Prio[s]),
         NEW jc \in Seq(ServerSet), PutIn(jc, ic, s, i)
  PROVE  Ordered(jc) /\ Members(jc) = Members(ic) \cup {s} /\ jc # <<>>
<1>1. /\ Len(jc) = Len(ic) + 1 /\ DOMAIN jc = 1..(Len(ic) + 1)
      /\ \A k \in 1..(Len(ic) + 1) :
           jc[k] = IF k <= i THEN ic[k] ELSE IF k = i + 1 THEN s ELSE ic[k - 1]
  BY DEF PutIn
<1>2. DOMAIN ic = 1..Len(ic) /\ Len(ic) \in Nat /\ \A k \in 1..Len(ic) : ic[k] \in ServerSet
  OBVIOUS
<1>3. \A x \in ServerSet : Prio[x] \in Int
  BY PrioAssumption, ChainsAssumption DEF ServerSet
<1>4. \A k \in 1..Len(ic) : ic[k] # s
  BY <1>2 DEF Members
<1>5. \A k, l \in 1..Len(ic) : k < l => ic[k] # ic[l] /\ Prio[ic[k]] <= Prio[ic[l]]
  BY <1>2 DEF Ordered
<1>6. \A k \in 1..Len(ic) : k > i => Prio[s] <= Prio[ic[k]]
  <2>1. SUFFICES ASSUME NEW k \in 1..Len(ic), k > i PROVE Prio[s] <= Prio[ic[k]]
    OBVIOUS
  <2>2. i + 1 \in 1..Len(ic) /\ i + 1 <= k /\ i < Len(ic)
    BY <1>2, <2>1
  <2>3. Prio[ic[i + 1]] <= Prio[ic[k]]
    BY <1>2, <1>3, <1>5, <2>2
  <2>4. Prio[s] <= Prio[ic[i + 1]]
    BY <1>2, <1>3, <2>2
  <2>5. Prio[s] \in Int /\ Prio[ic[k]] \in Int /\ Prio[ic[i + 1]] \in Int
    BY <1>2, <1>3, <2>2
  <2>6. QED
    BY <2>3, <2>4, <2>5
<1>7. \A k \in 1..Len(ic) : k <= i => Prio[ic[k]] <= Prio[s]
  BY <1>2, <1>3
<1>8. Ordered(jc)
  <2>1. SUFFICES ASSUME NEW k \in 1..(Len(ic) + 1), NEW l \in 1..(Len(ic) + 1), k < l
                 PROVE  jc[k] # jc[l] /\ Prio[jc[k]] <= Prio[jc[l]]
    BY <1>1 DEF Ordered
  <2>2. CASE l <= i
    BY <1>1, <1>2, <1>5, <2>1, <2>2
  <2>3. CASE l = i + 1
    BY <1>1, <1>2, <1>4, <1>7, <2>1, <2>3
  <2>4. CASE l > i + 1
    <3>1. l - 1 \in 1..Len(ic) /\ l - 1 > i /\ jc[l] = ic[l - 1]
      BY <1>1, <1>2, <2>1, <2>4
    <3>2. CASE k <= i
      <4>1. k \in 1..Len(ic) /\ k < l - 1 /\ jc[k] = ic[k]
        BY <1>1, <1>2, <2>1, <3>1, <3>2
      <4>2. QED
        BY <1>5, <3>1, <4>1
    <3>3. CASE k = i + 1
      BY <1>1, <1>4, <1>6, <3>1, <3>3
    <3>4. CASE k > i + 1
      <4>1. k - 1 \in 1..Len(ic) /\ k - 1 < l - 1 /\ jc[k] = ic[k - 1]
        BY <1>1, <1>2, <2>1, <3>4
      <4>2. QED
        BY <1>5, <3>1, <4>1
    <3>5. QED
      BY <3>2, <3>3, <3>4
  <2>5. QED
    BY <2>2, <2>3, <2>4
<1>9. Members(jc) = Members(ic) \cup {s}
  <2>1. \A k \in 1..(Len(ic) + 1) : jc[k] \in Members(ic) \cup {s}
    <3>1. SUFFICES ASSUME NEW k \in 1..(Len(ic) + 1) PROVE jc[k] \in Members(ic) \cup {s}
      OBVIOUS
    <3>2. \A l \in 1..Len(ic) : ic[l] \in Members(ic)
      BY <1>2 DEF Members
    <3>3. CASE k <= i
      BY <1>1, <3>2, <3>3
    <3>4. CASE k > i + 1
      <4>1. k - 1 \in 1..Len(ic) /\ jc[k] = ic[k - 1]
        BY <1>1, <1>2, <3>4
      <4>2. QED
        BY <3>2, <4>1
    <3>5. QED
      BY <1>1, <3>3, <3>4
  <2>2. s \in Members(jc)
    <3>1. i + 1 \in 1..(Len(ic) + 1) /\ jc[i + 1] = s
      BY <1>1, <1>2
    <3>2. QED
      BY <1>1, <3>1 DEF Members
  <2>3. \A l \in 1..Len(ic) : ic[l] \in Members(jc)
    <3>0. \A x : x \in Members(jc) <=> \E k \in 1..(Len(ic) + 1) : jc[k] = x
      <4>1. DOMAIN jc = 1..(Len(ic) + 1)
        BY <1>1
      <4>2. \A x : x \in Members(jc) <=> \E k \in DOMAIN jc : jc[k] = x
        BY Zenon DEF Members
      <4>3. QED
        BY <4>1, <4>2, Zenon
    <3>1. SUFFICES ASSUME NEW l \in 1..Len(ic) PROVE \E k \in 1..(Len(ic) + 1) : jc[k] = ic[l]
      BY <3>0, Zenon
    <3>2. CASE l <= i
      <4>1. l \in 1..(Len(ic) + 1)
        BY <1>2
      <4>2. jc[l] = ic[l]
        BY <1>1, <3>2, <4>1
      <4>3. QED
        BY <4>1, <4>2
    <3>3. CASE l > i
      <4>1. l + 1 \in 1..(Len(ic) + 1) /\ jc[l + 1] = ic[l]
        BY <1>1, <1>2, <3>3
      <4>2. QED
        BY <4>1
    <3>4. QED
      BY <3>2, <3>3
  <2>4. QED
    BY <1>1, <1>2, <2>1, <2>2, <2>3 DEF Members
<1>10. QED
  BY <1>1, <1>8, <1>9

LEMMA RemoveOrders ==
  ASSUME NEW ic \in Seq(ServerSet), Ordered(ic), NEW i \in DOMAIN ic,
         NEW jc \in Seq(ServerSet), TakenOut(jc, ic, i)
  PROVE  Ordered(jc) /\ Members(jc) = Members(ic) \ {ic[i]}
<1>1. /\ Len(jc) = Len(ic) - 1 /\ DOMAIN jc = 1..(Len(ic) - 1)
      /\ \A k \in 1..(Len(ic) - 1) : jc[k] = IF k < i THEN ic[k] ELSE ic[k + 1]
  BY DEF TakenOut
<1>2. DOMAIN ic = 1..Len(ic) /\ Len(ic) \in Nat /\ i \in 1..Len(ic)
  OBVIOUS
<1>3. \A k, l \in 1..Len(ic) : k < l => ic[k] # ic[l] /\ Prio[ic[k]] <= Prio[ic[l]]
  BY <1>2 DEF Ordered
<1>4. \A k, l \in 1..Len(ic) : ic[k] = ic[l] => k = l
  BY <1>2, <1>3
<1>5. \A k \in 1..(Len(ic) - 1) : \E m \in 1..Len(ic) :
        jc[k] = ic[m] /\ m = IF k < i THEN k ELSE k + 1
  BY <1>1, <1>2
<1>6. Ordered(jc)
  <2>1. SUFFICES ASSUME NEW k \in 1..(Len(ic) - 1), NEW l \in 1..(Len(ic) - 1), k < l
                 PROVE  jc[k] # jc[l] /\ Prio[jc[k]] <= Prio[jc[l]]
    BY <1>1 DEF Ordered
  <2>2. PICK m \in 1..Len(ic) : jc[k] = ic[m] /\ m = IF k < i THEN k ELSE k + 1
    BY <1>5
  <2>3. PICK p \in 1..Len(ic) : jc[l] = ic[p] /\ p = IF l < i THEN l ELSE l + 1
    BY <1>5
  <2>4. m < p
    BY <1>2, <2>1, <2>2, <2>3
  <2>5. QED
    BY <1>3, <2>2, <2>3, <2>4
<1>7. Members(jc) = Members(ic) \ {ic[i]}
  <2>1. ASSUME NEW k \in 1..(Len(ic) - 1)
        PROVE  jc[k] \in Members(ic) /\ jc[k] # ic[i]
    <3>1. PICK m \in 1..Len(ic) : jc[k] = ic[m] /\ m = IF k < i THEN k ELSE k + 1
      BY <1>5
    <3>2. m # i
      BY <1>2, <3>1
    <3>3. QED
      BY <1>2, <1>4, <3>1, <3>2 DEF Members
  <2>2. ASSUME NEW m \in 1..Len(ic), m # i
        PROVE  \E k \in 1..(Len(ic) - 1) : jc[k] = ic[m]
    <3>1. CASE m < i
      <4>1. m \in 1..(Len(ic) - 1) /\ jc[m] = ic[m]
        BY <1>1, <1>2, <3>1
      <4>2. QED
        BY <4>1
    <3>2. CASE m > i
      <4>1. m - 1 \in 1..(Len(ic) - 1) /\ jc[m - 1] = ic[m]
        BY <1>1, <1>2, <3>2
      <4>2. QED
        BY <4>1
    <3>3. QED
      BY <1>2, <2>2, <3>1, <3>2
  <2>3. \A x : x \in Members(jc) <=> \E k \in 1..(Len(ic) - 1) : x = jc[k]
    BY <1>1 DEF Members
  <2>4. \A x : x \in Members(ic) <=> \E k \in 1..Len(ic) : x = ic[k]
    BY <1>2 DEF Members
  <2>5. \A x : x \in Members(jc) => x \in Members(ic) \ {ic[i]}
    BY <2>1, <2>3
  <2>6. ASSUME NEW x, x \in Members(ic) \ {ic[i]} PROVE x \in Members(jc)
    <3>1. PICK m \in 1..Len(ic) : x = ic[m]
      BY <2>4, <2>6
    <3>2. m # i
      BY <2>6, <3>1
    <3>3. QED
      BY <2>2, <2>3, <3>1, <3>2
  <2>7. QED
    BY <2>5, <2>6
<1>8. QED
  BY <1>6, <1>7

(* What AddIntServer and RemIntServer do to all chains.                     *)
LEMMA AddIs ==
  ASSUME IntrOK, ChainsOK, NEW irq \in Irqs, NEW s \in ServerSet, s \notin Servers(irq),
         AddIntServer(irq, s)
  PROVE  /\ IntrOK' /\ ChainsOK' /\ handlers' = handlers
         /\ \A q \in Irqs : Servers(q)' = IF q = irq THEN Servers(q) \cup {s} ELSE Servers(q)
         /\ \A q : q \in intreq' => q \in intreq
<1> DEFINE ic == chain[irq]
<1>1. ic \in Seq(ServerSet) /\ Ordered(ic) /\ s \notin Members(ic)
      /\ (irq \in intena <=> ic # <<>>)
  BY DEF IntrOK, ChainsOK, Servers, Members
<1>2. PICK i \in 0..Len(ic) :
        /\ \A j \in 1..i : Prio[ic[j]] < Prio[s]
        /\ i < Len(ic) => ~(Prio[ic[i + 1]] < Prio[s])
        /\ chain' = [chain EXCEPT ![irq] = SubSeq(ic, 1, i) \o <<s>> \o SubSeq(ic, i + 1, Len(ic))]
  BY DEF AddIntServer
<1> DEFINE jc == SubSeq(ic, 1, i) \o <<s>> \o SubSeq(ic, i + 1, Len(ic))
<1>3. jc \in Seq(ServerSet) /\ PutIn(jc, ic, s, i)
  BY <1>1, InsertIs
<1>4. chain' = [chain EXCEPT ![irq] = jc]
  BY <1>2
<1>5. /\ IF ic = <<>> THEN Enable(irq) ELSE UNCHANGED <<intreq, intena>>
      /\ handlers' = handlers
  BY DEF AddIntServer
<1> HIDE DEF jc, ic
<1>6. Ordered(jc) /\ Members(jc) = Members(ic) \cup {s} /\ jc # <<>>
  BY <1>1, <1>2, <1>3, InsertOrders
<1>7. chain' \in [Irqs -> Seq(ServerSet)]
      /\ \A q \in Irqs : chain'[q] = IF q = irq THEN jc ELSE chain[q]
  BY <1>3, <1>4 DEF IntrOK
<1>8. /\ intena' = intena \cup {irq} /\ intreq' \in SUBSET Irqs
      /\ \A q : q \in intreq' => q \in intreq
  BY <1>1, <1>5 DEF Enable, IntrOK
<1>9. IntrOK'
  BY <1>5, <1>7, <1>8 DEF IntrOK
<1>10. ChainsOK'
  BY <1>6, <1>7, <1>8 DEF ChainsOK, Ordered
<1>11. \A q \in Irqs : Servers(q)' = IF q = irq THEN Servers(q) \cup {s} ELSE Servers(q)
  <2>1. \A q \in Irqs : Servers(q)' = Members(chain'[q]) /\ Servers(q) = Members(chain[q])
    BY DEF Servers, Members
  <2>2. QED
    BY <1>6, <1>7, <2>1 DEF ic
<1>12. QED
  BY <1>5, <1>8, <1>9, <1>10, <1>11

LEMMA RemIs ==
  ASSUME IntrOK, ChainsOK, NEW irq \in Irqs, NEW s, RemIntServer(irq, s)
  PROVE  /\ IntrOK' /\ ChainsOK' /\ handlers' = handlers /\ s \in Servers(irq)
         /\ \A q \in Irqs : Servers(q)' = IF q = irq THEN Servers(q) \ {s} ELSE Servers(q)
         /\ \A q : q \in intreq' => q \in intreq
<1> DEFINE ic == chain[irq]
<1>1. ic \in Seq(ServerSet) /\ Ordered(ic) /\ (irq \in intena <=> ic # <<>>)
  BY DEF IntrOK, ChainsOK
<1>2. PICK i \in DOMAIN ic :
        /\ ic[i] = s
        /\ chain' = [chain EXCEPT ![irq] = SubSeq(ic, 1, i - 1) \o SubSeq(ic, i + 1, Len(ic))]
  BY DEF RemIntServer, Unlink
<1> DEFINE jc == SubSeq(ic, 1, i - 1) \o SubSeq(ic, i + 1, Len(ic))
<1>3. jc \in Seq(ServerSet) /\ TakenOut(jc, ic, i)
  BY <1>1, RemoveIs
<1>4. chain' = [chain EXCEPT ![irq] = jc]
  BY <1>2
<1>5. /\ IF chain'[irq] = <<>> THEN Disable(irq) ELSE UNCHANGED <<intreq, intena>>
      /\ handlers' = handlers
  BY DEF RemIntServer
<1> HIDE DEF jc, ic
<1>6. Ordered(jc) /\ Members(jc) = Members(ic) \ {s}
  BY <1>1, <1>2, <1>3, RemoveOrders
<1>7. chain' \in [Irqs -> Seq(ServerSet)]
      /\ \A q \in Irqs : chain'[q] = IF q = irq THEN jc ELSE chain[q]
  BY <1>3, <1>4 DEF IntrOK
<1>8. ic # <<>>
  BY <1>1, <1>2
<1>9. /\ intena' = IF jc = <<>> THEN intena \ {irq} ELSE intena
      /\ intreq' \in SUBSET Irqs /\ \A q : q \in intreq' => q \in intreq
  BY <1>5, <1>7 DEF Disable, IntrOK
<1>10. IntrOK'
  BY <1>5, <1>7, <1>9 DEF IntrOK
<1>11. ChainsOK'
  BY <1>1, <1>6, <1>7, <1>8, <1>9 DEF ChainsOK, Ordered
<1>12. \A q \in Irqs : Servers(q)' = IF q = irq THEN Servers(q) \ {s} ELSE Servers(q)
  <2>1. \A q \in Irqs : Servers(q)' = Members(chain'[q]) /\ Servers(q) = Members(chain[q])
    BY DEF Servers, Members
  <2>2. QED
    BY <1>6, <1>7, <2>1 DEF ic
<1>13. s \in Servers(irq)
  BY <1>2 DEF Servers, ic
<1>14. QED
  BY <1>5, <1>9, <1>10, <1>11, <1>12, <1>13

-----------------------------------------------------------------------------
(* The stack of handlers: a chain is entered, its server goes on or         *)
(* returns.                                                                 *)
LEMMA TopIs ==
  ASSUME IntrOK, handlers # <<>>
  PROVE  /\ 1 \in DOMAIN handlers /\ handlers[1] \in Activation
         /\ DOMAIN handlers = 1..Len(handlers) /\ Len(handlers) \in Nat /\ Len(handlers) >= 1
         /\ \A i \in DOMAIN handlers : handlers[i] \in Activation
BY DEF IntrOK

(* Only the keyboard's server goes on after its call, on the chain of its   *)
(* interrupt, and no chain is entered twice.                                *)
LEMMA Alone ==
  ASSUME IntrOK, Chains, Nested, NEW i \in DOMAIN handlers, NEW j \in DOMAIN handlers
  PROVE  /\ handlers[i].at # "call" => handlers[i].is = "keyboard"
         /\ handlers[i].is = "keyboard" => handlers[i].irq = "PORTS" /\ KeyboardOn
         /\ handlers[i].irq = handlers[j].irq => i = j
<1>1. handlers[i] \in Activation /\ handlers[j] \in Activation
      /\ DOMAIN handlers = 1..Len(handlers) /\ Len(handlers) \in Nat
  BY DEF IntrOK
<1>2. handlers[i].is \in Servers(handlers[i].irq) /\ handlers[i].irq \in Irqs
  BY <1>1 DEF Nested, Activation
<1>3. handlers[i].is = "keyboard" => handlers[i].irq = "PORTS" /\ KeyboardOn
  <2>1. SUFFICES ASSUME handlers[i].is = "keyboard"
                 PROVE  handlers[i].irq = "PORTS" /\ KeyboardOn
    OBVIOUS
  <2>2. OnChain(handlers[i].irq, "keyboard")
    BY <1>2, <2>1 DEF Chains, ServerSet
  <2>3. \A who \in Drivers : TimerOf[who] # "keyboard"
    BY DEF Drivers, TimerOf
  <2>4. QED
    BY <2>2, <2>3 DEF OnChain
<1>4. handlers[i].irq = handlers[j].irq => i = j
  <2>1. Level[handlers[i].irq] \in 1..6
    BY <1>2, LevelAssumption DEF Irqs
  <2>2. ~(i < j) \/ handlers[i].irq # handlers[j].irq
    BY <2>1 DEF Nested
  <2>3. ~(j < i) \/ handlers[i].irq # handlers[j].irq
    BY <2>1 DEF Nested
  <2>4. QED
    BY <1>1, <2>2, <2>3
<1>5. QED
  BY <1>3, <1>4 DEF Nested

LEMMA GoesOn ==
  ASSUME IntrOK, Chains, Nested, handlers # <<>>, handlers[1].is = "keyboard",
         NEW where \in {"load", "spin", "ack"}, GoesTo(where), UNCHANGED <<chain, intena, intreq>>
  PROVE  /\ IntrOK' /\ Nested'
         /\ \A irq : Handles(irq)' <=> Handles(irq)
         /\ \A x : x # "call" => (KeyboardAt(x)' <=> x = where)
<1>1. /\ 1 \in DOMAIN handlers /\ handlers[1] \in Activation
      /\ DOMAIN handlers = 1..Len(handlers) /\ Len(handlers) \in Nat /\ Len(handlers) >= 1
      /\ \A i \in DOMAIN handlers : handlers[i] \in Activation
  BY TopIs
<1> DEFINE top == [handlers[1] EXCEPT !.at = where]
<1>2. top \in Activation /\ top.irq = handlers[1].irq /\ top.is = "keyboard" /\ top.at = where
  BY <1>1 DEF Activation
<1>3. handlers' = [handlers EXCEPT ![1] = top]
  BY <1>1 DEF GoesTo
<1> HIDE DEF top
<1>4. /\ handlers' \in Seq(Activation) /\ DOMAIN handlers' = DOMAIN handlers
      /\ \A i \in DOMAIN handlers : handlers'[i] = IF i = 1 THEN top ELSE handlers[i]
  BY <1>1, <1>2, <1>3 DEF IntrOK
<1>5. IntrOK'
  BY <1>4 DEF IntrOK
<1>6. \A irq : Servers(irq)' = Servers(irq)
  BY DEF Servers
<1>7. \A i \in DOMAIN handlers : handlers'[i].irq = handlers[i].irq /\ handlers'[i].is = handlers[i].is
  BY <1>2, <1>4
<1>8. \A i \in DOMAIN handlers : i # 1 => handlers[i].at = "call"
  BY <1>1, Alone
<1>9. Nested'
  BY <1>2, <1>4, <1>6, <1>7, <1>8 DEF Nested
<1>10. \A irq : Handles(irq)' <=> Handles(irq)
  BY <1>4, <1>7 DEF Handles
<1>11. \A x : x # "call" => (KeyboardAt(x)' <=> x = where)
  BY <1>1, <1>2, <1>4, <1>8 DEF KeyboardAt
<1>12. QED
  BY <1>5, <1>9, <1>10, <1>11

LEMMA Entered ==
  ASSUME IntrOK, Chains, Nested, NEW irq \in Irqs, EnterIntr(irq)
  PROVE  /\ IntrOK' /\ Nested' /\ UNCHANGED <<chain, intena>>
         /\ irq \in intreq /\ \A q : q \in intreq' => q \in intreq
         /\ \A q : Handles(q)' <=> Handles(q) \/ q = irq
         /\ \A x : x # "call" => (KeyboardAt(x)' <=> KeyboardAt(x))
<1> DEFINE top == [irq |-> irq, is |-> First(irq), at |-> "call"]
<1>1. /\ irq \in intena /\ irq \in intreq /\ Level[irq] > IPL
      /\ intreq' = intreq \ {irq} /\ handlers' = <<top>> \o handlers
      /\ chain' = chain /\ intena' = intena
  BY DEF EnterIntr, CanEnter
<1>2. First(irq) \in Servers(irq) /\ First(irq) \in ServerSet
  <2>1. chain[irq] # <<>> /\ chain[irq] \in Seq(ServerSet)
    BY <1>1 DEF IntrOK, Chains, ChainsOK
  <2>2. 1 \in DOMAIN chain[irq] /\ chain[irq][1] \in ServerSet
    BY <2>1
  <2>3. QED
    BY <2>1, <2>2 DEF First, Servers
<1>3. top \in Activation /\ top.irq = irq /\ top.is = First(irq) /\ top.at = "call"
  BY <1>2 DEF Activation
<1>4. handlers \in Seq(Activation)
  BY DEF IntrOK
<1> HIDE DEF top
<1>5. <<top>> \in Seq(Activation) /\ Len(<<top>>) = 1 /\ <<top>>[1] = top
  BY <1>3
<1>6. /\ handlers' \in Seq(Activation) /\ Len(handlers') = Len(handlers) + 1
      /\ \A k \in 1..(Len(handlers) + 1) :
           handlers'[k] = IF k <= 1 THEN <<top>>[k] ELSE handlers[k - 1]
  <2>1. Len(<<top>>) + Len(handlers) = Len(handlers) + 1 /\ Len(handlers) \in Nat
    BY <1>4, <1>5
  <2> DEFINE a == <<top>>
  <2>2. a \in Seq(Activation) /\ Len(a) = 1
    BY <1>5
  <2> HIDE DEF a
  <2>3. /\ a \o handlers \in Seq(Activation) /\ Len(a \o handlers) = Len(a) + Len(handlers)
        /\ \A k \in 1..(Len(a) + Len(handlers)) :
             (a \o handlers)[k] = IF k <= Len(a) THEN a[k] ELSE handlers[k - Len(a)]
    BY <1>4, <2>2, Joined
  <2>4. handlers' = a \o handlers
    BY <1>1 DEF a
  <2>5. 1 + Len(handlers) = Len(handlers) + 1
    BY <2>1
  <2>6. QED
    BY <2>2, <2>3, <2>4, <2>5 DEF a
<1>7. /\ DOMAIN handlers = 1..Len(handlers) /\ Len(handlers) \in Nat
      /\ DOMAIN handlers' = 1..(Len(handlers) + 1)
      /\ handlers'[1] = top
      /\ \A i \in DOMAIN handlers : i + 1 \in DOMAIN handlers' /\ handlers'[i + 1] = handlers[i]
      /\ \A k \in DOMAIN handlers' : k = 1 \/ (k - 1 \in DOMAIN handlers /\ handlers'[k] = handlers[k - 1])
  BY <1>4, <1>5, <1>6
<1>8. \A i \in DOMAIN handlers : Level[irq] > Level[handlers[i].irq]
  <2>1. SUFFICES ASSUME NEW i \in DOMAIN handlers PROVE Level[irq] > Level[handlers[i].irq]
    OBVIOUS
  <2>2. handlers # <<>> /\ IPL = Level[handlers[1].irq] /\ 1 \in DOMAIN handlers /\ i >= 1
    BY <1>4, <1>7, <2>1 DEF IPL
  <2>3. \A q \in Irqs : Level[q] \in 1..6
    BY LevelAssumption DEF Irqs
  <2>4. \A j \in DOMAIN handlers : handlers[j].irq \in Irqs
    <3>1. \A j \in DOMAIN handlers : handlers[j] \in Activation
      BY <2>2, TopIs
    <3>2. QED
      BY <3>1 DEF Activation
  <2>5. i = 1 \/ Level[handlers[1].irq] > Level[handlers[i].irq]
    BY <1>7, <2>2 DEF Nested
  <2>6. QED
    BY <1>1, <2>2, <2>3, <2>4, <2>5
<1>9. \A q : Servers(q)' = Servers(q)
  BY <1>1 DEF Servers
<1>10. Nested'
  <2>1. ASSUME NEW i \in DOMAIN handlers', NEW j \in DOMAIN handlers', i < j
        PROVE  Level[handlers'[i].irq] > Level[handlers'[j].irq]
    <3>1. j # 1 /\ j - 1 \in DOMAIN handlers /\ handlers'[j] = handlers[j - 1]
      BY <1>7, <2>1
    <3>2. CASE i = 1
      BY <1>3, <1>7, <1>8, <3>1, <3>2
    <3>3. CASE i # 1
      <4>1. i - 1 \in DOMAIN handlers /\ handlers'[i] = handlers[i - 1] /\ i - 1 < j - 1
        BY <1>7, <2>1, <3>3
      <4>2. QED
        BY <3>1, <4>1 DEF Nested
    <3>4. QED
      BY <3>2, <3>3
  <2>2. ASSUME NEW i \in DOMAIN handlers'
        PROVE  /\ handlers'[i].is \in Servers(handlers'[i].irq)
               /\ handlers'[i].at # "call" => handlers'[i].is = "keyboard"
    BY <1>2, <1>3, <1>7 DEF Nested
  <2>3. QED
    BY <1>9, <2>1, <2>2 DEF Nested
<1>11. IntrOK'
  BY <1>1, <1>6 DEF IntrOK
<1>12. \A q : Handles(q)' <=> Handles(q) \/ q = irq
  BY <1>3, <1>7 DEF Handles
<1>13. \A x : x # "call" => (KeyboardAt(x)' <=> KeyboardAt(x))
  BY <1>3, <1>7 DEF KeyboardAt
<1>14. QED
  BY <1>1, <1>10, <1>11, <1>12, <1>13

LEMMA Returned ==
  ASSUME IntrOK, Chains, Nested, handlers # <<>>, ServerReturns, UNCHANGED <<chain, intena, intreq>>
  PROVE  /\ IntrOK' /\ Nested'
         /\ \A q : Handles(q)' => Handles(q)
         /\ \A x : x # "call" => (KeyboardAt(x)' <=> KeyboardAt(x) /\ handlers[1].at # x)
<1> DEFINE irq == handlers[1].irq
           ic == chain[irq]
           later == {i \in 2..Len(ic) : ic[i - 1] = handlers[1].is}
           next == ic[CHOOSE i \in later : TRUE]
<1>1. /\ 1 \in DOMAIN handlers /\ handlers[1] \in Activation
      /\ DOMAIN handlers = 1..Len(handlers) /\ Len(handlers) \in Nat /\ Len(handlers) >= 1
      /\ \A i \in DOMAIN handlers : handlers[i] \in Activation
  BY TopIs
<1>2. irq \in Irqs /\ ic \in Seq(ServerSet)
  BY <1>1 DEF Activation, IntrOK
<1>3. handlers' = IF later = {} THEN Tail(handlers)
                    ELSE [handlers EXCEPT ![1].is = next, ![1].at = "call"]
  BY DEF ServerReturns
<1>4. later # {} => next \in ServerSet /\ next \in Servers(irq)
  <2>1. SUFFICES ASSUME later # {} PROVE next \in ServerSet /\ next \in Servers(irq)
    OBVIOUS
  <2>2. (CHOOSE i \in later : TRUE) \in later
    BY <2>1
  <2>3. \A i \in later : i \in DOMAIN ic
    BY <1>2
  <2> HIDE DEF later, ic
  <2> DEFINE c == CHOOSE i \in later : TRUE
  <2>4. c \in DOMAIN ic /\ next = ic[c]
    BY <2>2, <2>3
  <2> HIDE DEF c, next
  <2>5. ic[c] \in ServerSet
    BY <1>2, <2>4
  <2>6. ic[c] \in Servers(irq)
    BY <2>4 DEF Servers, ic
  <2>7. QED
    BY <2>4, <2>5, <2>6
<1> HIDE DEF irq, ic, later, next
<1>5. \A q : Servers(q)' = Servers(q)
  BY DEF Servers
<1>6. \A x, i : x # "call" /\ i \in DOMAIN handlers /\ handlers[i].at = x /\ handlers[1].at = x => i = 1
  BY <1>1, Alone
<1>7. CASE later = {}
  <2>1. handlers' = Tail(handlers)
    BY <1>3, <1>7
  <2>2. /\ handlers' \in Seq(Activation) /\ Len(handlers') = Len(handlers) - 1
        /\ DOMAIN handlers' = 1..(Len(handlers) - 1)
        /\ \A i \in 1..(Len(handlers) - 1) : handlers'[i] = handlers[i + 1]
    BY <2>1 DEF IntrOK
  <2>3. \A i \in DOMAIN handlers' : i + 1 \in DOMAIN handlers /\ handlers'[i] = handlers[i + 1]
    BY <1>1, <2>2
  <2>4. \A i \in DOMAIN handlers : i # 1 => i - 1 \in DOMAIN handlers' /\ handlers'[i - 1] = handlers[i]
    BY <1>1, <2>2
  <2>5. IntrOK'
    BY <2>2 DEF IntrOK
  <2>6. Nested'
    <3>1. ASSUME NEW i \in DOMAIN handlers', NEW j \in DOMAIN handlers', i < j
          PROVE  Level[handlers'[i].irq] > Level[handlers'[j].irq]
      <4>1. i + 1 < j + 1
        BY <2>2, <3>1
      <4>2. QED
        BY <2>3, <4>1 DEF Nested
    <3>2. ASSUME NEW i \in DOMAIN handlers'
          PROVE  /\ handlers'[i].is \in Servers(handlers'[i].irq)
                 /\ handlers'[i].at # "call" => handlers'[i].is = "keyboard"
      BY <2>3 DEF Nested
    <3>3. QED
      BY <1>5, <3>1, <3>2 DEF Nested
  <2>7. \A q : Handles(q)' => Handles(q)
    BY <2>3 DEF Handles
  <2>8. ASSUME NEW x, x # "call"
        PROVE  KeyboardAt(x)' <=> KeyboardAt(x) /\ handlers[1].at # x
    <3>1. ASSUME NEW i \in DOMAIN handlers', handlers'[i].at = x
          PROVE  KeyboardAt(x) /\ handlers[1].at # x
      <4>1. i + 1 \in DOMAIN handlers /\ handlers[i + 1].at = x /\ i + 1 # 1
        BY <2>2, <2>3, <3>1
      <4>2. QED
        BY <1>6, <2>8, <4>1 DEF KeyboardAt
    <3>2. ASSUME NEW i \in DOMAIN handlers, handlers[i].at = x, handlers[1].at # x
          PROVE  KeyboardAt(x)'
      BY <2>4, <3>2 DEF KeyboardAt
    <3>3. QED
      BY <3>1, <3>2 DEF KeyboardAt
  <2>9. QED
    BY <2>5, <2>6, <2>7, <2>8
<1>8. CASE later # {}
  <2> DEFINE top == [handlers[1] EXCEPT !.is = next, !.at = "call"]
  <2>1. top \in Activation /\ top.irq = irq /\ top.is = next /\ top.at = "call"
    BY <1>1, <1>4, <1>8 DEF Activation, irq
  <2>2. handlers' = [handlers EXCEPT ![1] = top]
    BY <1>1, <1>3, <1>8
  <2> HIDE DEF top
  <2>3. /\ handlers' \in Seq(Activation) /\ DOMAIN handlers' = DOMAIN handlers
        /\ \A i \in DOMAIN handlers : handlers'[i] = IF i = 1 THEN top ELSE handlers[i]
    BY <1>1, <2>1, <2>2 DEF IntrOK
  <2>4. IntrOK'
    BY <2>3 DEF IntrOK
  <2>5. \A i \in DOMAIN handlers : handlers'[i].irq = handlers[i].irq
    BY <2>1, <2>3 DEF irq
  <2>6. Nested'
    BY <1>4, <1>5, <1>8, <2>1, <2>3, <2>5 DEF Nested
  <2>7. \A q : Handles(q)' => Handles(q)
    BY <2>3, <2>5 DEF Handles
  <2>8. \A x : x # "call" => (KeyboardAt(x)' <=> KeyboardAt(x) /\ handlers[1].at # x)
    BY <1>1, <1>6, <2>1, <2>3 DEF KeyboardAt
  <2>9. QED
    BY <2>4, <2>6, <2>7, <2>8
<1>9. QED
  BY <1>7, <1>8

-----------------------------------------------------------------------------
(* What a task finds: no interrupt is handled, and the disk's is not asked  *)
(* for, since it would come first.                                          *)
LEMMA AtCall ==
  ASSUME IInv, NEW task \in DOMAIN tasks, NEW call, NEW where, In(task, call, where)
  PROVE  Works(task, Now(task).who, call, where)
<1>1. at[task] <= Len(tasks[task]) /\ Now(task).call = call /\ stage[task] = where
  BY DEF In, InTask
<1>2. at[task] \in DOMAIN tasks[task]
  BY <1>1, Rules DEF IInv, Inv1
<1>3. QED
  BY <1>1, <1>2 DEF Works

LEMMA FloppyAdded ==
  ASSUME TasksOK, Chains, NEW x, Sleeps(x)
  PROVE  Added("floppy") /\ "EXTER" \in intena
<1>1. PICK task \in DOMAIN tasks : Works(task, "floppy", "sleep", x)
  BY DEF Sleeps, Does
<1>2. Added("floppy")
  BY <1>1, WorksHere DEF Here
<1>3. OnChain("EXTER", "CIAB_A")
  BY <1>2 DEF OnChain, Drivers, TimerOf, Irq, Chip
<1>4. "EXTER" \in Irqs /\ "CIAB_A" \in ServerSet
  BY ChainsAssumption DEF ServerSet, TimerSet, TimerSeq
<1>5. "CIAB_A" \in Servers("EXTER")
  BY <1>3, <1>4 DEF Chains
<1>6. chain["EXTER"] # <<>>
  BY <1>5 DEF Servers
<1>7. QED
  BY <1>2, <1>4, <1>6 DEF Chains, ChainsOK

LEMMA Calm ==
  ASSUME IInv, Quiet, handlers = <<>>
  PROVE  /\ "EXTER" \notin intreq /\ ~Busy("CIAA_B")
         /\ \A q : ~Handles(q)
         /\ \A x : ~KeyboardAt(x)
<1>1. (\A q : ~Handles(q)) /\ (\A x : ~KeyboardAt(x))
  BY DEF Handles, KeyboardAt
<1>2. ~Busy("CIAA_B")
  BY <1>1 DEF IInv, Inv2, KeyboardWaits
<1>3. "EXTER" \notin intreq
  <2>1. SUFFICES ASSUME "EXTER" \in intreq PROVE FALSE
    OBVIOUS
  <2>2. Sleeps("asleep") \/ Sleeps("woken")
    BY <2>1 DEF IInv, Inv2, FloppyWaits
  <2>3. "EXTER" \in intena
    BY <2>2, FloppyAdded DEF IInv, Inv1
  <2>4. "EXTER" \in Irqs /\ Level["EXTER"] \in 1..6
    BY ChainsAssumption, LevelAssumption DEF Irqs
  <2>5. IPL = 0
    BY DEF IPL
  <2>6. CanEnter("EXTER")
    BY <2>1, <2>3, <2>4, <2>5 DEF CanEnter
  <2>7. QED
    BY <2>4, <2>6 DEF Quiet
<1>4. QED
  BY <1>1, <1>2, <1>3

LEMMA InCalm ==
  ASSUME IInv, NEW task \in DOMAIN tasks, NEW call, NEW where, In(task, call, where)
  PROVE  /\ handlers = <<>> /\ "EXTER" \notin intreq /\ ~Busy("CIAA_B")
         /\ \A q : ~Handles(q)
         /\ \A x : ~KeyboardAt(x)
<1>1. Quiet /\ handlers = <<>>
  BY DEF In, InTask
<1>2. QED
  BY <1>1, Calm

LEMMA StillCalm ==
  ASSUME "EXTER" \notin intreq, handlers' = <<>>, \A q : q \in intreq' => q \in intreq
  PROVE  /\ "EXTER" \notin intreq' /\ Nested'
         /\ \A q : ~Handles(q)'
         /\ \A x : ~KeyboardAt(x)'
BY DEF Nested, Handles, KeyboardAt

(* Nothing happens to the timers, and no wait begins or ends but with its   *)
(* task awake.                                                              *)
LEMMA TimersStay ==
  ASSUME Inv2, UNCHANGED <<cias, timeout>>, ~Busy("CIAA_B"), "EXTER" \notin intreq',
         \A q : ~Handles(q)', \A x : ~KeyboardAt(x)',
         \A x \in {"load", "wait", "asleep", "woken"} : Sleeps(x)' => Sleeps(x),
         \A x \in {"wait", "asleep"} : Sleeps(x) => Sleeps(x)',
         \A x \in {"load", "on"} : Does("ahx", "setup", x)' => Does("ahx", "setup", x)
  PROVE  Inv2'
<1>1. /\ icr' = icr /\ pending' = pending /\ mask' = mask /\ started' = started
      /\ oneshot' = oneshot /\ elapsed' = elapsed /\ timeout' = timeout
  BY DEF cias
<1>2. \A t : (Seen(t)' <=> Seen(t)) /\ (Busy(t)' <=> Busy(t)) /\ (Once(t)' <=> Once(t))
  BY <1>1 DEF Seen, Busy, Once, Sampled
<1>3. KeyboardWaits'
  BY <1>2 DEF Inv2, KeyboardWaits
<1>4. PlayerTicks'
  BY <1>1, <1>2 DEF Inv2, PlayerTicks
<1>5. FloppyWaits'
  BY <1>1, <1>2 DEF Inv2, FloppyWaits
<1>6. OthersRest'
  BY <1>1 DEF Inv2, OthersRest, Sampled
<1>7. QED
  BY <1>3, <1>4, <1>5, <1>6 DEF Inv2

(* Owners and chains stay what they are.                                    *)
LEMMA OwnersStay ==
  ASSUME Owners, SameAdded, UNCHANGED <<own, inUse>>, \A w : Adding(w)' <=> Adding(w)
  PROVE  Owners'
BY DEF Owners, SameAdded

LEMMA ChainsStay ==
  ASSUME Chains, SameAdded, UNCHANGED <<chain, intena>>
  PROVE  Chains'
<1>1. \A irq : Servers(irq)' = Servers(irq)
  BY DEF Servers
<1>2. ChainsOK'
  BY DEF Chains, ChainsOK
<1>3. \A irq, s : OnChain(irq, s)' <=> OnChain(irq, s)
  BY DEF OnChain, SameAdded
<1>4. QED
  BY <1>1, <1>2, <1>3 DEF Chains

-----------------------------------------------------------------------------
(* A call other than for a timer, or for the keyboard's server, goes on or  *)
(* ends: the rest that does not change.                                     *)
Silent ==
  /\ "EXTER" \notin intreq'
  /\ \A q : ~Handles(q)'
  /\ \A x : ~KeyboardAt(x)'

LEMMA MoveRest ==
  ASSUME IInv, NEW task \in DOMAIN tasks, NEW call, NEW where, In(task, call, where),
         call # "acquire", NEW to \in Stages[call], Goes(task, to),
         UNCHANGED <<interrupts, own, inUse, tasks>>
  PROVE  /\ TasksOK' /\ IntrOK' /\ Owners' /\ Chains' /\ Nested' /\ Silent
         /\ Moves(Now(task).who, call, to)
<1> DEFINE who == Now(task).who
<1>1. Works(task, who, call, where)
  BY AtCall
<1> HIDE DEF who
<1>2. TasksOK /\ IntrOK /\ Owners /\ Chains
  BY DEF IInv, Inv1
<1>3. TasksOK' /\ Moves(who, call, to)
  BY <1>1, <1>2, MovesTo
<1>4. Here(who, call, where)
  BY <1>1, <1>2, WorksHere
<1>5. chain' = chain /\ intena' = intena /\ intreq' = intreq /\ handlers' = handlers
      /\ own' = own /\ inUse' = inUse
  BY DEF interrupts
<1>6. IntrOK'
  BY <1>2, <1>5 DEF IntrOK
<1>7. SameAdded /\ \A w : Adding(w)' <=> Adding(w)
  BY <1>3, <1>4 DEF Moves, Here, Adding
<1>8. Owners' /\ Chains'
  BY <1>2, <1>5, <1>7, OwnersStay, ChainsStay
<1>9. handlers = <<>> /\ "EXTER" \notin intreq
  BY InCalm
<1>10. Nested' /\ Silent
  BY <1>5, <1>9, StillCalm DEF Silent
<1>11. QED
  BY <1>3, <1>6, <1>8, <1>10 DEF who

LEMMA EndRest ==
  ASSUME IInv, NEW task \in DOMAIN tasks, NEW call \in {"setup", "sleep"}, NEW where,
         In(task, call, where), Returns(task), UNCHANGED <<interrupts, own, inUse, tasks>>
  PROVE  /\ TasksOK' /\ IntrOK' /\ Owners' /\ Chains' /\ Nested' /\ Silent
         /\ Ends(Now(task).who, call)
<1> DEFINE who == Now(task).who
<1>1. Works(task, who, call, where)
  BY AtCall
<1> HIDE DEF who
<1>2. TasksOK /\ IntrOK /\ Owners /\ Chains
  BY DEF IInv, Inv1
<1>3. TasksOK' /\ Ends(who, call)
  BY <1>1, <1>2, EndsThere
<1>4. Here(who, call, where) /\ who \in Drivers /\ call \in CallsOf[who] \cup {"acquire", "release"}
  BY <1>1, <1>2, WorksHere
<1>5. chain' = chain /\ intena' = intena /\ intreq' = intreq /\ handlers' = handlers
      /\ own' = own /\ inUse' = inUse
  BY DEF interrupts
<1>6. IntrOK'
  BY <1>2, <1>5 DEF IntrOK
<1>7. who # "keyboard"
  BY <1>4 DEF CallsOf
<1>8. SameAdded /\ \A w : Adding(w)' <=> Adding(w)
  BY <1>3, <1>4, <1>7 DEF Ends, Here, Adding, SameAdded
<1>9. Owners' /\ Chains'
  BY <1>2, <1>5, <1>8, OwnersStay, ChainsStay
<1>10. handlers = <<>> /\ "EXTER" \notin intreq
  BY InCalm
<1>11. Nested' /\ Silent
  BY <1>5, <1>10, StillCalm DEF Silent
<1>12. QED
  BY <1>3, <1>6, <1>9, <1>11 DEF who

(* Who makes the calls that only one driver makes, and with which timer.    *)
LEMMA CallerIs ==
  ASSUME IInv, NEW task \in DOMAIN tasks, NEW call, NEW where, In(task, call, where)
  PROVE  /\ call = "setup" => Now(task).who = "ahx" /\ Own(task) = "CIAA_A"
         /\ call = "sleep" => Now(task).who = "floppy" /\ Own(task) = "CIAB_A"
         /\ call \in {"KeyboardInit", "KeyboardKill"} => Now(task).who = "keyboard"
         /\ call # "acquire" => Own(task) = TimerOf[Now(task).who]
         /\ Here(Now(task).who, call, where) /\ Now(task).who \in Drivers
<1> DEFINE who == Now(task).who
<1>1. Works(task, who, call, where)
  BY AtCall
<1>2. Own(task) = own[who]
  BY DEF Own
<1> HIDE DEF who
<1>3. TasksOK /\ Owners
  BY DEF IInv, Inv1
<1>4. Here(who, call, where) /\ who \in Drivers /\ call \in CallsOf[who] \cup {"acquire", "release"}
  BY <1>1, <1>3, WorksHere
<1>5. call # "acquire" => Own(task) = TimerOf[who]
  BY <1>2, <1>3, <1>4 DEF Here, Owners
<1>6. /\ call = "setup" => who = "ahx"
      /\ call = "sleep" => who = "floppy"
      /\ call \in {"KeyboardInit", "KeyboardKill"} => who = "keyboard"
  BY <1>4 DEF Drivers, CallsOf
<1>7. QED
  BY <1>4, <1>5, <1>6 DEF TimerOf, who

-----------------------------------------------------------------------------
(* The player sets its timer up.                                            *)
LEMMA SetupTimerStep ==
  ASSUME IInv, NEW task \in DOMAIN tasks, SetupTimer(task)
  PROVE  IInv'
<1>1. /\ In(task, "setup", "start") /\ Goes(task, "load")
      /\ timeout' = [timeout EXCEPT ![Own(task)] = "AhxPlayerTimeout"]
      /\ mask' = [mask EXCEPT ![Chip(Own(task))] = @ \ {Bit(Own(task))}]
      /\ UNCHANGED <<interrupts, icr, pending, oneshot, started, elapsed, inUse, own, kbd, tasks>>
  BY DEF SetupTimer, MaskICR
<1>2. Now(task).who = "ahx" /\ Own(task) = "CIAA_A" /\ Here("ahx", "setup", "start")
  BY <1>1, CallerIs
<1>3. "load" \in Stages["setup"]
  BY DEF Stages
<1>4. /\ TasksOK' /\ IntrOK' /\ Owners' /\ Chains' /\ Nested' /\ Silent
      /\ Moves("ahx", "setup", "load")
  BY <1>1, <1>2, <1>3, MoveRest
<1>5. ChipsOK /\ Inv2
  BY DEF IInv, Inv1
<1>6. /\ timeout' \in [TimerSet -> {"NULL", "NotifyTimeout", "AhxPlayerTimeout"}]
      /\ timeout'["CIAA_A"] = "AhxPlayerTimeout" /\ timeout'["CIAB_A"] = timeout["CIAB_A"]
  BY <1>1, <1>2, <1>5 DEF ChipsOK, TimerSet, TimerSeq
<1>7. mask' \in [CIA -> SUBSET Bits] /\ mask'["ciab"] = mask["ciab"]
  BY <1>1, <1>2, <1>5 DEF ChipsOK, CIA, Chip
<1>8. \A t : (Seen(t)' <=> Seen(t)) /\ (Busy(t)' <=> Busy(t)) /\ (Once(t)' <=> Once(t))
  BY <1>1 DEF Seen, Busy, Once, Sampled
<1>9. ~Busy("CIAA_B")
  BY <1>1, InCalm
<1>10. \A x : Sleeps(x)' <=> Sleeps(x)
  BY <1>4 DEF Moves, Sleeps
<1>11. KeyboardWaits'
  BY <1>1, <1>4, <1>5, <1>8, <1>9 DEF Inv2, KeyboardWaits, Silent
<1>12. PlayerTicks'
  BY <1>6 DEF PlayerTicks
<1>13. FloppyWaits'
  BY <1>1, <1>4, <1>5, <1>6, <1>7, <1>8, <1>10 DEF Inv2, FloppyWaits, Silent
<1>14. OthersRest' /\ ChipsOK'
  BY <1>1, <1>5, <1>6, <1>7 DEF Inv2, OthersRest, Sampled, ChipsOK
<1>15. QED
  BY <1>4, <1>11, <1>12, <1>13, <1>14 DEF IInv, Inv1, Inv2

LEMMA SetupTimerLoadStep ==
  ASSUME IInv, NEW task \in DOMAIN tasks, SetupTimerLoad(task)
  PROVE  IInv'
<1>1. /\ In(task, "setup", "load") /\ Goes(task, "on")
      /\ oneshot' = oneshot /\ started' = started \cup {Own(task)}
      /\ elapsed' = elapsed \ {Own(task)}
      /\ UNCHANGED <<interrupts, icr, mask, pending, timeout, inUse, own, kbd, tasks>>
  BY DEF SetupTimerLoad, LoadTimer, drivers
<1>2. Now(task).who = "ahx" /\ Own(task) = "CIAA_A" /\ Here("ahx", "setup", "load")
  BY <1>1, CallerIs
<1>3. "on" \in Stages["setup"]
  BY DEF Stages
<1>4. /\ TasksOK' /\ IntrOK' /\ Owners' /\ Chains' /\ Nested' /\ Silent
      /\ Moves("ahx", "setup", "on")
  BY <1>1, <1>2, <1>3, MoveRest
<1>5. ChipsOK /\ Inv2
  BY DEF IInv, Inv1
<1>6. \A t : Seen(t)' <=> Seen(t)
  BY <1>1 DEF Seen, Sampled
<1>7. \A t \in {"CIAA_B", "CIAB_A"} : (Busy(t)' <=> Busy(t)) /\ (Once(t)' <=> Once(t))
  BY <1>1, <1>2, <1>6 DEF Busy, Once
<1>8. ~Busy("CIAA_B")
  BY <1>1, InCalm
<1>9. \A x : Sleeps(x)' <=> Sleeps(x)
  BY <1>4 DEF Moves, Sleeps
<1>10. KeyboardWaits'
  BY <1>4, <1>5, <1>7, <1>8 DEF Inv2, KeyboardWaits, Silent
<1>11. PlayerTicks'
  <2>1. Does("ahx", "setup", "load")
    BY <1>2 DEF Here
  <2>2. QED
    BY <1>1, <1>5, <2>1 DEF Inv2, PlayerTicks
<1>12. FloppyWaits'
  BY <1>1, <1>2, <1>4, <1>5, <1>7, <1>9 DEF Inv2, FloppyWaits, Silent
<1>13. OthersRest' /\ ChipsOK'
  BY <1>1, <1>2, <1>5 DEF Inv2, OthersRest, Sampled, ChipsOK, TimerSet, TimerSeq
<1>14. QED
  BY <1>4, <1>10, <1>11, <1>12, <1>13 DEF IInv, Inv1, Inv2

LEMMA SetupTimerOnStep ==
  ASSUME IInv, NEW task \in DOMAIN tasks, SetupTimerOn(task)
  PROVE  IInv'
<1>1. /\ In(task, "setup", "on") /\ Again(task)
      /\ mask' = [mask EXCEPT ![Chip(Own(task))] = @ \cup {Bit(Own(task))}]
      /\ UNCHANGED <<interrupts, icr, pending, oneshot, started, elapsed, timeout, inUse, own, kbd,
                     tasks>>
  BY DEF SetupTimerOn, UnmaskICR, drivers
<1>2. Now(task).who = "ahx" /\ Own(task) = "CIAA_A" /\ Here("ahx", "setup", "on")
  BY <1>1, CallerIs
<1>3. /\ TasksOK' /\ IntrOK' /\ Owners' /\ Chains' /\ Nested' /\ Silent
      /\ \A x : x # "start" => (Sleeps(x)' <=> Sleeps(x))
      /\ \A x \in {"load", "on"} : ~Does("ahx", "setup", x)'
  <2>1. CASE Goes(task, "start")
    <3>1. "start" \in Stages["setup"]
      BY DEF Stages
    <3>2. /\ TasksOK' /\ IntrOK' /\ Owners' /\ Chains' /\ Nested' /\ Silent
          /\ Moves("ahx", "setup", "start")
      BY <1>1, <1>2, <2>1, <3>1, MoveRest
    <3>3. QED
      BY <3>2 DEF Moves, Sleeps
  <2>2. CASE Returns(task)
    <3>1. /\ TasksOK' /\ IntrOK' /\ Owners' /\ Chains' /\ Nested' /\ Silent
          /\ Ends("ahx", "setup")
      BY <1>1, <1>2, <2>2, EndRest
    <3>2. QED
      BY <3>1 DEF Ends, Sleeps
  <2>3. QED
    BY <1>1, <2>1, <2>2 DEF Again
<1>4. ChipsOK /\ Inv2
  BY DEF IInv, Inv1
<1>5. mask' \in [CIA -> SUBSET Bits] /\ mask'["ciab"] = mask["ciab"]
  BY <1>1, <1>2, <1>4 DEF ChipsOK, CIA, Chip, Bit, Bits
<1>6. \A t : (Seen(t)' <=> Seen(t)) /\ (Busy(t)' <=> Busy(t)) /\ (Once(t)' <=> Once(t))
  BY <1>1 DEF Seen, Busy, Once, Sampled
<1>7. ~Busy("CIAA_B")
  BY <1>1, InCalm
<1>8. KeyboardWaits'
  BY <1>1, <1>3, <1>4, <1>6, <1>7 DEF Inv2, KeyboardWaits, Silent
<1>9. PlayerTicks'
  BY <1>1, <1>3, <1>4, <1>6 DEF Inv2, PlayerTicks
<1>10. FloppyWaits'
  BY <1>1, <1>3, <1>4, <1>5, <1>6 DEF Inv2, FloppyWaits, Silent
<1>11. OthersRest' /\ ChipsOK'
  BY <1>1, <1>4, <1>5 DEF Inv2, OthersRest, Sampled, ChipsOK
<1>12. QED
  BY <1>3, <1>8, <1>9, <1>10, <1>11 DEF IInv, Inv1, Inv2

(* The disk driver waits.                                                   *)
LEMMA WaitTimerSleepStep ==
  ASSUME IInv, NEW task \in DOMAIN tasks, WaitTimerSleep(task)
  PROVE  IInv'
<1>1. /\ In(task, "sleep", "start") /\ Goes(task, "load")
      /\ mask' = [mask EXCEPT ![Chip(Own(task))] = @ \ {Bit(Own(task))}]
      /\ UNCHANGED <<interrupts, icr, pending, oneshot, started, elapsed, timeout, inUse, own, kbd,
                     tasks>>
  BY DEF WaitTimerSleep, MaskICR, drivers
<1>2. Now(task).who = "floppy" /\ Own(task) = "CIAB_A" /\ Here("floppy", "sleep", "start")
  BY <1>1, CallerIs
<1>3. "load" \in Stages["sleep"]
  BY DEF Stages
<1>4. /\ TasksOK' /\ IntrOK' /\ Owners' /\ Chains' /\ Nested' /\ Silent
      /\ Moves("floppy", "sleep", "load")
  BY <1>1, <1>2, <1>3, MoveRest
<1>5. ChipsOK /\ Inv2
  BY DEF IInv, Inv1
<1>6. mask' \in [CIA -> SUBSET Bits] /\ "TA" \notin mask'["ciab"]
  BY <1>1, <1>2, <1>5 DEF ChipsOK, CIA, Chip, Bit
<1>7. \A t : (Seen(t)' <=> Seen(t)) /\ (Busy(t)' <=> Busy(t)) /\ (Once(t)' <=> Once(t))
  BY <1>1 DEF Seen, Busy, Once, Sampled
<1>8. ~Busy("CIAA_B")
  BY <1>1, InCalm
<1>9. /\ \A x : x # "start" => ~Sleeps(x)
      /\ \A x : Sleeps(x)' <=> x = "load"
      /\ \A x : Does("ahx", "setup", x)' <=> Does("ahx", "setup", x)
  BY <1>2, <1>4 DEF Moves, Here, Sleeps
<1>10. KeyboardWaits'
  BY <1>1, <1>4, <1>5, <1>7, <1>8 DEF Inv2, KeyboardWaits, Silent
<1>11. PlayerTicks'
  BY <1>1, <1>5, <1>7, <1>9 DEF Inv2, PlayerTicks
<1>12. FloppyWaits'
  BY <1>1, <1>4, <1>5, <1>6, <1>7, <1>9 DEF Inv2, FloppyWaits, Silent
<1>13. OthersRest' /\ ChipsOK'
  BY <1>1, <1>5, <1>6 DEF Inv2, OthersRest, Sampled, ChipsOK
<1>14. QED
  BY <1>4, <1>10, <1>11, <1>12, <1>13 DEF IInv, Inv1, Inv2

LEMMA WaitTimerSleepLoadStep ==
  ASSUME IInv, NEW task \in DOMAIN tasks, WaitTimerSleepLoad(task)
  PROVE  IInv'
<1>1. /\ In(task, "sleep", "load") /\ Goes(task, "wait")
      /\ oneshot' = oneshot \cup {Own(task)} /\ started' = started \cup {Own(task)}
      /\ elapsed' = elapsed \ {Own(task)}
      /\ UNCHANGED <<interrupts, icr, mask, pending, timeout, inUse, own, kbd, tasks>>
  BY DEF WaitTimerSleepLoad, LoadTimer, drivers
<1>2. Now(task).who = "floppy" /\ Own(task) = "CIAB_A" /\ Here("floppy", "sleep", "load")
  BY <1>1, CallerIs
<1>3. "wait" \in Stages["sleep"]
  BY DEF Stages
<1>4. /\ TasksOK' /\ IntrOK' /\ Owners' /\ Chains' /\ Nested' /\ Silent
      /\ Moves("floppy", "sleep", "wait")
  BY <1>1, <1>2, <1>3, MoveRest
<1>5. ChipsOK /\ Inv2
  BY DEF IInv, Inv1
<1>6. \A t : Seen(t)' <=> Seen(t)
  BY <1>1 DEF Seen, Sampled
<1>7. \A t \in {"CIAA_B", "CIAA_A"} : (Busy(t)' <=> Busy(t)) /\ (Once(t) => Once(t)')
  BY <1>1, <1>2, <1>6 DEF Busy, Once
<1>8. ~Busy("CIAA_B")
  BY <1>1, InCalm
<1>9. /\ \A x : Sleeps(x) <=> x = "load"
      /\ \A x : Sleeps(x)' <=> x = "wait"
      /\ \A x : Does("ahx", "setup", x)' <=> Does("ahx", "setup", x)
  BY <1>2, <1>4 DEF Moves, Here, Sleeps
<1>10. ~Seen("CIAB_A")
  BY <1>5, <1>9 DEF Inv2, FloppyWaits, Busy
<1>11. Once("CIAB_A")'
  BY <1>1, <1>2, <1>6, <1>10 DEF Once
<1>12. KeyboardWaits'
  BY <1>4, <1>5, <1>7, <1>8 DEF Inv2, KeyboardWaits, Silent
<1>13. PlayerTicks'
  BY <1>1, <1>5, <1>7, <1>9 DEF Inv2, PlayerTicks
<1>14. FloppyWaits'
  BY <1>1, <1>4, <1>5, <1>9, <1>11 DEF Inv2, FloppyWaits, Silent
<1>15. OthersRest' /\ ChipsOK'
  BY <1>1, <1>2, <1>5 DEF Inv2, OthersRest, Sampled, ChipsOK, TimerSet, TimerSeq
<1>16. QED
  BY <1>4, <1>12, <1>13, <1>14, <1>15 DEF IInv, Inv1, Inv2

LEMMA WaitTimerSleepWaitStep ==
  ASSUME IInv, NEW task \in DOMAIN tasks, WaitTimerSleepWait(task)
  PROVE  IInv'
<1>1. /\ In(task, "sleep", "wait") /\ Goes(task, "asleep")
      /\ timeout' = [timeout EXCEPT ![Own(task)] = "NotifyTimeout"]
      /\ mask' = [mask EXCEPT ![Chip(Own(task))] = @ \cup {Bit(Own(task))}]
      /\ UNCHANGED <<interrupts, icr, pending, oneshot, started, elapsed, inUse, own, kbd, tasks>>
  BY DEF WaitTimerSleepWait, UnmaskICR
<1>2. Now(task).who = "floppy" /\ Own(task) = "CIAB_A" /\ Here("floppy", "sleep", "wait")
  BY <1>1, CallerIs
<1>3. "asleep" \in Stages["sleep"]
  BY DEF Stages
<1>4. /\ TasksOK' /\ IntrOK' /\ Owners' /\ Chains' /\ Nested' /\ Silent
      /\ Moves("floppy", "sleep", "asleep")
  BY <1>1, <1>2, <1>3, MoveRest
<1>5. ChipsOK /\ Inv2
  BY DEF IInv, Inv1
<1>6. /\ timeout' \in [TimerSet -> {"NULL", "NotifyTimeout", "AhxPlayerTimeout"}]
      /\ timeout'["CIAB_A"] = "NotifyTimeout" /\ timeout'["CIAA_A"] = timeout["CIAA_A"]
  BY <1>1, <1>2, <1>5 DEF ChipsOK, TimerSet, TimerSeq
<1>7. mask' \in [CIA -> SUBSET Bits]
  BY <1>1, <1>2, <1>5 DEF ChipsOK, CIA, Chip, Bit, Bits
<1>8. \A t : (Seen(t)' <=> Seen(t)) /\ (Busy(t)' <=> Busy(t)) /\ (Once(t)' <=> Once(t))
  BY <1>1 DEF Seen, Busy, Once, Sampled
<1>9. ~Busy("CIAA_B")
  BY <1>1, InCalm
<1>10. /\ \A x : Sleeps(x)' <=> x = "asleep"
       /\ \A x : Does("ahx", "setup", x)' <=> Does("ahx", "setup", x)
  BY <1>4 DEF Moves, Sleeps
<1>11. KeyboardWaits'
  BY <1>1, <1>4, <1>5, <1>8, <1>9 DEF Inv2, KeyboardWaits, Silent
<1>12. PlayerTicks'
  BY <1>5, <1>6, <1>8, <1>10 DEF Inv2, PlayerTicks
<1>13. FloppyWaits'
  BY <1>1, <1>4, <1>5, <1>6, <1>8, <1>10 DEF Inv2, FloppyWaits, Silent
<1>14. OthersRest' /\ ChipsOK'
  BY <1>1, <1>5, <1>6, <1>7 DEF Inv2, OthersRest, Sampled, ChipsOK
<1>15. QED
  BY <1>4, <1>11, <1>12, <1>13, <1>14 DEF IInv, Inv1, Inv2

LEMMA WaitTimerSleepReturnsStep ==
  ASSUME IInv, NEW task \in DOMAIN tasks, WaitTimerSleepReturns(task)
  PROVE  IInv'
<1>1. /\ In(task, "sleep", "woken") /\ Again(task)
      /\ UNCHANGED <<interrupts, cias, timeout, inUse, own, kbd, tasks>>
  BY DEF WaitTimerSleepReturns, drivers
<1>2. Now(task).who = "floppy" /\ Here("floppy", "sleep", "woken")
  BY <1>1, CallerIs
<1>3. /\ TasksOK' /\ IntrOK' /\ Owners' /\ Chains' /\ Nested' /\ Silent
      /\ \A x : x # "start" => ~Sleeps(x)'
      /\ \A x : x # "start" => (Does("ahx", "setup", x)' <=> Does("ahx", "setup", x))
  <2>1. CASE Goes(task, "start")
    <3>1. "start" \in Stages["sleep"]
      BY DEF Stages
    <3>2. /\ TasksOK' /\ IntrOK' /\ Owners' /\ Chains' /\ Nested' /\ Silent
          /\ Moves("floppy", "sleep", "start")
      BY <1>1, <1>2, <2>1, <3>1, MoveRest
    <3>3. QED
      BY <3>2 DEF Moves, Sleeps
  <2>2. CASE Returns(task)
    <3>1. /\ TasksOK' /\ IntrOK' /\ Owners' /\ Chains' /\ Nested' /\ Silent
          /\ Ends("floppy", "sleep")
      BY <1>1, <1>2, <2>2, EndRest
    <3>2. QED
      BY <3>1 DEF Ends, Sleeps
  <2>3. QED
    BY <1>1, <2>1, <2>2 DEF Again
<1>4. ChipsOK /\ Inv2
  BY DEF IInv, Inv1
<1>5. ~Busy("CIAA_B")
  BY <1>1, InCalm
<1>6. \A x : Sleeps(x) <=> x = "woken"
  BY <1>2 DEF Here, Sleeps
<1>7. Inv2'
  BY <1>1, <1>3, <1>4, <1>5, <1>6, TimersStay DEF Silent
<1>8. ChipsOK'
  BY <1>1, <1>4 DEF ChipsOK, cias
<1>9. QED
  BY <1>3, <1>7, <1>8 DEF IInv, Inv1

LEMMA KeyboardInitICRStep ==
  ASSUME IInv, NEW task \in DOMAIN tasks, KeyboardInitICR(task)
  PROVE  IInv'
<1>1. /\ In(task, "KeyboardInit", "start") /\ Goes(task, "add")
      /\ mask' = [mask EXCEPT !["ciaa"] = @ \cup {"SP"}]
      /\ UNCHANGED <<interrupts, icr, pending, oneshot, started, elapsed, timeout, inUse, own, kbd,
                     tasks>>
  BY DEF KeyboardInitICR, UnmaskICR, drivers
<1>2. Now(task).who = "keyboard"
  BY <1>1, CallerIs
<1>3. "add" \in Stages["KeyboardInit"]
  BY DEF Stages
<1>4. /\ TasksOK' /\ IntrOK' /\ Owners' /\ Chains' /\ Nested' /\ Silent
      /\ Moves("keyboard", "KeyboardInit", "add")
  BY <1>1, <1>2, <1>3, MoveRest
<1>5. ChipsOK /\ Inv2
  BY DEF IInv, Inv1
<1>6. mask' \in [CIA -> SUBSET Bits] /\ mask'["ciab"] = mask["ciab"]
  BY <1>1, <1>5 DEF ChipsOK, CIA, Bits
<1>7. \A t : (Seen(t)' <=> Seen(t)) /\ (Busy(t)' <=> Busy(t)) /\ (Once(t)' <=> Once(t))
  BY <1>1 DEF Seen, Busy, Once, Sampled
<1>8. ~Busy("CIAA_B")
  BY <1>1, InCalm
<1>9. /\ \A x : Sleeps(x)' <=> Sleeps(x)
      /\ \A x : Does("ahx", "setup", x)' <=> Does("ahx", "setup", x)
  BY <1>4 DEF Moves, Sleeps
<1>10. KeyboardWaits'
  BY <1>1, <1>4, <1>5, <1>7, <1>8 DEF Inv2, KeyboardWaits, Silent
<1>11. PlayerTicks'
  BY <1>1, <1>5, <1>7, <1>9 DEF Inv2, PlayerTicks
<1>12. FloppyWaits'
  BY <1>1, <1>4, <1>5, <1>6, <1>7, <1>9 DEF Inv2, FloppyWaits, Silent
<1>13. OthersRest' /\ ChipsOK'
  BY <1>1, <1>5, <1>6 DEF Inv2, OthersRest, Sampled, ChipsOK
<1>14. QED
  BY <1>4, <1>10, <1>11, <1>12, <1>13 DEF IInv, Inv1, Inv2

-----------------------------------------------------------------------------
(* Timers are acquired and released, servers added and removed.             *)
LEMMA TimersDiffer ==
  /\ \A w, x \in Drivers : TimerOf[w] = TimerOf[x] => w = x
  /\ \A w \in Drivers : /\ TimerOf[w] \in TimerSet /\ TimerOf[w] # "keyboard"
                        /\ Irq(Chip(TimerOf[w])) \in Irqs
BY ChainsAssumption DEF Drivers, TimerOf, TimerSet, TimerSeq, Irq, Chip

(* The timer that AcquireTimer finds.                                       *)
LEMMA Fitting ==
  ASSUME IInv, NEW task \in DOMAIN tasks, In(task, "acquire", "start"),
         NEW fit, fit = {i \in 1..4 : TimerSeq[i] \notin inUse
                                        /\ Now(task).num \in {"ANY", TimerSeq[i]}},
         fit # {}
  PROVE  TimerSeq[CHOOSE i \in fit : \A j \in fit : i <= j] = TimerOf[Now(task).who]
<1> DEFINE who == Now(task).who
           i == CHOOSE i \in fit : \A j \in fit : i <= j
<1>1. Works(task, who, "acquire", "start")
  BY AtCall
<1>2. Now(task).num = Wanted[who] /\ who \in Drivers /\ Here(who, "acquire", "start")
  BY <1>1, WorksHere DEF IInv, Inv1
<1>3. TimerSeq[1] = "CIAA_A" /\ TimerSeq[2] = "CIAA_B" /\ TimerSeq[3] = "CIAB_A" /\ TimerSeq[4] = "CIAB_B"
  BY DEF TimerSeq
<1> HIDE DEF who
<1>4. CASE who = "ahx"
  <2>1. ~Added("ahx") /\ ~Adding("ahx")
    BY <1>2, <1>4 DEF Here, Adding
  <2>2. "CIAA_A" \notin inUse
    <3>1. SUFFICES ASSUME "CIAA_A" \in inUse PROVE FALSE
      OBVIOUS
    <3>2. PICK w \in Drivers : "CIAA_A" = TimerOf[w] /\ (Added(w) \/ Adding(w))
      BY <3>1 DEF IInv, Inv1, Owners
    <3>3. w = "ahx"
      BY <3>2 DEF Drivers, TimerOf
    <3>4. QED
      BY <2>1, <3>2, <3>3
  <2>3. 1 \in fit
    BY <1>2, <1>3, <1>4, <2>2 DEF Wanted, who
  <2>4. fit \in SUBSET (1..4)
    OBVIOUS
  <2> DEFINE first(k) == \A j \in fit : k <= j
  <2>5. first(1) /\ \A k \in fit : first(k) => k = 1
    BY <2>3, <2>4
  <2> HIDE DEF first
  <2>6. (CHOOSE k \in fit : first(k)) = 1
    BY <2>3, <2>5
  <2>7. QED
    BY <1>3, <1>4, <2>6 DEF TimerOf, who, first
<1>5. CASE who # "ahx"
  <2>1. Wanted[who] = TimerOf[who] /\ Wanted[who] # "ANY"
    BY <1>2, <1>5 DEF Drivers, Wanted, TimerOf
  <2>2. \A k \in fit : TimerSeq[k] = TimerOf[who]
    BY <1>2, <2>1 DEF who
  <2>3. fit \in SUBSET (1..4)
    OBVIOUS
  <2>4. PICK k \in fit : TRUE
    OBVIOUS
  <2>5. \A j \in fit : k = j
    BY <1>3, <2>2, <2>3, <2>4
  <2>6. k \in Int
    BY <2>3, <2>4
  <2>7. k \in fit /\ \A j \in fit : k <= j
    BY <2>4, <2>5, <2>6
  <2> DEFINE first(l) == \A j \in fit : l <= j
  <2>8. first(k)
    BY <2>7
  <2> HIDE DEF first
  <2>9. (CHOOSE l \in fit : first(l)) \in fit
    BY <2>4, <2>8
  <2>10. QED
    BY <2>2, <2>9 DEF first, who
<1>6. QED
  BY <1>4, <1>5

LEMMA AcquireTimerStep ==
  ASSUME IInv, NEW task \in DOMAIN tasks, AcquireTimer(task)
  PROVE  IInv'
<1> DEFINE who == Now(task).who
           fit == {i \in 1..4 : TimerSeq[i] \notin inUse
                                  /\ Now(task).num \in {"ANY", TimerSeq[i]}}
           timer == TimerSeq[CHOOSE i \in fit : \A j \in fit : i <= j]
<1>1. /\ In(task, "acquire", "start") /\ fit # {}
      /\ inUse' = inUse \cup {timer} /\ own' = [own EXCEPT ![who] = timer]
      /\ Goes(task, "add") /\ UNCHANGED <<interrupts, cias, timeout, kbd, tasks>>
  BY DEF AcquireTimer
<1>2. timer = TimerOf[who]
  BY <1>1, Fitting
<1>3. Works(task, who, "acquire", "start")
  BY <1>1, AtCall
<1> HIDE DEF who, fit, timer
<1>4. Here(who, "acquire", "start") /\ who \in Drivers
  BY <1>3, WorksHere DEF IInv, Inv1
<1>5. TasksOK' /\ Moves(who, "acquire", "add")
  <2>1. "add" \in Stages["acquire"]
    BY DEF Stages
  <2>2. QED
    BY <1>1, <1>3, <2>1, MovesTo DEF IInv, Inv1
<1>6. ChipsOK /\ IntrOK /\ Owners /\ Chains /\ Inv2
  BY DEF IInv, Inv1
<1>7. TimerOf[who] \in TimerSet
  BY <1>4, TimersDiffer
<1>8. ChipsOK' /\ IntrOK'
  BY <1>1, <1>2, <1>4, <1>6, <1>7 DEF ChipsOK, IntrOK, cias, interrupts
<1>9. \A w : (Adding(w)' <=> w = who \/ Adding(w)) /\ (Added(w)' <=> Added(w))
  BY <1>4, <1>5 DEF Moves, SameAdded, Here, Adding
<1>10. \A w \in Drivers : own'[w] = IF w = who THEN TimerOf[who] ELSE own[w]
  BY <1>1, <1>2, <1>4, <1>6 DEF ChipsOK
<1>11. Owners'
  <2>1. \A w \in Drivers : own'[w] \in {"none", TimerOf[w]}
    BY <1>6, <1>10 DEF Owners
  <2>2. \A w \in Drivers : Added(w)' \/ Adding(w)' => own'[w] = TimerOf[w]
    BY <1>6, <1>9, <1>10 DEF Owners
  <2>3. \A t \in inUse' : \E w \in Drivers : t = TimerOf[w] /\ (Added(w)' \/ Adding(w)')
    BY <1>1, <1>2, <1>4, <1>6, <1>9 DEF Owners
  <2>4. QED
    BY <2>1, <2>2, <2>3 DEF Owners
<1>12. Chains'
  BY <1>1, <1>5, <1>6, ChainsStay DEF Moves, interrupts
<1>13. handlers = <<>> /\ "EXTER" \notin intreq /\ ~Busy("CIAA_B")
  BY <1>1, InCalm
<1>14. Nested' /\ Silent
  BY <1>1, <1>13, StillCalm DEF Silent, interrupts
<1>15. /\ \A x : x # "start" => (Sleeps(x)' <=> Sleeps(x))
       /\ \A x : x # "start" => (Does("ahx", "setup", x)' <=> Does("ahx", "setup", x))
  BY <1>4, <1>5 DEF Moves, Here, Sleeps
<1>16. Inv2'
  BY <1>1, <1>6, <1>13, <1>14, <1>15, TimersStay DEF Silent
<1>17. QED
  BY <1>5, <1>8, <1>11, <1>12, <1>14, <1>16 DEF IInv, Inv1

(* A call that ends with a change to a chain: what else is left.            *)
LEMMA EndTimers ==
  ASSUME IInv, NEW task \in DOMAIN tasks, NEW call, call \notin {"setup", "sleep"}, NEW where,
         In(task, call, where), Returns(task), UNCHANGED <<cias, timeout, kbd, tasks>>,
         handlers' = handlers, \A q : q \in intreq' => q \in intreq
  PROVE  /\ TasksOK' /\ Nested' /\ Inv2' /\ Ends(Now(task).who, call)
<1> DEFINE who == Now(task).who
<1>1. Works(task, who, call, where)
  BY AtCall
<1> HIDE DEF who
<1>2. Here(who, call, where)
  BY <1>1, WorksHere DEF IInv, Inv1
<1>3. TasksOK' /\ Ends(who, call)
  BY <1>1, EndsThere DEF IInv, Inv1
<1>4. handlers = <<>> /\ "EXTER" \notin intreq /\ ~Busy("CIAA_B")
  BY InCalm
<1>5. Nested' /\ Silent
  BY <1>4, StillCalm DEF Silent
<1>6. /\ \A x : x # "start" => (Sleeps(x)' <=> Sleeps(x))
      /\ \A x : x # "start" => (Does("ahx", "setup", x)' <=> Does("ahx", "setup", x))
  BY <1>2, <1>3 DEF Ends, Here, Sleeps
<1>7. Inv2'
  BY <1>4, <1>5, <1>6, TimersStay DEF Silent, IInv
<1>8. QED
  BY <1>3, <1>5, <1>7 DEF who

LEMMA AcquireTimerAddStep ==
  ASSUME IInv, NEW task \in DOMAIN tasks, AcquireTimerAdd(task)
  PROVE  IInv'
<1> DEFINE who == Now(task).who
           timer == TimerOf[who]
           irq == Irq(Chip(timer))
<1>1. /\ In(task, "acquire", "add") /\ AddIntServer(Irq(Chip(Own(task))), Own(task))
      /\ Returns(task) /\ UNCHANGED <<cias, drivers, kbd, tasks>>
  BY DEF AcquireTimerAdd
<1>2. Works(task, who, "acquire", "add")
  BY <1>1, AtCall
<1>3. Here(who, "acquire", "add") /\ who \in Drivers
  BY <1>2, WorksHere DEF IInv, Inv1
<1>4. ChipsOK /\ IntrOK /\ Owners /\ Chains /\ ChainsOK
  BY DEF IInv, Inv1, Chains
<1>5. Own(task) = timer
  BY <1>3, <1>4 DEF Here, Owners, Adding, Own
<1> HIDE DEF who, timer, irq
<1>6. timer \in TimerSet /\ timer \in ServerSet /\ timer # "keyboard" /\ irq \in Irqs
  BY <1>3, TimersDiffer DEF timer, irq, ServerSet
<1>7. timer \notin Servers(irq)
  <2>1. ~Added(who)
    BY <1>3 DEF Here
  <2>2. ~OnChain(irq, timer)
    BY <1>3, <1>6, <2>1, TimersDiffer DEF OnChain, timer
  <2>3. QED
    BY <1>4, <1>6, <2>2 DEF Chains
<1>8. AddIntServer(irq, timer)
  BY <1>1, <1>5 DEF irq
<1>9. /\ IntrOK' /\ ChainsOK' /\ handlers' = handlers
      /\ \A q \in Irqs : Servers(q)' = IF q = irq THEN Servers(q) \cup {timer} ELSE Servers(q)
      /\ \A q : q \in intreq' => q \in intreq
  BY <1>4, <1>6, <1>7, <1>8, AddIs
<1>10. TasksOK' /\ Nested' /\ Inv2' /\ Ends(who, "acquire")
  BY <1>1, <1>9, EndTimers DEF drivers, who
<1>11. (KeyboardOn' <=> KeyboardOn) /\ (\A w : Added(w)' <=> w = who \/ Added(w))
       /\ \A w : Adding(w)' <=> w # who /\ Adding(w)
  BY <1>3, <1>10 DEF Ends, Here, Adding
<1>12. own' = own /\ inUse' = inUse /\ ChipsOK'
  BY <1>1, <1>4 DEF drivers, cias, ChipsOK
<1>13. Adding(who)
  BY <1>3 DEF Here, Adding
<1>14. Owners'
  BY <1>4, <1>11, <1>12, <1>13 DEF Owners
<1>15. Chains'
  <2>1. ASSUME NEW q \in Irqs, NEW s \in ServerSet
        PROVE  OnChain(q, s)' <=> OnChain(q, s) \/ (q = irq /\ s = timer)
    BY <1>3, <1>11 DEF OnChain, irq, timer
  <2>2. QED
    BY <1>4, <1>9, <2>1 DEF Chains
<1>16. QED
  BY <1>9, <1>10, <1>12, <1>14, <1>15 DEF IInv, Inv1

LEMMA ReleaseTimerStep ==
  ASSUME IInv, NEW task \in DOMAIN tasks, ReleaseTimer(task)
  PROVE  IInv'
<1> DEFINE who == Now(task).who
           timer == TimerOf[who]
           irq == Irq(Chip(timer))
<1>1. /\ In(task, "release", "start") /\ RemIntServer(Irq(Chip(Own(task))), Own(task))
      /\ inUse' = inUse \ {Own(task)} /\ Returns(task)
      /\ UNCHANGED <<cias, timeout, own, kbd, tasks>>
  BY DEF ReleaseTimer
<1>2. Own(task) = timer /\ Here(who, "release", "start") /\ who \in Drivers
  BY <1>1, CallerIs
<1>3. ChipsOK /\ IntrOK /\ Owners /\ Chains /\ ChainsOK
  BY DEF IInv, Inv1, Chains
<1> HIDE DEF who, timer, irq
<1>4. timer \in TimerSet /\ timer \in ServerSet /\ timer # "keyboard" /\ irq \in Irqs
  BY <1>2, TimersDiffer DEF timer, irq, ServerSet
<1>5. RemIntServer(irq, timer)
  BY <1>1, <1>2 DEF irq
<1>6. /\ IntrOK' /\ ChainsOK' /\ handlers' = handlers
      /\ \A q \in Irqs : Servers(q)' = IF q = irq THEN Servers(q) \ {timer} ELSE Servers(q)
      /\ \A q : q \in intreq' => q \in intreq
  BY <1>3, <1>4, <1>5, RemIs
<1>7. TasksOK' /\ Nested' /\ Inv2' /\ Ends(who, "release")
  BY <1>1, <1>6, EndTimers DEF who
<1>8. (KeyboardOn' <=> KeyboardOn) /\ (\A w : Added(w)' <=> w # who /\ Added(w))
      /\ \A w : Adding(w)' <=> Adding(w)
  BY <1>2, <1>7 DEF Ends, Here, Adding
<1>9. own' = own /\ inUse' = inUse \ {timer} /\ ChipsOK'
  BY <1>1, <1>2, <1>3 DEF cias, ChipsOK
<1>10. ~Adding(who)
  BY <1>2 DEF Here, Adding
<1>11. Owners'
  <2>1. \A w \in Drivers : own'[w] \in {"none", TimerOf[w]}
    BY <1>3, <1>9 DEF Owners
  <2>2. \A w \in Drivers : Added(w)' \/ Adding(w)' => own'[w] = TimerOf[w]
    BY <1>3, <1>8, <1>9 DEF Owners
  <2>3. ASSUME NEW t \in inUse' PROVE \E w \in Drivers : t = TimerOf[w] /\ (Added(w)' \/ Adding(w)')
    <3>1. PICK w \in Drivers : t = TimerOf[w] /\ (Added(w) \/ Adding(w))
      BY <1>3, <1>9, <2>3 DEF Owners
    <3>2. w # who
      BY <1>9, <2>3, <3>1 DEF timer
    <3>3. QED
      BY <1>8, <3>1, <3>2
  <2>4. QED
    BY <2>1, <2>2, <2>3 DEF Owners
<1>12. Chains'
  <2>1. ASSUME NEW q \in Irqs, NEW s \in ServerSet
        PROVE  OnChain(q, s)' <=> OnChain(q, s) /\ ~(q = irq /\ s = timer)
    <3>1. s = timer /\ OnChain(q, s) => q = irq
      BY <1>2, <1>4, TimersDiffer DEF OnChain, irq, timer
    <3>2. \A w \in Drivers : s = TimerOf[w] => (w = who <=> s = timer)
      BY <1>2, TimersDiffer DEF timer
    <3>3. QED
      BY <1>4, <1>8, <3>1, <3>2 DEF OnChain
  <2>2. QED
    BY <1>3, <1>6, <2>1 DEF Chains
<1>13. QED
  BY <1>6, <1>7, <1>9, <1>11, <1>12 DEF IInv, Inv1

LEMMA KeyboardInitAddStep ==
  ASSUME IInv, NEW task \in DOMAIN tasks, KeyboardInitAdd(task)
  PROVE  IInv'
<1>1. /\ In(task, "KeyboardInit", "add") /\ AddIntServer("PORTS", "keyboard")
      /\ Returns(task) /\ UNCHANGED <<cias, drivers, kbd, tasks>>
  BY DEF KeyboardInitAdd
<1>2. Now(task).who = "keyboard" /\ Here("keyboard", "KeyboardInit", "add")
  BY <1>1, CallerIs
<1>3. ChipsOK /\ IntrOK /\ Owners /\ Chains /\ ChainsOK
  BY DEF IInv, Inv1, Chains
<1>4. "keyboard" \in ServerSet /\ "PORTS" \in Irqs
  BY ChainsAssumption DEF ServerSet
<1>5. ~OnChain("PORTS", "keyboard")
  BY <1>2, TimersDiffer DEF OnChain, Here
<1>6. "keyboard" \notin Servers("PORTS")
  BY <1>3, <1>4, <1>5 DEF Chains
<1>7. /\ IntrOK' /\ ChainsOK' /\ handlers' = handlers
      /\ \A q \in Irqs : Servers(q)' = IF q = "PORTS" THEN Servers(q) \cup {"keyboard"} ELSE Servers(q)
      /\ \A q : q \in intreq' => q \in intreq
  BY <1>1, <1>3, <1>4, <1>6, AddIs
<1>8. TasksOK' /\ Nested' /\ Inv2' /\ Ends("keyboard", "KeyboardInit")
  BY <1>1, <1>2, <1>7, EndTimers DEF drivers
<1>9. KeyboardOn' /\ (\A w : Added(w)' <=> Added(w)) /\ \A w : Adding(w)' <=> Adding(w)
  BY <1>2, <1>8 DEF Ends, Here, Adding
<1>10. own' = own /\ inUse' = inUse /\ ChipsOK'
  BY <1>1, <1>3 DEF drivers, cias, ChipsOK
<1>11. Owners'
  BY <1>3, <1>9, <1>10 DEF Owners
<1>12. Chains'
  <2>1. ASSUME NEW q \in Irqs, NEW s \in ServerSet
        PROVE  OnChain(q, s)' <=> OnChain(q, s) \/ (q = "PORTS" /\ s = "keyboard")
    BY <1>9, TimersDiffer DEF OnChain
  <2>2. QED
    BY <1>3, <1>7, <2>1 DEF Chains
<1>13. QED
  BY <1>7, <1>8, <1>10, <1>11, <1>12 DEF IInv, Inv1

LEMMA KeyboardKillStep ==
  ASSUME IInv, NEW task \in DOMAIN tasks, KeyboardKill(task)
  PROVE  IInv'
<1>1. /\ In(task, "KeyboardKill", "start") /\ RemIntServer("PORTS", "keyboard")
      /\ Returns(task) /\ UNCHANGED <<cias, drivers, kbd, tasks>>
  BY DEF KeyboardKill
<1>2. Now(task).who = "keyboard" /\ Here("keyboard", "KeyboardKill", "start")
  BY <1>1, CallerIs
<1>3. ChipsOK /\ IntrOK /\ Owners /\ Chains /\ ChainsOK
  BY DEF IInv, Inv1, Chains
<1>4. "keyboard" \in ServerSet /\ "PORTS" \in Irqs
  BY ChainsAssumption DEF ServerSet
<1>5. /\ IntrOK' /\ ChainsOK' /\ handlers' = handlers
      /\ \A q \in Irqs : Servers(q)' = IF q = "PORTS" THEN Servers(q) \ {"keyboard"} ELSE Servers(q)
      /\ \A q : q \in intreq' => q \in intreq
  BY <1>1, <1>3, <1>4, RemIs
<1>6. TasksOK' /\ Nested' /\ Inv2' /\ Ends("keyboard", "KeyboardKill")
  BY <1>1, <1>2, <1>5, EndTimers DEF drivers
<1>7. ~KeyboardOn' /\ (\A w : Added(w)' <=> Added(w)) /\ \A w : Adding(w)' <=> Adding(w)
  BY <1>2, <1>6 DEF Ends, Here, Adding
<1>8. own' = own /\ inUse' = inUse /\ ChipsOK'
  BY <1>1, <1>3 DEF drivers, cias, ChipsOK
<1>9. Owners'
  BY <1>3, <1>7, <1>8 DEF Owners
<1>10. Chains'
  <2>1. ASSUME NEW q \in Irqs, NEW s \in ServerSet
        PROVE  OnChain(q, s)' <=> OnChain(q, s) /\ ~(q = "PORTS" /\ s = "keyboard")
    BY <1>7, TimersDiffer DEF OnChain
  <2>2. QED
    BY <1>3, <1>5, <2>1 DEF Chains
<1>11. QED
  BY <1>5, <1>6, <1>8, <1>9, <1>10 DEF IInv, Inv1

-----------------------------------------------------------------------------
(* Servers: what a read of a register does, and who runs.                   *)
LEMMA SampleIs ==
  ASSUME ChipsOK, NEW cia \in CIA, NEW bit, SampleICR(cia, bit)
  PROVE  /\ icr' \in [CIA -> SUBSET Bits] /\ pending' \in [CIA -> SUBSET Bits]
         /\ \A c \in CIA : Sampled(c)' = IF c = cia THEN Sampled(c) \ {bit} ELSE Sampled(c)
<1>1. /\ icr' = [icr EXCEPT ![cia] = {}]
      /\ pending' = [pending EXCEPT ![cia] = Sampled(cia) \ {bit}]
  BY DEF SampleICR
<1>2. Sampled(cia) \in SUBSET Bits
  BY DEF ChipsOK, Sampled
<1>3. \A c \in CIA : /\ icr'[c] = IF c = cia THEN {} ELSE icr[c]
                     /\ pending'[c] = IF c = cia THEN Sampled(cia) \ {bit} ELSE pending[c]
  BY <1>1 DEF ChipsOK
<1>4. icr' \in [CIA -> SUBSET Bits]
  BY <1>1 DEF ChipsOK
<1>5. pending' \in [CIA -> SUBSET Bits]
  BY <1>1, <1>2 DEF ChipsOK
<1>6. \A c \in CIA : Sampled(c)' = icr'[c] \cup pending'[c]
  BY DEF Sampled
<1>7. \A c \in CIA : Sampled(c)' = IF c = cia THEN Sampled(c) \ {bit} ELSE Sampled(c)
  BY <1>3, <1>6 DEF Sampled
<1>8. QED
  BY <1>4, <1>5, <1>7

(* The bits of a timer that a read for another leaves.                      *)
LEMMA SeenIs ==
  ASSUME NEW cia \in CIA, NEW bit,
         \A c \in CIA : Sampled(c)' = IF c = cia THEN Sampled(c) \ {bit} ELSE Sampled(c)
  PROVE  /\ \A t : Seen(t)' <=> Seen(t) /\ ~(Chip(t) = cia /\ Bit(t) = bit)
         /\ OthersRest /\ started' = started => OthersRest'
<1>1. \A t : Chip(t) \in CIA
  BY DEF Chip, CIA
<1>2. \A t : Seen(t)' <=> Bit(t) \in Sampled(Chip(t))'
  BY DEF Seen
<1>3. \A t : Seen(t)' <=> Seen(t) /\ ~(Chip(t) = cia /\ Bit(t) = bit)
  BY <1>1, <1>2 DEF Seen
<1>4. "ciab" \in CIA
  BY DEF CIA
<1>5. OthersRest /\ started' = started => OthersRest'
  BY <1>4 DEF OthersRest
<1>6. QED
  BY <1>3, <1>5

(* The server of a timer is there for its driver, on the chain of its CIA.  *)
LEMMA ServerIs ==
  ASSUME IInv, NEW s \in ServerSet, NEW where, Serving(s, where)
  PROVE  /\ handlers # <<>> /\ handlers[1].is = s /\ handlers[1].at = where
         /\ handlers[1].irq \in Irqs /\ 1 \in DOMAIN handlers
         /\ OnChain(handlers[1].irq, s)
<1>1. handlers # <<>> /\ handlers[1].is = s /\ handlers[1].at = where
  BY DEF Serving
<1>2. 1 \in DOMAIN handlers /\ handlers[1] \in Activation
  BY <1>1, TopIs DEF IInv, Inv1
<1>3. handlers[1].irq \in Irqs
  BY <1>2 DEF Activation
<1>4. s \in Servers(handlers[1].irq)
  BY <1>1, <1>2 DEF IInv, Inv1, Nested
<1>5. OnChain(handlers[1].irq, s)
  BY <1>3, <1>4 DEF IInv, Inv1, Chains
<1>6. QED
  BY <1>1, <1>2, <1>3, <1>5

(* The keyboard's server is started after its timer is acquired, and        *)
(* stopped before that is released.                                         *)
LEMMA OnHasTimer ==
  ASSUME TasksOK, NEW task \in DOMAIN tasks, IsOn(tasks[task], at[task])
  PROVE  HasTimer(tasks[task], at[task], "keyboard")
<1> DEFINE calls == tasks[task]
           i == at[task]
<1>1. i \in 1..(Len(calls) + 1) /\ DOMAIN calls = 1..Len(calls) /\ Len(calls) \in Nat
  BY Rules
<1>2. PICK k \in 1..(i - 1) :
        /\ calls[k].who = "keyboard" /\ calls[k].call = "KeyboardInit"
        /\ \A l \in (k + 1)..(i - 1) :
             ~(calls[l].who = "keyboard" /\ calls[l].call = "KeyboardKill")
  BY DEF IsOn, Between
<1>3. k \in DOMAIN calls
  BY <1>1, <1>2
<1>4. HasTimer(calls, k, "keyboard")
  BY <1>2, <1>3, RulesAt
<1>5. PICK m \in 1..(k - 1) :
        /\ calls[m].who = "keyboard" /\ calls[m].call = "acquire"
        /\ \A l \in (m + 1)..(k - 1) :
             ~(calls[l].who = "keyboard" /\ calls[l].call = "release")
  BY <1>4 DEF HasTimer, Between
<1>6. ASSUME NEW l \in (k + 1)..(i - 1), calls[l].who = "keyboard", calls[l].call = "release"
      PROVE  FALSE
  <2>1. l \in DOMAIN calls
    BY <1>1, <1>2, <1>6
  <2>2. ~IsOn(calls, l)
    BY <1>6, <2>1, RulesAt
  <2>3. k \in 1..(l - 1) /\ \A o \in (k + 1)..(l - 1) : o \in (k + 1)..(i - 1)
    BY <1>1, <1>2, <1>6
  <2>4. IsOn(calls, l)
    BY <1>2, <2>3 DEF IsOn, Between
  <2>5. QED
    BY <2>2, <2>4
<1>7. m \in 1..(i - 1)
  BY <1>1, <1>2, <1>5
<1>8. ASSUME NEW l \in (m + 1)..(i - 1)
      PROVE  ~(calls[l].who = "keyboard" /\ calls[l].call = "release")
  <2>1. l \in (m + 1)..(k - 1) \/ l = k \/ l \in (k + 1)..(i - 1)
    BY <1>1, <1>2, <1>5, <1>8
  <2>2. QED
    BY <1>2, <1>5, <1>6, <2>1
<1>9. QED
  BY <1>5, <1>7, <1>8 DEF HasTimer, Between

(* The keyboard's server has its timer, and nothing else of it is at work.  *)
LEMMA KeyboardOwns ==
  ASSUME IInv, NEW i \in DOMAIN handlers, handlers[i].is = "keyboard" \/ handlers[i].at # "call"
  PROVE  own["keyboard"] = "CIAA_B"
<1>1. IntrOK /\ Chains /\ Nested /\ Owners /\ TasksOK
  BY DEF IInv, Inv1
<1>2. KeyboardOn
  BY <1>1, Alone
<1>3. PICK task \in DOMAIN tasks : IsOn(tasks[task], at[task])
  BY <1>2 DEF KeyboardOn
<1>4. HasTimer(tasks[task], at[task], "keyboard")
  BY <1>1, <1>3, OnHasTimer
<1>5. Added("keyboard")
  BY <1>4 DEF Added
<1>6. QED
  BY <1>1, <1>5 DEF Owners, Drivers, TimerOf

LEMMA KeyboardIs ==
  ASSUME IInv, NEW where, Serving("keyboard", where)
  PROVE  /\ handlers # <<>> /\ handlers[1].is = "keyboard" /\ handlers[1].at = where
         /\ own["keyboard"] = "CIAA_B"
         /\ \A x : x # "call" => (KeyboardAt(x) <=> x = where)
<1>1. IntrOK /\ Chains /\ Nested
  BY DEF IInv, Inv1
<1>2. handlers # <<>> /\ handlers[1].is = "keyboard" /\ handlers[1].at = where
  BY DEF Serving
<1>3. 1 \in DOMAIN handlers
  BY <1>1, <1>2, TopIs
<1>4. handlers[1].irq = "PORTS"
  BY <1>1, <1>2, <1>3, Alone
<1>5. \A i \in DOMAIN handlers : handlers[i].at # "call" => i = 1
  BY <1>1, <1>2, <1>3, <1>4, Alone
<1>6. \A x : x # "call" => (KeyboardAt(x) <=> x = where)
  BY <1>2, <1>3, <1>5 DEF KeyboardAt
<1>7. own["keyboard"] = "CIAA_B"
  BY <1>2, <1>3, KeyboardOwns
<1>8. QED
  BY <1>2, <1>6, <1>7

(* A step that no task takes leaves what the tasks say.                     *)
LEMMA TasksRest ==
  ASSUME IInv, UNCHANGED <<chain, intena, own, inUse, control>>
  PROVE  TasksOK' /\ Owners' /\ Chains' /\ Stays
<1>1. TasksOK /\ Owners /\ Chains
  BY DEF IInv, Inv1
<1>2. TasksOK' /\ Stays
  BY <1>1, StaysSo
<1>3. SameAdded /\ \A w : Adding(w)' <=> Adding(w)
  BY <1>2 DEF Stays, Adding
<1>4. Owners' /\ Chains'
  BY <1>1, <1>3, OwnersStay, ChainsStay
<1>5. QED
  BY <1>2, <1>4

(* Waits and timers are what they were, and so is where the keyboard's      *)
(* server spins.                                                            *)
LEMMA WaitsStay ==
  ASSUME Inv2, Stays, UNCHANGED <<mask, oneshot, started, elapsed, timeout>>,
         \A t \in TimerSet : Seen(t)' <=> Seen(t), OthersRest',
         KeyboardAt("spin")' <=> KeyboardAt("spin"), KeyboardAt("ack")' => KeyboardAt("ack"),
         "EXTER" \in intreq' \/ Handles("EXTER")' => "EXTER" \in intreq \/ Handles("EXTER")
  PROVE  Inv2'
<1>1. \A t \in TimerSet : (Busy(t)' <=> Busy(t)) /\ (Once(t)' <=> Once(t))
  BY DEF Busy, Once
<1>2. {"CIAA_A", "CIAA_B", "CIAB_A"} \subseteq TimerSet
  BY DEF TimerSet, TimerSeq
<1>3. KeyboardWaits'
  BY <1>1, <1>2 DEF Inv2, KeyboardWaits
<1>4. PlayerTicks'
  BY <1>1, <1>2 DEF Inv2, PlayerTicks, Stays
<1>5. FloppyWaits'
  BY <1>1, <1>2 DEF Inv2, FloppyWaits, Stays, Sleeps
<1>6. QED
  BY <1>3, <1>4, <1>5 DEF Inv2

(* The keyboard's server reads a code.                                      *)
LEMMA KeyboardIntHandlerStep ==
  ASSUME IInv, KeyboardIntHandler
  PROVE  IInv'
<1>1. /\ Serving("keyboard", "call") /\ SampleICR("ciaa", "SP")
      /\ GoesTo("load") \/ ServerReturns
      /\ UNCHANGED <<chain, intena, intreq, mask, oneshot, started, elapsed, timeout, own, inUse,
                     kbd, control>>
  BY DEF KeyboardIntHandler, drivers
<1>2. ChipsOK /\ IntrOK /\ Chains /\ Nested /\ Inv2
  BY DEF IInv, Inv1
<1>3. "ciaa" \in CIA
  BY DEF CIA
<1>4. /\ icr' \in [CIA -> SUBSET Bits] /\ pending' \in [CIA -> SUBSET Bits]
      /\ \A c \in CIA : Sampled(c)' = IF c = "ciaa" THEN Sampled(c) \ {"SP"} ELSE Sampled(c)
  BY <1>1, <1>2, <1>3, SampleIs
<1>5. /\ \A t : Seen(t)' <=> Seen(t) /\ ~(Chip(t) = "ciaa" /\ Bit(t) = "SP")
      /\ OthersRest /\ started' = started => OthersRest'
  BY <1>3, <1>4, SeenIs
<1>6. \A t : Bit(t) # "SP"
  BY DEF Bit
<1>7. /\ handlers # <<>> /\ handlers[1].is = "keyboard" /\ handlers[1].at = "call"
      /\ \A x : x # "call" => ~KeyboardAt(x)
  BY <1>1, KeyboardIs
<1>8. /\ IntrOK' /\ Nested' /\ (Handles("EXTER")' => Handles("EXTER"))
      /\ ~KeyboardAt("spin")' /\ ~KeyboardAt("ack")'
  <2>1. CASE GoesTo("load")
    <3>1. /\ IntrOK' /\ Nested' /\ \A irq : Handles(irq)' <=> Handles(irq)
          /\ \A x : x # "call" => (KeyboardAt(x)' <=> x = "load")
      BY <1>1, <1>2, <1>7, <2>1, GoesOn
    <3>2. QED
      BY <3>1
  <2>2. CASE ServerReturns
    <3>1. /\ IntrOK' /\ Nested' /\ \A q : Handles(q)' => Handles(q)
          /\ \A x : x # "call" => (KeyboardAt(x)' <=> KeyboardAt(x) /\ handlers[1].at # x)
      BY <1>1, <1>2, <1>7, <2>2, Returned
    <3>2. QED
      BY <1>7, <3>1
  <2>3. QED
    BY <1>1, <2>1, <2>2
<1>9. TasksOK' /\ Owners' /\ Chains' /\ Stays
  BY <1>1, TasksRest
<1>10. ChipsOK'
  BY <1>1, <1>2, <1>4 DEF ChipsOK
<1>11. Inv2'
  <2>1. \A t \in TimerSet : Seen(t)' <=> Seen(t)
    BY <1>5, <1>6
  <2>2. OthersRest'
    BY <1>1, <1>2, <1>5 DEF Inv2
  <2>3. ~KeyboardAt("spin")
    BY <1>7
  <2>4. QED
    BY <1>1, <1>2, <1>8, <1>9, <2>1, <2>2, <2>3, WaitsStay
<1>12. QED
  BY <1>8, <1>9, <1>10, <1>11 DEF IInv, Inv1

(* The keyboard's server starts its timer, which did not count.             *)
LEMMA WaitTimerSpinStep ==
  ASSUME IInv, WaitTimerSpin
  PROVE  IInv'
<1>1. Serving("keyboard", "load")
  BY DEF WaitTimerSpin
<1>2. /\ handlers # <<>> /\ handlers[1].is = "keyboard" /\ own["keyboard"] = "CIAA_B"
      /\ \A x : x # "call" => (KeyboardAt(x) <=> x = "load")
  BY <1>1, KeyboardIs
<1>3. Chip("CIAA_B") = "ciaa" /\ Bit("CIAA_B") = "TB"
  BY DEF Chip, Bit
<1>4. /\ mask' = [mask EXCEPT !["ciaa"] = @ \ {"TB"}]
      /\ oneshot' = oneshot \cup {"CIAA_B"} /\ started' = started \cup {"CIAA_B"}
      /\ elapsed' = elapsed \ {"CIAA_B"} /\ GoesTo("spin")
      /\ UNCHANGED <<chain, intena, intreq, icr, pending, timeout, own, inUse, kbd, control>>
  BY <1>2, <1>3 DEF WaitTimerSpin, MaskICR, LoadTimer, drivers
<1>5. ChipsOK /\ IntrOK /\ Chains /\ Nested /\ Inv2
  BY DEF IInv, Inv1
<1>6. /\ IntrOK' /\ Nested' /\ (Handles("EXTER")' <=> Handles("EXTER"))
      /\ KeyboardAt("spin")' /\ ~KeyboardAt("ack")'
  <2>1. /\ IntrOK' /\ Nested' /\ \A irq : Handles(irq)' <=> Handles(irq)
        /\ \A x : x # "call" => (KeyboardAt(x)' <=> x = "spin")
    BY <1>2, <1>4, <1>5, GoesOn
  <2>2. QED
    BY <2>1
<1>7. TasksOK' /\ Owners' /\ Chains' /\ Stays
  BY <1>4, TasksRest
<1>8. ChipsOK' /\ mask'["ciab"] = mask["ciab"]
  BY <1>4, <1>5 DEF ChipsOK, CIA, TimerSet, TimerSeq
<1>9. \A t : Seen(t)' <=> Seen(t)
  BY <1>4 DEF Seen, Sampled
<1>10. ~Seen("CIAA_B")
  BY <1>2, <1>5 DEF Inv2, KeyboardWaits, Busy
<1>11. \A t \in {"CIAA_A", "CIAB_A"} : (Busy(t)' <=> Busy(t)) /\ (Once(t)' <=> Once(t))
  BY <1>4, <1>9 DEF Busy, Once
<1>12. KeyboardWaits'
  BY <1>4, <1>6, <1>9, <1>10 DEF KeyboardWaits, Once
<1>13. PlayerTicks'
  BY <1>4, <1>5, <1>7, <1>11 DEF Inv2, PlayerTicks, Stays
<1>14. FloppyWaits'
  BY <1>4, <1>5, <1>6, <1>7, <1>8, <1>11 DEF Inv2, FloppyWaits, Stays, Sleeps
<1>15. OthersRest'
  BY <1>4, <1>5 DEF Inv2, OthersRest, Sampled
<1>16. QED
  BY <1>6, <1>7, <1>8, <1>12, <1>13, <1>14, <1>15 DEF IInv, Inv1, Inv2

(* It sees the bit of its timer, which has fired, or spins on.              *)
LEMMA WaitTimerSpinSampleStep ==
  ASSUME IInv, WaitTimerSpinSample
  PROVE  IInv'
<1>1. Serving("keyboard", "spin")
  BY DEF WaitTimerSpinSample
<1>2. /\ handlers # <<>> /\ handlers[1].is = "keyboard" /\ own["keyboard"] = "CIAA_B"
      /\ \A x : x # "call" => (KeyboardAt(x) <=> x = "spin")
  BY <1>1, KeyboardIs
<1>3. Chip("CIAA_B") = "ciaa" /\ Bit("CIAA_B") = "TB" /\ "ciaa" \in CIA
  BY DEF Chip, Bit, CIA
<1> DEFINE where == IF Seen("CIAA_B") THEN "ack" ELSE "spin"
<1>4. /\ SampleICR("ciaa", "TB") /\ GoesTo(where)
      /\ UNCHANGED <<chain, intena, intreq, mask, oneshot, started, elapsed, timeout, own, inUse,
                     kbd, control>>
  BY <1>2, <1>3 DEF WaitTimerSpinSample, Seen, drivers
<1>5. ChipsOK /\ IntrOK /\ Chains /\ Nested /\ Inv2
  BY DEF IInv, Inv1
<1>6. where \in {"load", "spin", "ack"} /\ where # "call"
  OBVIOUS
<1>7. where = "ack" <=> Seen("CIAA_B")
  OBVIOUS
<1> HIDE DEF where
<1>8. /\ IntrOK' /\ Nested' /\ \A irq : Handles(irq)' <=> Handles(irq)
      /\ \A x : x # "call" => (KeyboardAt(x)' <=> x = where)
  BY <1>2, <1>4, <1>5, <1>6, GoesOn
<1>9. TasksOK' /\ Owners' /\ Chains' /\ Stays
  BY <1>4, TasksRest
<1>10. /\ icr' \in [CIA -> SUBSET Bits] /\ pending' \in [CIA -> SUBSET Bits]
       /\ \A c \in CIA : Sampled(c)' = IF c = "ciaa" THEN Sampled(c) \ {"TB"} ELSE Sampled(c)
  BY <1>3, <1>4, <1>5, SampleIs
<1>11. /\ \A t : Seen(t)' <=> Seen(t) /\ ~(Chip(t) = "ciaa" /\ Bit(t) = "TB")
       /\ OthersRest /\ started' = started => OthersRest'
  BY <1>3, <1>10, SeenIs
<1>12. ChipsOK'
  BY <1>4, <1>5, <1>10 DEF ChipsOK
<1>13. /\ ~Seen("CIAA_B")' /\ \A t \in {"CIAA_A", "CIAB_A"} : Seen(t)' <=> Seen(t)
  BY <1>11 DEF Chip, Bit
<1>14. \A t \in {"CIAA_A", "CIAB_A"} : (Busy(t)' <=> Busy(t)) /\ (Once(t)' <=> Once(t))
  BY <1>4, <1>13 DEF Busy, Once
<1>15. KeyboardWaits'
  <2>1. Once("CIAA_B")
    BY <1>5 DEF Inv2, KeyboardWaits
  <2>2. CASE Seen("CIAA_B")
    <3>1. "CIAA_B" \notin started /\ "CIAA_B" \in elapsed
      BY <2>1, <2>2 DEF Once
    <3>2. QED
      BY <1>4, <1>13, <3>1 DEF KeyboardWaits, Once, Busy
  <2>3. CASE ~Seen("CIAA_B")
    <3>1. where = "spin"
      BY <2>3 DEF where
    <3>2. KeyboardAt("spin")' /\ ~KeyboardAt("ack")'
      BY <1>8, <3>1
    <3>3. QED
      BY <1>4, <1>13, <2>1, <3>2 DEF KeyboardWaits, Once
  <2>4. QED
    BY <2>2, <2>3
<1>16. PlayerTicks'
  BY <1>4, <1>5, <1>9, <1>14 DEF Inv2, PlayerTicks, Stays
<1>17. FloppyWaits'
  BY <1>4, <1>5, <1>8, <1>9, <1>14 DEF Inv2, FloppyWaits, Stays, Sleeps
<1>18. OthersRest'
  BY <1>4, <1>5, <1>11 DEF Inv2
<1>19. QED
  BY <1>8, <1>9, <1>12, <1>15, <1>16, <1>17, <1>18 DEF IInv, Inv1, Inv2

(* It answers the keyboard and returns.                                     *)
LEMMA KeyboardAckStep ==
  ASSUME IInv, KeyboardAck
  PROVE  IInv'
<1>1. /\ Serving("keyboard", "ack") /\ ServerReturns
      /\ UNCHANGED <<chain, intena, intreq, cias, timeout, own, inUse, control>>
  BY DEF KeyboardAck, drivers
<1>2. ChipsOK /\ IntrOK /\ Chains /\ Nested /\ Inv2
  BY DEF IInv, Inv1
<1>3. /\ handlers # <<>> /\ handlers[1].at = "ack"
      /\ \A x : x # "call" => (KeyboardAt(x) <=> x = "ack")
  BY <1>1, KeyboardIs
<1>4. /\ IntrOK' /\ Nested' /\ \A q : Handles(q)' => Handles(q)
      /\ \A x : x # "call" => (KeyboardAt(x)' <=> KeyboardAt(x) /\ handlers[1].at # x)
  BY <1>1, <1>2, <1>3, Returned
<1>5. ~KeyboardAt("spin") /\ ~KeyboardAt("spin")' /\ ~KeyboardAt("ack")'
  BY <1>3, <1>4
<1>6. TasksOK' /\ Owners' /\ Chains' /\ Stays
  BY <1>1, TasksRest
<1>7. ChipsOK'
  BY <1>1, <1>2 DEF ChipsOK, cias
<1>8. Inv2'
  <2>1. /\ UNCHANGED <<mask, oneshot, started, elapsed, timeout>>
        /\ icr' = icr /\ pending' = pending /\ intreq' = intreq
    BY <1>1 DEF cias
  <2>2. (\A t \in TimerSet : Seen(t)' <=> Seen(t)) /\ OthersRest'
    BY <1>2, <2>1 DEF Seen, Sampled, Inv2, OthersRest
  <2>3. QED
    BY <1>2, <1>4, <1>5, <1>6, <2>1, <2>2, WaitsStay
<1>9. QED
  BY <1>4, <1>6, <1>7, <1>8 DEF IInv, Inv1

-----------------------------------------------------------------------------
(* The task that sleeps, or is woken, is the one that uses the floppy's     *)
(* timer.                                                                   *)
LEMMA SleeperIs ==
  ASSUME IInv, NEW task \in DOMAIN tasks, NEW where \in {"asleep", "woken"}, stage[task] = where
  PROVE  Works(task, "floppy", "sleep", where) /\ Own(task) = "CIAB_A"
<1> DEFINE who == Now(task).who
           call == Now(task).call
<1>1. TasksOK /\ Owners
  BY DEF IInv, Inv1
<1>2. where # "start"
  OBVIOUS
<1>3. at[task] \in DOMAIN tasks[task] /\ where \in Stages[call]
  BY <1>1, <1>2 DEF TasksOK
<1>4. Works(task, who, call, where)
  BY <1>3 DEF Works
<1>5. Own(task) = own[who]
  BY DEF Own
<1> HIDE DEF who, call
<1>6. /\ who \in Drivers /\ call \in CallsOf[who] \cup {"acquire", "release"}
      /\ Here(who, call, where)
  BY <1>1, <1>4, WorksHere
<1>7. call \in {"acquire", "release", "KeyboardInit", "KeyboardKill", "setup", "sleep"}
  BY <1>6 DEF Drivers, CallsOf
<1>8. call = "sleep"
  BY <1>3, <1>7 DEF Stages
<1>9. who = "floppy"
  BY <1>6, <1>8 DEF Drivers, CallsOf
<1>10. own["floppy"] = "CIAB_A"
  BY <1>1, <1>6, <1>8, <1>9 DEF Here, Owners, Drivers, TimerOf
<1>11. QED
  BY <1>4, <1>5, <1>8, <1>9, <1>10

(* The task that waits for the disk is woken, and nothing else changes.     *)
LEMMA NotifyMoves ==
  ASSUME IInv, NotifyTimeout("CIAB_A"), UNCHANGED <<tasks, at>>
  PROVE  /\ TasksOK' /\ SameAdded
         /\ \A w, c, x : x \notin {"asleep", "woken"} => (Does(w, c, x)' <=> Does(w, c, x))
         /\ ~Sleeps("asleep")'
         /\ Sleeps("woken")' <=> Sleeps("asleep") \/ Sleeps("woken")
<1>1. TasksOK
  BY DEF IInv, Inv1
<1>2. stage' = [task \in DOMAIN tasks |->
                  IF stage[task] = "asleep" /\ Own(task) = "CIAB_A" THEN "woken" ELSE stage[task]]
  BY DEF NotifyTimeout
<1>3. \A task \in DOMAIN tasks : stage[task] = "asleep" =>
        Works(task, "floppy", "sleep", "asleep") /\ Own(task) = "CIAB_A"
  BY SleeperIs
<1>4. \A task \in DOMAIN tasks :
        stage'[task] = IF stage[task] = "asleep" THEN "woken" ELSE stage[task]
  BY <1>2, <1>3
<1>5. tasks' = tasks /\ at' = at
  OBVIOUS
<1>6. TasksOK'
  <2>1. \A task \in DOMAIN tasks : stage[task] \in StageSet /\ stage'[task] \in StageSet
    BY <1>1, <1>4 DEF TasksOK, StageSet
  <2>2. stage' \in [DOMAIN tasks -> StageSet]
    BY <1>2, <2>1
  <2>3. "woken" \in Stages["sleep"]
    BY DEF Stages
  <2>4. \A task \in DOMAIN tasks : stage[task] = "asleep" =>
          at[task] \in DOMAIN tasks[task] /\ Now(task).call = "sleep"
    BY <1>3 DEF Works
  <2>5. \A task \in DOMAIN tasks : stage'[task] \in
          IF at[task] \in DOMAIN tasks[task] THEN Stages[Now(task).call] ELSE {"start"}
    BY <1>1, <1>4, <2>3, <2>4 DEF TasksOK
  <2>6. QED
    BY <1>1, <1>5, <2>2, <2>5 DEF TasksOK, Now
<1>7. SameAdded
  BY <1>5 DEF SameAdded, Added, KeyboardOn
<1>8. \A task \in DOMAIN tasks : \A w, c, x :
        x \notin {"asleep", "woken"} => (Works(task, w, c, x)' <=> Works(task, w, c, x))
  BY <1>4, <1>5 DEF Works, Now
<1>9. \A w, c, x : x \notin {"asleep", "woken"} => (Does(w, c, x)' <=> Does(w, c, x))
  BY <1>5, <1>8 DEF Does
<1>10. \A task \in DOMAIN tasks :
         /\ ~Works(task, "floppy", "sleep", "asleep")'
         /\ Works(task, "floppy", "sleep", "woken")' <=>
              \/ Works(task, "floppy", "sleep", "asleep")
              \/ Works(task, "floppy", "sleep", "woken")
  BY <1>4, <1>5 DEF Works, Now
<1>11. ~Sleeps("asleep")' /\ (Sleeps("woken")' <=> Sleeps("asleep") \/ Sleeps("woken"))
  BY <1>5, <1>10 DEF Sleeps, Does
<1>12. QED
  BY <1>6, <1>7, <1>9, <1>11

(* A server that is not the keyboard's returns.                             *)
LEMMA TimerServerReturns ==
  ASSUME IInv, NEW t \in TimerSet, Serving(t, "call"), ServerReturns,
         UNCHANGED <<chain, intena, intreq>>
  PROVE  /\ IntrOK' /\ Nested' /\ \A q : Handles(q)' => Handles(q)
         /\ KeyboardAt("spin")' <=> KeyboardAt("spin")
         /\ KeyboardAt("ack")' <=> KeyboardAt("ack")
<1>1. handlers # <<>> /\ handlers[1].at = "call"
  BY DEF Serving
<1>2. /\ IntrOK' /\ Nested' /\ \A q : Handles(q)' => Handles(q)
      /\ \A x : x # "call" => (KeyboardAt(x)' <=> KeyboardAt(x) /\ handlers[1].at # x)
  BY <1>1, Returned DEF IInv, Inv1
<1>3. QED
  BY <1>1, <1>2

(* The server of a timer finds its bit only if the timer is the player's or *)
(* the disk's, and then it has a routine.                                   *)
LEMMA TimeoutIs ==
  ASSUME IInv, NEW t \in TimerSet, Serving(t, "call"), Seen(t)
  PROVE  \/ t = "CIAA_A" /\ timeout[t] = "AhxPlayerTimeout"
         \/ /\ t = "CIAB_A" /\ timeout[t] = "NotifyTimeout"
            /\ Sleeps("asleep") \/ Sleeps("woken")
<1>1. t \in ServerSet /\ t # "keyboard"
  BY DEF ServerSet, TimerSet, TimerSeq
<1>2. /\ handlers # <<>> /\ handlers[1].is = t /\ handlers[1].at = "call"
      /\ 1 \in DOMAIN handlers /\ OnChain(handlers[1].irq, t)
  BY <1>1, ServerIs
<1>3. PICK who \in Drivers : t = TimerOf[who] /\ handlers[1].irq = Irq(Chip(t))
  BY <1>1, <1>2 DEF OnChain
<1>4. IntrOK /\ Chains /\ Nested /\ Inv2
  BY DEF IInv, Inv1
<1>5. CASE t = "CIAA_B"
  <2>1. KeyboardAt("spin")
    BY <1>4, <1>5 DEF Inv2, KeyboardWaits, Busy
  <2>2. PICK i \in DOMAIN handlers : handlers[i].at = "spin"
    BY <2>1 DEF KeyboardAt
  <2>3. handlers[i].irq = "PORTS"
    BY <1>4, <2>2, Alone
  <2>4. handlers[1].irq = "PORTS"
    BY <1>3, <1>5 DEF Irq, Chip
  <2>5. i = 1
    BY <1>2, <1>4, <2>3, <2>4, Alone
  <2>6. QED
    BY <1>2, <2>2, <2>5
<1>6. CASE t = "CIAA_A"
  BY <1>4, <1>6 DEF Inv2, PlayerTicks, Busy
<1>7. CASE t = "CIAB_A"
  <2>1. Handles("EXTER")
    BY <1>2, <1>3, <1>7 DEF Handles, Irq, Chip
  <2>2. QED
    BY <1>4, <1>7, <2>1 DEF Inv2, FloppyWaits
<1>8. QED
  BY <1>3, <1>5, <1>6, <1>7 DEF Drivers, TimerOf

LEMMA CIATimerHandlerStep ==
  ASSUME IInv, NEW t \in TimerSet, CIATimerHandler(t)
  PROVE  IInv'
<1>1. /\ Serving(t, "call") /\ SampleICR(Chip(t), Bit(t))
      /\ UNCHANGED <<chain, intena, intreq, timeout, own, inUse, kbd, tasks, at>>
  BY DEF CIATimerHandler, drivers
<1>2. ChipsOK /\ IntrOK /\ Owners /\ Chains /\ Nested /\ Inv2
  BY DEF IInv, Inv1
<1>3. Chip(t) \in CIA
  BY DEF Chip, CIA
<1>4. /\ icr' \in [CIA -> SUBSET Bits] /\ pending' \in [CIA -> SUBSET Bits]
      /\ \A c \in CIA : Sampled(c)' = IF c = Chip(t) THEN Sampled(c) \ {Bit(t)} ELSE Sampled(c)
  BY <1>1, <1>2, <1>3, SampleIs
<1>5. /\ \A u : Seen(u)' <=> Seen(u) /\ ~(Chip(u) = Chip(t) /\ Bit(u) = Bit(t))
      /\ OthersRest /\ started' = started => OthersRest'
  BY <1>3, <1>4, SeenIs
<1>6. \A u \in TimerSet : Chip(u) = Chip(t) /\ Bit(u) = Bit(t) => u = t
  BY DEF TimerSet, TimerSeq, Chip, Bit
<1>7. \A u \in TimerSet : Seen(u)' <=> Seen(u) /\ u # t
  BY <1>5, <1>6
<1>8. CASE ~Seen(t)
  <2>1. ServerReturns /\ UNCHANGED <<mask, oneshot, started, elapsed, stage>>
    BY <1>8 DEF CIATimerHandler, Seen
  <2>2. /\ IntrOK' /\ Nested' /\ \A q : Handles(q)' => Handles(q)
        /\ KeyboardAt("spin")' <=> KeyboardAt("spin")
        /\ KeyboardAt("ack")' <=> KeyboardAt("ack")
    BY <1>1, <2>1, TimerServerReturns
  <2>3. TasksOK' /\ Owners' /\ Chains' /\ Stays
    BY <1>1, <2>1, TasksRest DEF control
  <2>4. ChipsOK'
    BY <1>1, <1>2, <1>4, <2>1 DEF ChipsOK
  <2>5. (\A u \in TimerSet : Seen(u)' <=> Seen(u)) /\ OthersRest'
    BY <1>2, <1>5, <1>7, <1>8, <2>1 DEF Inv2
  <2>6. Inv2'
    BY <1>1, <1>2, <2>1, <2>2, <2>3, <2>5, WaitsStay
  <2>7. QED
    BY <2>2, <2>3, <2>4, <2>6 DEF IInv, Inv1
<1>9. CASE Seen(t) /\ t = "CIAA_A"
  <2>1. timeout[t] = "AhxPlayerTimeout"
    BY <1>1, <1>9, TimeoutIs
  <2>2. AhxPlayerTimeout(t) /\ ServerReturns
    BY <1>9, <2>1 DEF CIATimerHandler, Seen
  <2>3. /\ IntrOK' /\ Nested' /\ \A q : Handles(q)' => Handles(q)
        /\ KeyboardAt("spin")' <=> KeyboardAt("spin")
        /\ KeyboardAt("ack")' <=> KeyboardAt("ack")
    BY <1>1, <2>2, TimerServerReturns
  <2>4. /\ elapsed' = elapsed \ {t} /\ oneshot' = oneshot
        /\ stage' = stage /\ (started' = started \/ started' = started \cup {t})
    BY <2>2 DEF AhxPlayerTimeout, LoadTimer
  <2>5. mask' = [mask EXCEPT !["ciaa"] = @ \cup {"TA"}] \/ mask' = mask
    BY <1>9, <2>2 DEF AhxPlayerTimeout, UnmaskICR, Chip, Bit
  <2>6. mask' \in [CIA -> SUBSET Bits] /\ mask'["ciab"] = mask["ciab"]
    BY <1>2, <2>5 DEF ChipsOK, CIA, Bits
  <2>7. TasksOK' /\ Owners' /\ Chains' /\ Stays
    BY <1>1, <2>4, TasksRest DEF control
  <2>8. ChipsOK'
    BY <1>1, <1>2, <1>4, <2>4, <2>6 DEF ChipsOK
  <2>9. \A u \in {"CIAA_B", "CIAB_A"} : u \in TimerSet /\ u # t
    BY <1>9 DEF TimerSet, TimerSeq
  <2>10. \A u \in {"CIAA_B", "CIAB_A"} : (Busy(u)' <=> Busy(u)) /\ (Once(u)' <=> Once(u))
    BY <1>7, <2>4, <2>9 DEF Busy, Once
  <2>11. KeyboardWaits'
    BY <1>2, <2>3, <2>4, <2>9, <2>10 DEF Inv2, KeyboardWaits
  <2>12. PlayerTicks'
    BY <1>1, <1>9, <2>1 DEF PlayerTicks
  <2>13. FloppyWaits'
    BY <1>1, <1>2, <2>3, <2>4, <2>6, <2>7, <2>9, <2>10 DEF Inv2, FloppyWaits, Stays, Sleeps
  <2>14. OthersRest'
    <3>1. OthersRest /\ "CIAB_B" # t
      BY <1>2, <1>9 DEF Inv2
    <3>2. "ciab" \in CIA
      BY DEF CIA
    <3>3. QED
      BY <1>4, <2>4, <3>1, <3>2 DEF OthersRest
  <2>15. QED
    BY <2>3, <2>7, <2>8, <2>11, <2>12, <2>13, <2>14 DEF IInv, Inv1, Inv2
<1>10. CASE Seen(t) /\ t = "CIAB_A"
  <2>1. timeout[t] = "NotifyTimeout" /\ (Sleeps("asleep") \/ Sleeps("woken"))
    BY <1>1, <1>10, TimeoutIs
  <2>2. NotifyTimeout("CIAB_A") /\ ServerReturns
    BY <1>10, <2>1 DEF CIATimerHandler, Seen
  <2>3. /\ IntrOK' /\ Nested' /\ \A q : Handles(q)' => Handles(q)
        /\ KeyboardAt("spin")' <=> KeyboardAt("spin")
        /\ KeyboardAt("ack")' <=> KeyboardAt("ack")
    BY <1>1, <2>2, TimerServerReturns
  <2>4. mask' = mask /\ oneshot' = oneshot /\ started' = started /\ elapsed' = elapsed
    BY <2>2 DEF NotifyTimeout
  <2>5. /\ TasksOK' /\ SameAdded
        /\ \A w, c, x : x \notin {"asleep", "woken"} => (Does(w, c, x)' <=> Does(w, c, x))
        /\ ~Sleeps("asleep")'
        /\ Sleeps("woken")' <=> Sleeps("asleep") \/ Sleeps("woken")
    BY <1>1, <2>2, NotifyMoves
  <2>6. \A w : Adding(w)' <=> Adding(w)
    BY <2>5 DEF Adding
  <2>7. Owners' /\ Chains'
    BY <1>1, <1>2, <2>5, <2>6, OwnersStay, ChainsStay
  <2>8. ChipsOK'
    BY <1>1, <1>2, <1>4, <2>4 DEF ChipsOK
  <2>9. \A u \in {"CIAA_A", "CIAA_B"} : u \in TimerSet /\ u # t
    BY <1>10 DEF TimerSet, TimerSeq
  <2>10. \A u \in {"CIAA_A", "CIAA_B"} : (Busy(u)' <=> Busy(u)) /\ (Once(u)' <=> Once(u))
    BY <1>7, <2>4, <2>9 DEF Busy, Once
  <2>11. "CIAB_A" \notin started /\ "CIAB_A" \in elapsed /\ ~Seen("CIAB_A")'
    BY <1>2, <1>7, <1>10 DEF Inv2, FloppyWaits, Once
  <2>12. KeyboardWaits'
    BY <1>2, <2>3, <2>4, <2>10 DEF Inv2, KeyboardWaits
  <2>13. PlayerTicks'
    BY <1>1, <1>2, <2>5, <2>10 DEF Inv2, PlayerTicks
  <2>14. FloppyWaits'
    <3>1. Once("CIAB_A")' /\ ~Busy("CIAB_A")'
      BY <2>4, <2>11 DEF Once, Busy
    <3>2. timeout'["CIAB_A"] = "NotifyTimeout" /\ Sleeps("woken")' /\ "CIAB_A" \in elapsed'
      BY <1>1, <1>10, <2>1, <2>4, <2>5, <2>11
    <3>3. Sleeps("load")' \/ Sleeps("wait")' => "TA" \notin mask'["ciab"]
      <4>1. (Sleeps("load")' <=> Sleeps("load")) /\ (Sleeps("wait")' <=> Sleeps("wait"))
        BY <2>5 DEF Sleeps
      <4>2. QED
        BY <1>2, <2>4, <4>1 DEF Inv2, FloppyWaits
    <3>4. QED
      BY <3>1, <3>2, <3>3 DEF FloppyWaits
  <2>15. OthersRest'
    BY <1>2, <1>5, <2>4 DEF Inv2
  <2>16. QED
    BY <2>3, <2>5, <2>7, <2>8, <2>12, <2>13, <2>14, <2>15 DEF IInv, Inv1, Inv2
<1>11. QED
  BY <1>1, <1>8, <1>9, <1>10, TimeoutIs

-----------------------------------------------------------------------------
(* The machine takes an interrupt: that of the disk had been asked for.     *)
LEMMA InterruptStep ==
  ASSUME IInv, NEW irq \in Irqs, Interrupt(irq)
  PROVE  IInv'
<1>1. EnterIntr(irq) /\ UNCHANGED <<cias, timeout, own, inUse, kbd, control>>
  BY DEF Interrupt, drivers
<1>2. ChipsOK /\ IntrOK /\ Chains /\ Nested /\ Inv2
  BY DEF IInv, Inv1
<1>3. /\ IntrOK' /\ Nested' /\ UNCHANGED <<chain, intena>>
      /\ irq \in intreq /\ \A q : q \in intreq' => q \in intreq
      /\ \A q : Handles(q)' <=> Handles(q) \/ q = irq
      /\ \A x : x # "call" => (KeyboardAt(x)' <=> KeyboardAt(x))
  BY <1>1, <1>2, Entered
<1>4. TasksOK' /\ Owners' /\ Chains' /\ Stays
  BY <1>1, <1>3, TasksRest
<1>5. ChipsOK'
  BY <1>1, <1>2 DEF ChipsOK, cias
<1>6. Inv2'
  <2>1. /\ UNCHANGED <<mask, oneshot, started, elapsed, timeout>>
        /\ icr' = icr /\ pending' = pending
    BY <1>1 DEF cias
  <2>2. (\A t \in TimerSet : Seen(t)' <=> Seen(t)) /\ OthersRest'
    BY <1>2, <2>1 DEF Seen, Sampled, Inv2, OthersRest
  <2>3. /\ KeyboardAt("spin")' <=> KeyboardAt("spin")
        /\ KeyboardAt("ack")' => KeyboardAt("ack")
    BY <1>3
  <2>4. "EXTER" \in intreq' \/ Handles("EXTER")' => "EXTER" \in intreq \/ Handles("EXTER")
    BY <1>3
  <2>5. QED
    BY <1>2, <1>4, <2>1, <2>2, <2>3, <2>4, WaitsStay
<1>7. QED
  BY <1>3, <1>4, <1>5, <1>6 DEF IInv, Inv1

(* Nothing changes in the stack of handlers.                                *)
LEMMA HandlersStay ==
  ASSUME Nested, UNCHANGED <<chain, handlers>>
  PROVE  /\ Nested' /\ \A q : Handles(q)' <=> Handles(q)
         /\ \A x : KeyboardAt(x)' <=> KeyboardAt(x)
BY DEF Nested, Handles, KeyboardAt, Servers

(* A CIA asks for its interrupt: that of the floppy's is asked for only     *)
(* while its task sleeps, as the bit is masked before.                      *)
LEMMA RequestStep ==
  ASSUME IInv, NEW cia \in CIA, Request(cia)
  PROVE  IInv'
<1>1. /\ icr[cia] \intersect mask[cia] # {} /\ intreq' = intreq \cup {Irq(cia)}
      /\ UNCHANGED <<chain, intena, handlers, cias, timeout, own, inUse, kbd, control>>
  BY DEF Request, drivers
<1>2. ChipsOK /\ IntrOK /\ Chains /\ Nested /\ Inv2
  BY DEF IInv, Inv1
<1>3. Irq(cia) \in Irqs
  BY ChainsAssumption DEF Irq
<1>4. IntrOK'
  BY <1>1, <1>2, <1>3 DEF IntrOK
<1>5. /\ Nested' /\ \A q : Handles(q)' <=> Handles(q)
      /\ \A x : KeyboardAt(x)' <=> KeyboardAt(x)
  BY <1>1, <1>2, HandlersStay
<1>6. TasksOK' /\ Owners' /\ Chains' /\ Stays
  BY <1>1, TasksRest
<1>7. ChipsOK'
  BY <1>1, <1>2 DEF ChipsOK, cias
<1>8. /\ mask' = mask /\ started' = started /\ oneshot' = oneshot /\ elapsed' = elapsed
      /\ timeout' = timeout /\ icr' = icr /\ pending' = pending
  BY <1>1 DEF cias
<1>9. \A t : (Seen(t)' <=> Seen(t)) /\ (Busy(t)' <=> Busy(t)) /\ (Once(t)' <=> Once(t))
  BY <1>8 DEF Seen, Busy, Once, Sampled
<1>10. cia = "ciab" => Sleeps("asleep")
  <2>1. SUFFICES ASSUME cia = "ciab" PROVE Sleeps("asleep")
    OBVIOUS
  <2>2. PICK bit : bit \in icr["ciab"] /\ bit \in mask["ciab"]
    BY <1>1, <2>1
  <2>3. bit \in Bits /\ bit \in Sampled("ciab")
    BY <1>2, <2>1, <2>2 DEF ChipsOK, Sampled
  <2>4. bit = "TA"
    BY <1>2, <2>3 DEF Inv2, OthersRest, Bits
  <2>5. Busy("CIAB_A")
    BY <2>3, <2>4 DEF Busy, Seen, Chip, Bit
  <2>6. (Sleeps("wait") \/ Sleeps("asleep")) /\ ~Sleeps("wait")
    BY <1>2, <2>2, <2>4, <2>5 DEF Inv2, FloppyWaits
  <2>7. QED
    BY <2>6
<1>11. "EXTER" \in intreq' => "EXTER" \in intreq \/ Sleeps("asleep")
  BY <1>1, <1>10 DEF Irq, CIA
<1>12. KeyboardWaits'
  BY <1>2, <1>5, <1>8, <1>9 DEF Inv2, KeyboardWaits
<1>13. PlayerTicks'
  BY <1>2, <1>6, <1>8, <1>9 DEF Inv2, PlayerTicks, Stays
<1>14. FloppyWaits'
  BY <1>2, <1>5, <1>6, <1>8, <1>9, <1>11 DEF Inv2, FloppyWaits, Stays, Sleeps
<1>15. OthersRest'
  BY <1>2, <1>8 DEF Inv2, OthersRest, Sampled
<1>16. QED
  BY <1>4, <1>5, <1>6, <1>7, <1>12, <1>13, <1>14, <1>15 DEF IInv, Inv1, Inv2

(* A timer underflows: one that a driver waits for does so once.            *)
LEMMA UnderflowStep ==
  ASSUME IInv, NEW t \in TimerSet, Underflow(t)
  PROVE  IInv'
<1>1. /\ t \in started /\ icr' = [icr EXCEPT ![Chip(t)] = @ \cup {Bit(t)}]
      /\ elapsed' = elapsed \cup {t} /\ started' = started \ (oneshot \intersect {t})
      /\ UNCHANGED <<interrupts, mask, pending, oneshot, timeout, own, inUse, kbd, control>>
  BY DEF Underflow, drivers
<1>2. ChipsOK /\ IntrOK /\ Chains /\ Nested /\ Inv2
  BY DEF IInv, Inv1
<1>3. chain' = chain /\ intena' = intena /\ intreq' = intreq /\ handlers' = handlers
  BY <1>1 DEF interrupts
<1>4. IntrOK'
  BY <1>2, <1>3 DEF IntrOK
<1>5. /\ Nested' /\ \A q : Handles(q)' <=> Handles(q)
      /\ \A x : KeyboardAt(x)' <=> KeyboardAt(x)
  BY <1>2, <1>3, HandlersStay
<1>6. TasksOK' /\ Owners' /\ Chains' /\ Stays
  BY <1>1, <1>3, TasksRest
<1>7. Chip(t) \in CIA /\ Bit(t) \in Bits
  BY DEF Chip, CIA, Bit, Bits
<1>8. icr' \in [CIA -> SUBSET Bits]
      /\ \A c \in CIA : icr'[c] = IF c = Chip(t) THEN icr[c] \cup {Bit(t)} ELSE icr[c]
  BY <1>1, <1>2, <1>7 DEF ChipsOK
<1>9. ChipsOK'
  BY <1>1, <1>2, <1>8 DEF ChipsOK
<1>10. \A c \in CIA : Sampled(c)' = IF c = Chip(t) THEN Sampled(c) \cup {Bit(t)} ELSE Sampled(c)
  <2>1. \A c \in CIA : Sampled(c)' = icr'[c] \cup pending[c]
    BY <1>1 DEF Sampled
  <2>2. QED
    BY <1>8, <2>1 DEF Sampled
<1>11. \A u \in TimerSet : Seen(u)' <=> Seen(u) \/ u = t
  <2>1. \A u \in TimerSet : Chip(u) \in CIA /\ (Chip(u) = Chip(t) /\ Bit(u) = Bit(t) <=> u = t)
    BY DEF TimerSet, TimerSeq, Chip, Bit, CIA
  <2>2. \A u \in TimerSet : Seen(u)' <=> Bit(u) \in Sampled(Chip(u))'
    BY DEF Seen
  <2>3. QED
    BY <1>10, <2>1, <2>2 DEF Seen
<1>12. \A u \in TimerSet : u # t => (Busy(u)' <=> Busy(u)) /\ (Once(u)' <=> Once(u))
  BY <1>1, <1>11 DEF Busy, Once
<1>13. Busy(t) /\ (Once(t) => Once(t)')
  <2>1. Busy(t)
    BY <1>1 DEF Busy
  <2>2. Once(t) => t \notin started' /\ t \in elapsed'
    BY <1>1 DEF Once
  <2>3. QED
    BY <2>1, <2>2 DEF Once
<1>14. \A u \in TimerSet : (Busy(u)' => Busy(u)) /\ (Once(u) => Once(u)')
  BY <1>12, <1>13
<1>15. {"CIAA_A", "CIAA_B", "CIAB_A"} \subseteq TimerSet
  BY DEF TimerSet, TimerSeq
<1>16. KeyboardWaits'
  BY <1>1, <1>2, <1>5, <1>14, <1>15 DEF Inv2, KeyboardWaits
<1>17. PlayerTicks'
  BY <1>1, <1>2, <1>6, <1>14, <1>15 DEF Inv2, PlayerTicks, Stays
<1>18. FloppyWaits'
  BY <1>1, <1>2, <1>3, <1>5, <1>6, <1>14, <1>15 DEF Inv2, FloppyWaits, Stays, Sleeps
<1>19. OthersRest'
  <2>1. t # "CIAB_B" /\ OthersRest
    BY <1>1, <1>2 DEF Inv2, OthersRest
  <2>2. Chip(t) = "ciab" => Bit(t) = "TA"
    BY <2>1 DEF TimerSet, TimerSeq, Chip, Bit
  <2>3. "ciab" \in CIA
    BY DEF CIA
  <2>4. QED
    BY <1>1, <1>10, <2>1, <2>2, <2>3 DEF OthersRest
<1>20. QED
  BY <1>4, <1>5, <1>6, <1>9, <1>16, <1>17, <1>18, <1>19 DEF IInv, Inv1, Inv2

LEMMA SendKeyStep ==
  ASSUME IInv, SendKey
  PROVE  IInv'
<1>1. /\ icr' = [icr EXCEPT !["ciaa"] = @ \cup {"SP"}]
      /\ UNCHANGED <<interrupts, mask, pending, oneshot, started, elapsed, timeout, own, inUse,
                     control>>
  BY DEF SendKey, drivers
<1>2. ChipsOK /\ IntrOK /\ Chains /\ Nested /\ Inv2
  BY DEF IInv, Inv1
<1>3. chain' = chain /\ intena' = intena /\ intreq' = intreq /\ handlers' = handlers
  BY <1>1 DEF interrupts
<1>4. IntrOK'
  BY <1>2, <1>3 DEF IntrOK
<1>5. /\ Nested' /\ \A q : Handles(q)' <=> Handles(q)
      /\ \A x : KeyboardAt(x)' <=> KeyboardAt(x)
  BY <1>2, <1>3, HandlersStay
<1>6. TasksOK' /\ Owners' /\ Chains' /\ Stays
  BY <1>1, <1>3, TasksRest
<1>7. icr' \in [CIA -> SUBSET Bits]
      /\ \A c \in CIA : icr'[c] = IF c = "ciaa" THEN icr[c] \cup {"SP"} ELSE icr[c]
  BY <1>1, <1>2 DEF ChipsOK, CIA, Bits
<1>8. ChipsOK'
  BY <1>1, <1>2, <1>7 DEF ChipsOK
<1>9. \A t : Bit(t) # "SP" /\ Chip(t) \in CIA
  BY DEF Bit, Chip, CIA
<1>10. \A t \in TimerSet : Seen(t)' <=> Seen(t)
  <2>1. \A t \in TimerSet : Seen(t)' <=> Bit(t) \in icr'[Chip(t)] \cup pending[Chip(t)]
    BY <1>1 DEF Seen, Sampled
  <2>2. QED
    BY <1>7, <1>9, <2>1 DEF Seen, Sampled
<1>11. OthersRest'
  <2>1. icr'["ciab"] = icr["ciab"]
    BY <1>7 DEF CIA
  <2>2. QED
    BY <1>1, <1>2, <2>1 DEF Inv2, OthersRest, Sampled
<1>12. Inv2'
  BY <1>1, <1>2, <1>3, <1>5, <1>6, <1>10, <1>11, WaitsStay
<1>13. QED
  BY <1>4, <1>5, <1>6, <1>8, <1>12 DEF IInv, Inv1

-----------------------------------------------------------------------------
LEMMA InitIInv == Init => IInv
<1> SUFFICES ASSUME Init PROVE IInv
  OBVIOUS
<1>1. /\ chain = [irq \in Irqs |-> <<>>] /\ intena = {} /\ intreq = {} /\ handlers = <<>>
      /\ icr = [cia \in CIA |-> {}] /\ mask = icr /\ pending = icr
      /\ oneshot = {} /\ started = {} /\ elapsed = {}
      /\ timeout = [t \in TimerSet |-> "NULL"] /\ inUse = {}
      /\ own = [who \in Drivers |-> "none"] /\ tasks \in Programs
      /\ at = [task \in DOMAIN tasks |-> 1] /\ stage = [task \in DOMAIN tasks |-> "start"]
  BY DEF Init, InterruptsInit
<1>2. DriverRules(tasks)
  BY <1>1, ProgramsAssumption
<1>3. \A task \in DOMAIN tasks :
        /\ tasks[task] \in Seq([call : STRING, who : Drivers, num : STRING])
        /\ \A i \in DOMAIN tasks[task] :
             tasks[task][i].call \in CallsOf[tasks[task][i].who] \cup {"acquire", "release"}
  BY <1>2 DEF DriverRules
<1>4. TasksOK
  <2>1. ASSUME NEW task \in DOMAIN tasks
        PROVE  /\ at[task] \in 1..(Len(tasks[task]) + 1)
               /\ stage[task] \in IF at[task] \in DOMAIN tasks[task]
                                  THEN Stages[Now(task).call] ELSE {"start"}
    <3>1. at[task] = 1 /\ stage[task] = "start"
      BY <1>1
    <3>2. Len(tasks[task]) \in Nat
      BY <1>3
    <3>3. ASSUME at[task] \in DOMAIN tasks[task] PROVE "start" \in Stages[Now(task).call]
      <4> DEFINE c == Now(task)
      <4>1. c.who \in Drivers
        <5> DEFINE Call == [call : STRING, who : Drivers, num : STRING]
                   calls == tasks[task]
        <5>1. calls \in Seq(Call)
          BY <1>3
        <5> HIDE DEF Call
        <5>2. calls[at[task]] \in Call
          BY <3>3, <5>1
        <5>3. QED
          BY <5>2 DEF Call, Now
      <4>2. c.call \in CallsOf[c.who] \cup {"acquire", "release"}
        BY <1>3, <3>3 DEF Now
      <4> HIDE DEF c
      <4>3. c.call \in {"acquire", "release", "KeyboardInit", "KeyboardKill", "setup", "sleep"}
        BY <4>1, <4>2 DEF Drivers, CallsOf
      <4>4. QED
        BY <4>3 DEF Stages, c
    <3>4. QED
      BY <3>1, <3>2, <3>3
  <2>2. at \in [DOMAIN tasks -> Nat] /\ stage \in [DOMAIN tasks -> StageSet]
    BY <1>1 DEF StageSet
  <2>3. QED
    BY <1>1, <2>1, <2>2 DEF TasksOK
<1>5. /\ \A w, c, x : x # "start" => ~Does(w, c, x)
      /\ \A w : ~Added(w)
      /\ ~KeyboardOn
  BY <1>1 DEF Does, Works, Added, KeyboardOn, HasTimer, IsOn, Between
<1>6. ChipsOK /\ IntrOK
  BY <1>1 DEF ChipsOK, IntrOK, Bits
<1>7. Owners
  BY <1>1, <1>5 DEF Owners, Adding
<1>8. Chains
  <2>1. \A irq \in Irqs : chain[irq] = <<>> /\ DOMAIN chain[irq] = {} /\ irq \notin intena
    BY <1>1
  <2>2. ChainsOK
    BY <2>1 DEF ChainsOK, Ordered
  <2>3. \A irq \in Irqs : \A s : s \notin Servers(irq)
    BY <2>1 DEF Servers
  <2>4. \A irq, s : ~OnChain(irq, s)
    BY <1>5 DEF OnChain
  <2>5. QED
    BY <2>2, <2>3, <2>4 DEF Chains
<1>9. Nested /\ (\A q : ~Handles(q)) /\ (\A x : ~KeyboardAt(x))
  BY <1>1 DEF Nested, Handles, KeyboardAt
<1>10. \A c \in CIA : Sampled(c) = {} /\ mask[c] = {}
  BY <1>1 DEF Sampled
<1>11. \A t : ~Seen(t) /\ ~Busy(t)
  BY <1>1, <1>10 DEF Seen, Busy, Chip, CIA
<1>12. Inv2
  <2>1. \A x : x # "start" => ~Sleeps(x)
    BY <1>5 DEF Sleeps
  <2>2. KeyboardWaits
    BY <1>1, <1>9, <1>11 DEF KeyboardWaits, Once
  <2>3. PlayerTicks
    <3>1. timeout["CIAA_A"] = "NULL"
      BY <1>1 DEF TimerSet, TimerSeq
    <3>2. QED
      BY <1>5, <1>11, <3>1 DEF PlayerTicks
  <2>4. FloppyWaits
    BY <1>1, <1>9, <1>11, <2>1 DEF FloppyWaits, Once
  <2>5. OthersRest
    BY <1>1, <1>10 DEF OthersRest, CIA
  <2>6. QED
    BY <2>2, <2>3, <2>4, <2>5 DEF Inv2
<1>13. QED
  BY <1>4, <1>6, <1>7, <1>8, <1>9, <1>12 DEF IInv, Inv1

LEMMA UnchangedStep ==
  ASSUME IInv, UNCHANGED vars
  PROVE  IInv'
<1>1. UNCHANGED <<interrupts, cias, drivers, kbd, control>>
  BY DEF vars
<1>2. ChipsOK /\ IntrOK /\ Chains /\ Nested /\ Inv2
  BY DEF IInv, Inv1
<1>3. chain' = chain /\ intena' = intena /\ intreq' = intreq /\ handlers' = handlers
  BY <1>1 DEF interrupts
<1>4. /\ mask' = mask /\ started' = started /\ oneshot' = oneshot /\ elapsed' = elapsed
      /\ icr' = icr /\ pending' = pending /\ timeout' = timeout /\ own' = own /\ inUse' = inUse
  BY <1>1 DEF cias, drivers
<1>5. IntrOK' /\ ChipsOK'
  BY <1>2, <1>3, <1>4 DEF IntrOK, ChipsOK
<1>6. /\ Nested' /\ \A q : Handles(q)' <=> Handles(q)
      /\ \A x : KeyboardAt(x)' <=> KeyboardAt(x)
  BY <1>2, <1>3, HandlersStay
<1>7. TasksOK' /\ Owners' /\ Chains' /\ Stays
  BY <1>1, <1>3, <1>4, TasksRest
<1>8. (\A t \in TimerSet : Seen(t)' <=> Seen(t)) /\ OthersRest'
  BY <1>2, <1>4 DEF Seen, Sampled, Inv2, OthersRest
<1>9. Inv2'
  BY <1>2, <1>3, <1>4, <1>6, <1>7, <1>8, WaitsStay
<1>10. QED
  BY <1>5, <1>6, <1>7, <1>9 DEF IInv, Inv1

LEMMA NextIInv == IInv /\ [Next]_vars => IInv'
<1> SUFFICES ASSUME IInv, [Next]_vars PROVE IInv'
  OBVIOUS
<1>1. CASE UNCHANGED vars
  BY <1>1, UnchangedStep
<1>2. ASSUME NEW task \in DOMAIN tasks, Task(task) PROVE IInv'
  BY <1>2, AcquireTimerStep, AcquireTimerAddStep, ReleaseTimerStep, SetupTimerStep,
     SetupTimerLoadStep, SetupTimerOnStep, WaitTimerSleepStep, WaitTimerSleepLoadStep,
     WaitTimerSleepWaitStep, WaitTimerSleepReturnsStep, KeyboardInitICRStep,
     KeyboardInitAddStep, KeyboardKillStep DEF Task
<1>3. ASSUME Server PROVE IInv'
  BY <1>3, CIATimerHandlerStep, KeyboardIntHandlerStep, WaitTimerSpinStep,
     WaitTimerSpinSampleStep, KeyboardAckStep DEF Server
<1>4. QED
  BY <1>1, <1>2, <1>3, InterruptStep, RequestStep, UnderflowStep, SendKeyStep DEF Next

LEMMA Invariant == Spec => []IInv
BY InitIInv, NextIInv, PTL DEF Spec

-----------------------------------------------------------------------------
(* interrupt.c: an interrupt is enabled exactly when its chain has servers, *)
(* these are in the order of priorities, each once, and a server that runs  *)
(* is never taken from its chain: a task that removes one runs only when no *)
(* interrupt is handled.                                                    *)
THEOREM SpecChainsServed == Spec => []ChainsServed
<1>1. IInv => ChainsServed
  <2>1. SUFFICES ASSUME IInv PROVE ChainsServed
    OBVIOUS
  <2>2. ChainsOK /\ Nested
    BY <2>1 DEF IInv, Inv1, Chains
  <2>3. QED
    BY <2>2 DEF ChainsServed, ChainsOK, Ordered, Nested
<1>2. QED
  BY <1>1, Invariant, PTL

(* cia-timer.c: CIATimerHandler calls no routine that was never set.  The   *)
(* keyboard's timer, which has none, fires only while the keyboard's server *)
(* waits for it, so when the timer's own, on the same chain, does not run.  *)
THEOREM SpecNoNullTimeout == Spec => []NoNullTimeout
<1>1. IInv => NoNullTimeout
  <2>1. SUFFICES ASSUME IInv, NEW i \in DOMAIN handlers PROVE handlers[i].at # "lost"
    BY DEF NoNullTimeout
  <2>2. handlers[i] \in Activation
    BY <2>1 DEF IInv, Inv1, IntrOK
  <2>3. QED
    BY <2>2 DEF Activation
<1>2. QED
  BY <1>1, Invariant, PTL

(* cia-timer.c: WaitTimerSleep returns only after its timer has underflowed *)
(* since it was loaded, and so does WaitTimerSpin: no bit that is left from *)
(* an earlier underflow, in the ICR or among the pending ones, ends a wait. *)
THEOREM SpecWaitsDelay == Spec => []WaitsDelay
<1>1. IInv => WaitsDelay
  <2>1. SUFFICES ASSUME IInv PROVE WaitsDelay
    OBVIOUS
  <2>2. ASSUME NEW task \in DOMAIN tasks, stage[task] = "woken"
        PROVE  Own(task) \in elapsed
    <3>1. Works(task, "floppy", "sleep", "woken") /\ Own(task) = "CIAB_A"
      BY <2>1, <2>2, SleeperIs
    <3>2. Sleeps("woken")
      BY <3>1 DEF Sleeps, Does
    <3>3. QED
      BY <2>1, <3>1, <3>2 DEF IInv, Inv2, FloppyWaits
  <2>3. ASSUME NEW i \in DOMAIN handlers, handlers[i].at = "ack"
        PROVE  own["keyboard"] \in elapsed
    <3>1. KeyboardAt("ack")
      BY <2>3 DEF KeyboardAt
    <3>2. "CIAA_B" \in elapsed
      BY <2>1, <3>1 DEF IInv, Inv2, KeyboardWaits
    <3>3. own["keyboard"] = "CIAA_B"
      BY <2>1, <2>3, KeyboardOwns
    <3>4. QED
      BY <3>2, <3>3
  <2>4. QED
    BY <2>2, <2>3 DEF WaitsDelay
<1>2. QED
  BY <1>1, Invariant, PTL
=============================================================================
