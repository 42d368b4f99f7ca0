----------------------------- MODULE EffectLife -----------------------------
(***************************************************************************)
(* The life of effects: system/effect.c with the two programs that call    *)
(* it.  effects/main.c takes one effect through load, init, run, kill and  *)
(* unload; intro/main.c loads all of its effects, then runs one after the  *)
(* other along a track, and unloads them all.                              *)
(*                                                                         *)
(* An effect is a record of the scripts of its functions.  Render has a    *)
(* set of them, one for each path through it, and so has the handler of    *)
(* the vertical blank: which one a frame takes depends on data left out.   *)
(***************************************************************************)
EXTENDS CustomChips

CONSTANTS
  Effects,    \* the record of each effect
  Programs,   \* of each program the steps, and whether it always calls the
              \* VBlank handler of its effect
  MaxFrames   \* bound for each effect: frames rendered between Init and Kill

VARIABLES
  program,    \* the program at work
  at,         \* the step it is at
  loaded,     \* effects whose pointer Load is marked DONE
  inited,     \* effects whose pointer Init is marked DONE
  frames      \* frames rendered since the last Init

vars == <<chips, code, program, at, loaded, inited, frames>>

-----------------------------------------------------------------------------
Steps == Programs[program].steps
Now == IF at = 0 THEN 1 ELSE at
effect == Effects[Steps[Now].effect]
Doing(what) == Steps[Now].do = what
Ended == at = Len(Steps) /\ ~Busy

(* The function at work has returned, and the program goes on: with the    *)
(* script of another effect, or of another function of this one.           *)
Call(script) == ~Busy /\ todo' = script /\ UNCHANGED <<isr, program>>
Begins(what) == at < Len(Steps) /\ Steps[at + 1].do = what /\ at' = at + 1
Begun == Steps[at + 1].effect

EffectLoad ==
  /\ Begins("load")
  /\ Call(IF Begun \in loaded THEN <<>> ELSE Effects[Begun].load)
  /\ unit' = Effects[Begun].unit
  /\ loaded' = loaded \union {Begun}
  /\ UNCHANGED <<chips, active, flipped, inited, frames>>

EffectInit ==
  /\ Begins("init")
  /\ Call(IF Begun \in inited THEN <<>> ELSE Effects[Begun].init)
  /\ unit' = Effects[Begun].unit
  /\ inited' = inited \union {Begun}
  /\ active' \in Effects[Begun].active
  /\ flipped' = FALSE
  /\ UNCHANGED <<chips, loaded, frames>>

(* The loop ends when exitLoop is set, or when the track has the number of *)
(* another effect.                                                         *)
EffectKill ==
  /\ Begins("kill")
  /\ Call(IF Begun \in inited THEN Effects[Begun].kill ELSE <<>>)
  /\ unit' = Effects[Begun].unit
  /\ inited' = inited \ {Begun}
  /\ UNCHANGED <<chips, active, flipped, loaded, frames>>

EffectUnLoad ==
  /\ Begins("unload")
  /\ Call(IF Begun \in loaded THEN Effects[Begun].unload ELSE <<>>)
  /\ unit' = Effects[Begun].unit
  /\ loaded' = loaded \ {Begun}
  /\ UNCHANGED <<chips, active, flipped, inited, frames>>

(* effects/main.c waits for the next frame before it calls Render first.   *)
EffectRun ==
  /\ Begins("run")
  /\ Call(<<>>)
  /\ frames' = 0
  /\ tick' = ~Programs[program].always
  /\ UNCHANGED <<mem, lists, cop1lc, running, shown, dma, blit, blitint,
                 phases, beam, unit, active, flipped, loaded, inited>>

(* The loop calls Render when the frame counter has moved, and reads the   *)
(* counter before it does.                                                 *)
Render ==
  /\ Doing("run")
  /\ tick
  /\ frames < MaxFrames[Steps[Now].effect]
  /\ \E script \in effect.render : Call(script)
  /\ tick' = FALSE
  /\ frames' = frames + 1
  /\ UNCHANGED <<mem, lists, cop1lc, running, shown, dma, blit, blitint,
                 phases, beam, unit, active, flipped, at, loaded, inited>>

(* effects/main.c adds its server before Load and removes it after UnLoad; *)
(* intro/main.c calls a handler between Init and Kill.                     *)
VBlankISR ==
  IF /\ Programs[program].always \/ Doing("run")
     /\ effect.late => \E i \in 1..at : Steps[i].do = "run"
    THEN effect.vblank ELSE {<<>>}

Program ==
  \/ EffectLoad \/ EffectInit \/ EffectRun \/ Render \/ EffectKill
  \/ EffectUnLoad

(* The program ends; so does the machine. *)
Exit == Ended /\ UNCHANGED vars

Rest == UNCHANGED <<program, at, loaded, inited, frames>>

Next ==
  \/ Program
  \/ Processor /\ Rest
  \/ BlitterDone /\ Rest
  \/ ~Ended /\ FrameEnd /\ Rest
  \/ ~Ended /\ (\E script \in VBlankISR : FrameStart(script)) /\ Rest
  \/ Exit

Init ==
  /\ program \in DOMAIN Programs
  /\ at = 0 /\ loaded = {} /\ inited = {} /\ frames = 0
  /\ unit = effect.unit
  /\ active \in effect.active
  /\ ChipsInit

(* Frames and blits end, and handlers return.  Handlers take their turn     *)
(* over and over, but leave the effect the time to go on between them.      *)
Fairness ==
  /\ SF_vars(isr = <<>> /\ (Program \/ (Processor /\ Rest)))
  /\ WF_vars(isr /= <<>> /\ Processor /\ Rest)
  /\ WF_vars(BlitterDone /\ Rest)
  /\ WF_vars(~Ended /\ FrameEnd /\ Rest)
  /\ WF_vars(~Ended /\ (\E script \in VBlankISR : FrameStart(script)) /\ Rest)

Spec == Init /\ [][Next]_vars /\ Fairness
=============================================================================
