----------------------------- MODULE CustomChips -----------------------------
(***************************************************************************)
(* The machine an effect runs on: memory, the copper, the display and the  *)
(* blitter, each at work while the processor goes through the script of    *)
(* the effect.                                                             *)
(*                                                                         *)
(* A frame has a part in which the display fetches bitplanes and a part,   *)
(* from line 303 on, in which it does not.  At the start of a frame the    *)
(* copper takes the list in cop1lc and loads from it the pointers to the   *)
(* bitplanes of this frame: a list that is changed later in the frame      *)
(* shows in the next.  The interrupt of the vertical blank comes at the    *)
(* same time, and so does the tick of the frame counter.                   *)
(*                                                                         *)
(* The copper and the blitter run only while their channel is enabled.     *)
(* The copper goes on where the channel stopped it, until the next frame;  *)
(* so does a blit.  Blits take less than a frame.  So do handlers of       *)
(* interrupts, which run to their end before the effect goes on.           *)
(***************************************************************************)
EXTENDS Script, FiniteSets

VARIABLES
  unit,     \* source file whose statics the script at work uses
  active,   \* its variable of that name
  mem,      \* allocated buffers
  lists,    \* what a copper list does, for each that is written: the
            \* bitplanes it shows, whether it turns their channel on
  flipped,  \* the effect has gone on to its next buffer since Init
  cop1lc,   \* list the copper takes at the next frame, or none
  running,  \* list it is in, or none when it has reached the end
  shown,    \* bitplanes the pointers of the display lead to
  dma,      \* enabled channels
  blit,     \* the blit not finished yet, and whether it was started in an
            \* earlier frame; or none
  blitint,  \* the interrupt of the blitter is enabled
  phases,   \* what its handler has left to do
  beam,     \* part of the frame
  tick,     \* the frame counter has moved since Render was last called
  isr,      \* what handlers of interrupts have left to do
  todo      \* what the effect has left to do of the function at work

chips == <<mem, lists, cop1lc, running, shown, dma, blit, blitint, phases,
           beam, tick>>
code == <<unit, active, flipped, isr, todo>>

none == <<>>

-----------------------------------------------------------------------------
(* The buffer that a name of the script stands for. *)
Buffer(b) ==
  <<unit, b[1], IF b[3] = 0 THEN b[2] ELSE (active + b[2]) % b[3]>>
Buffers(B) == {Buffer(b) : b \in B \ {Static}}

(* An operation with the buffers it works on; blits of the interrupt keep  *)
(* those they were given.                                                  *)
Resolved(op) == [op EXCEPT !.from = Buffers(op.from), !.to = Buffers(op.to)]

(* What is done next: by the handler of an interrupt, else by the effect.  *)
Busy == isr /= <<>> \/ todo /= <<>>
Op1 == IF isr /= <<>> THEN Head(isr) ELSE Head(todo)
Next1 == IF isr /= <<>> THEN Op1 ELSE Resolved(Op1)
Advance ==
  IF isr /= <<>> THEN isr' = Tail(isr) /\ UNCHANGED todo
                 ELSE todo' = Tail(todo) /\ UNCHANGED isr
Waits(kind) == isr = <<>> /\ todo /= <<>> /\ Head(todo).kind = kind
At1(kind) == Busy /\ Op1.kind = kind

The(S) == CHOOSE x \in S : TRUE

(* The pointers lead to planes until the copper loads them again. *)
Fetches == "raster" \in dma /\ beam = "display"
BlitterOn == blit /= none /\ "blitter" \in dma

-----------------------------------------------------------------------------
(* The processor *)

New ==
  /\ At1("new")
  /\ mem' = mem \union Next1.to
  /\ Advance
  /\ UNCHANGED <<unit, active, flipped, lists, cop1lc, running, shown, dma, blit,
                 blitint, phases, beam, tick>>

Free ==
  /\ At1("free")
  /\ mem' = mem \ Next1.to
  /\ lists' = [c \in DOMAIN lists \ Next1.to |-> lists[c]]
  /\ Advance
  /\ UNCHANGED <<unit, active, flipped, cop1lc, running, shown, dma, blit, blitint,
                 phases, beam, tick>>

Compute ==
  /\ At1("cpu")
  /\ Advance
  /\ UNCHANGED <<unit, active, flipped, chips>>

(* A list that the code changes was written before. *)
WriteList ==
  /\ At1("build") \/ At1("patch")
  /\ LET c == The(Next1.to)
         raster == IF Next1.kind = "build" THEN "raster" \in Next1.dma
                     ELSE c \in DOMAIN lists /\ lists[c].raster
     IN  lists' = [l \in DOMAIN lists \union {c} |->
                     IF l = c THEN [planes |-> Next1.from, raster |-> raster]
                              ELSE lists[l]]
  /\ Advance
  /\ UNCHANGED <<unit, active, flipped, mem, cop1lc, running, shown, dma, blit,
                 blitint, phases, beam, tick>>

RunList ==
  /\ At1("run")
  /\ cop1lc' = The(Next1.from)
  /\ Advance
  /\ UNCHANGED <<unit, active, flipped, mem, lists, running, shown, dma, blit,
                 blitint, phases, beam, tick>>

SetDMA ==
  /\ At1("on") \/ At1("off")
  /\ dma' = IF Next1.kind = "on" THEN dma \union Next1.dma ELSE dma \ Next1.dma
  /\ Advance
  /\ UNCHANGED <<unit, active, flipped, mem, lists, cop1lc, running, shown, blit,
                 blitint, phases, beam, tick>>

SwapBuffers ==
  /\ At1("swap")
  /\ active' = (active + 1) % Next1.n
  /\ flipped' = (Next1.n > 1)
  /\ Advance
  /\ UNCHANGED <<unit, chips>>

(* while ((custom->vposr_ & 0x1ff00) != line) *)
WaitLine ==
  /\ At1("line303")
  /\ beam = "blank"
  /\ Advance
  /\ UNCHANGED <<unit, active, flipped, chips>>

(* while (custom->dmaconr & DMAF_BLTDONE) *)
WaitForBlitter ==
  /\ At1("idle")
  /\ blit = none
  /\ Advance
  /\ UNCHANGED <<unit, active, flipped, chips>>

(* Registers are written, but not bltsize. *)
WriteRegisters ==
  /\ At1("regs")
  /\ Advance
  /\ UNCHANGED <<unit, active, flipped, chips>>

(* bltsize is written. *)
StartBlit ==
  /\ At1("start")
  /\ blit' = [from |-> Next1.from, to |-> Next1.to, late |-> FALSE]
  /\ Advance
  /\ UNCHANGED <<unit, active, flipped, mem, lists, cop1lc, running, shown, dma,
                 blitint, phases, beam, tick>>

(* With the handler goes what it had left to do. *)
SetBlitInt ==
  /\ At1("inton") \/ At1("intoff")
  /\ blitint' = (Next1.kind = "inton")
  /\ phases' = <<>>
  /\ Advance
  /\ UNCHANGED <<unit, active, flipped, mem, lists, cop1lc, running, shown, dma, blit,
                 beam, tick>>

(* The effect hands over a sequence of blits, starting with the first. *)
HandOver ==
  /\ At1("phases")
  /\ LET ops == [i \in DOMAIN Next1.phases |-> Resolved(Next1.phases[i])]
     IN  /\ isr' = <<ops[1]>>
         /\ phases' = Tail(ops)
  /\ todo' = Tail(todo)
  /\ UNCHANGED <<unit, active, flipped, mem, lists, cop1lc, running, shown, dma, blit,
                 blitint, beam, tick>>

WaitForPhases ==
  /\ At1("drain")
  /\ phases = <<>>
  /\ Advance
  /\ UNCHANGED <<unit, active, flipped, chips>>

Processor ==
  \/ New \/ Free \/ Compute \/ WriteList \/ RunList \/ SetDMA \/ SwapBuffers
  \/ WaitLine \/ WaitForBlitter \/ WriteRegisters \/ StartBlit
  \/ SetBlitInt \/ HandOver \/ WaitForPhases

-----------------------------------------------------------------------------
(* The chips *)

(* A blit ends; its interrupt does the next thing left. *)
BlitterDone ==
  /\ BlitterOn
  /\ isr = <<>>
  /\ blit' = none
  /\ IF blitint /\ phases /= <<>>
       THEN isr' = <<Head(phases)>> /\ phases' = Tail(phases)
       ELSE UNCHANGED <<isr, phases>>
  /\ UNCHANGED <<unit, active, flipped, todo, mem, lists, cop1lc, running, shown, dma,
                 blitint, beam, tick>>

(* The beam reaches line 303, and the copper the end of its list. *)
FrameEnd ==
  /\ beam = "display"
  /\ isr = <<>>
  /\ beam' = "blank"
  /\ running' = IF "copper" \in dma THEN none ELSE running
  /\ UNCHANGED <<code, mem, lists, cop1lc, shown, dma, blit, blitint, phases,
                 tick>>

(* It reaches line 0.  A processor that polls for line 303 has seen it, and *)
(* a task that waits for the interrupt is woken before the handler of the   *)
(* effect runs.  A blit is over before the second frame after its start.    *)
FrameStart(vblank) ==
  /\ beam = "blank"
  /\ isr = <<>>
  /\ ~Waits("line303")
  /\ BlitterOn => ~blit.late
  /\ blit' = IF BlitterOn THEN [blit EXCEPT !.late = TRUE] ELSE blit
  /\ beam' = "display"
  /\ tick' = TRUE
  /\ running' = cop1lc
  /\ IF "copper" \in dma /\ cop1lc \in DOMAIN lists
       THEN /\ shown' = lists[cop1lc].planes
            /\ dma' = dma \union (IF lists[cop1lc].raster THEN {"raster"} ELSE {})
       ELSE UNCHANGED <<shown, dma>>
  /\ todo' = IF Waits("vertb") THEN Tail(todo) ELSE todo
  /\ isr' = [i \in DOMAIN vblank |-> Resolved(vblank[i])]
  /\ UNCHANGED <<unit, active, flipped, mem, lists, cop1lc, blitint, phases>>

-----------------------------------------------------------------------------
ChipsInit ==
  /\ mem = {} /\ lists = [c \in {} |-> {}]
  /\ cop1lc = none /\ running = none /\ shown = {}
  /\ dma = {} /\ blit = none /\ blitint = FALSE /\ phases = <<>>
  /\ beam = "display" /\ tick = FALSE
  /\ isr = <<>> /\ todo = <<>> /\ flipped = FALSE
=============================================================================
