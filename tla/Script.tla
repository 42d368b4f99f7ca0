------------------------------- MODULE Script -------------------------------
(***************************************************************************)
(* The vocabulary in which the effects are written down: what a function   *)
(* of the graphics and blitter libraries does to memory, to the copper, to *)
(* the blitter and to the display, as a sequence of machine operations.    *)
(* A function of an effect is the concatenation of what it calls.          *)
(*                                                                         *)
(* A buffer is a bitmap, a plane, a pixmap, a copper list or a block of    *)
(* memory, written <<name, index, ring>>.  An effect that works on one of  *)
(* several buffers in turn keeps the number of the current one in active:  *)
(* ring is then how many there are, and index counts from active.  Ring 0  *)
(* is a buffer called by its own number.  Data that the linker places is   *)
(* never freed; all of it is Static.                                       *)
(*                                                                         *)
(* Pixels, colours, positions and lengths are left out.  A loop that does  *)
(* the same to the same buffers is one operation: a second blit waits for  *)
(* the first, and repeats it.  Sprites mostly point to data that the       *)
(* linker placed; where they do not, a list shows them as it shows planes. *)
(***************************************************************************)
EXTENDS Naturals, Sequences

Nth(name, i) == <<name, i, 0>>
Buf(name) == Nth(name, 0)
Both(name) == {Nth(name, 0), Nth(name, 1)}
Bufs(names) == {Buf(name) : name \in names}
Row(name, n) == {Nth(name, i) : i \in 0..(n - 1)}
Static == Buf("static")

(* Entry of an array that the variable active of the effect selects, and   *)
(* the one i places after it, of n.                                        *)
At(name, i, n) == <<name, i, n>>
Cur(name) == At(name, 0, 2)
Other(name) == At(name, 1, 2)

Op(kind, from, to) ==
  << [kind |-> kind, from |-> from, to |-> to,
      dma |-> {}, n |-> 0, phases |-> <<>>] >>

(* The same for both entries of an array of two. *)
ForBoth(name, F(_)) == F(Nth(name, 0)) \o F(Nth(name, 1))

-----------------------------------------------------------------------------
(* Memory *)
MemAlloc(B) == Op("new", {}, B)
MemFree(B) == Op("free", {}, B)
NewBitmap(B) == MemAlloc(B)
DeleteBitmap(B) == MemFree(B)
NewPixmap(B) == MemAlloc(B)
DeletePixmap(B) == MemFree(B)
NewCopList(C) == MemAlloc(C)
DeleteCopList(C) == MemFree(C)
NewObject3D(O) == MemAlloc(O)
DeleteObject3D(O) == MemFree(O)

(* The processor reads and writes buffers itself. *)
Cpu(from, to) == Op("cpu", from, to)

(* bitmap->planes move to new memory; the old is freed. *)
BitmapMakeDisplayable(b) == Cpu({b}, {b})

-----------------------------------------------------------------------------
(* The copper.  The processor writes list c from its start, with the       *)
(* planes it shows: NewCopList or CopListReset up to CopListFinish.        *)
CopSetupBitplanes(c, planes) == Op("build", planes, {c})

(* A list that also turns the channel of the bitplanes on, once a frame. *)
CopSetupRaster(c, planes) ==
  << [Op("build", planes, {c})[1] EXCEPT !.dma = {"raster"}] >>

(* Instructions of c are changed in place, so that it shows other planes.  *)
CopUpdateBitplanes(c, planes) == Op("patch", planes, {c})

(* Instructions of c that show no planes are changed: colours, scrolling.  *)
CopInsSet(c) == Op("cpu", {}, {c})

CopListRun(c) == Op("run", {c}, {})

Channels == {"copper", "raster", "sprite", "blitter"}
EnableDMA(channels) == << [Op("on", {}, {})[1] EXCEPT !.dma = channels] >>
DisableDMA(channels) == << [Op("off", {}, {})[1] EXCEPT !.dma = channels] >>

WaitVBlank == Op("line303", {}, {})
TaskWaitVBlank == Op("vertb", {}, {})

CopListActivate(c) == CopListRun(c) \o EnableDMA({"copper"}) \o WaitVBlank

ResetSprites == DisableDMA({"sprite"})

(* active = (active + 1) % n, and active = 0 *)
Swap(n) == << [Op("swap", {}, {})[1] EXCEPT !.n = n] >>
Rewind == Swap(1)

-----------------------------------------------------------------------------
(* The blitter.  Blit waits until it is idle, writes its registers and     *)
(* starts it; Start does so without waiting.  SetBlitter writes registers  *)
(* that the blits after it have in common, without a wait or a start.      *)
WaitBlitter == Op("idle", {}, {})
Start(from, to) == Op("start", from, {to})
SetBlitter == Op("regs", {}, {})
(* Mistaken variant: registers are written while the blitter is at work. *)
BlitNoWait(from, to) == Start(from, to)
Blit(from, to) == WaitBlitter \o Start(from, to)

(* All planes of a bitmap, one after the other. *)
BlitPlanes(from, planes) == WaitBlitter \o Op("start", from, planes)

BlitterSetArea(b) == Blit({}, b)
BlitterClear(b) == BlitterSetArea(b)
BitmapClear(b) == BlitterSetArea(b)
BlitterFill(b) == Blit({b}, b)
BlitterCopy(d, s) == WaitBlitter \o Blit({s}, d)
BlitterCopyArea(d, s) == WaitBlitter \o Blit({s}, d)
BlitterCopyFast(d, s) == WaitBlitter \o Blit({s}, d)
BlitterCopyMasked(d, s, m) == WaitBlitter \o Blit({s, m, d}, d)
BlitterOr(d, s) == WaitBlitter \o Blit({s, d}, d)
BlitterSetMaskArea(d, m) == Blit({d, m}, d)
BitmapCopy(d, s) == BlitterCopy(d, s)
BitmapCopyArea(d, s) == BlitterCopyArea(d, s)
BitmapCopyFast(d, s) == BlitterCopyFast(d, s)
BitmapCopyMasked(d, s, m) == BlitterCopyMasked(d, s, m)
BlitterLineSetup(b) == WaitBlitter
BlitterLine(b) == Blit({b}, b)

BitmapAddSaturated(d, s, carry) ==
  Blit({s, d}, carry) \o Blit({s, d}, d) \o Blit({s, d, carry}, carry)
    \o Blit({s, d, carry}, d) \o WaitBlitter \o Blit({d, carry}, d)

BitmapIncSaturated(d, carry) ==
  WaitBlitter \o Blit({d, carry}, carry) \o Blit({d, carry}, d)
    \o Blit({d, carry}, d)

BitmapDecSaturated(d, borrow) ==
  Blit({d}, borrow) \o Blit({d}, d) \o Blit({d, borrow}, borrow)
    \o Blit({d, borrow}, d) \o Blit({d, borrow}, d)

BitmapMakeMask(m, b) == NewBitmap({m}) \o Blit({b, m}, m)

-----------------------------------------------------------------------------
(* The interrupt of the blitter.  Its handler starts, at the end of every  *)
(* blit, the next of a sequence of blits that the effect has handed over,  *)
(* and changes the copper list after the last.                             *)
EnableBlitInt == Op("inton", {}, {})
DisableBlitInt == Op("intoff", {}, {})
Phases(ops) == << [Op("phases", {}, {})[1] EXCEPT !.phases = ops] >>
WaitPhases == Op("drain", {}, {})
-----------------------------------------------------------------------------
(* The structure Effect.  Its variable active has the value first, or one  *)
(* of a set of values, when Init is called.                                *)
(* late: the handler vblank does nothing before Init has ended once.       *)
Effect(source, first) ==
  [unit |-> source, active |-> {first}, load |-> <<>>, unload |-> <<>>,
   init |-> <<>>, kill |-> <<>>, render |-> {}, vblank |-> {<<>>},
   late |-> FALSE]
=============================================================================
