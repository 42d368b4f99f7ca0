------------------------------ MODULE MCEffects ------------------------------
EXTENDS TLC, EffectLife, Effects2D, EffectsCopper, EffectsChunky, Effects3D,
        EffectsPlayer, EffectsIntro

Alone ==
  [empty |-> Empty, circles |-> Circles, plotter |-> Plotter,
   lines |-> Lines, anim |-> Anim, metaballs |-> MetaBalls,
   shapes |-> Shapes, animpolygons |-> AnimPolygons, transparency |-> Transparency,
   blurred |-> Blurred, glitch |-> Glitch, neons |-> Neons,
   gui |-> GUI, kbdtest |-> KbdTest, turmite |-> Turmite,
   growingtree |-> GrowingTree, seaanemone |-> SeaAnemone, tilezoomer |-> TileZoomer,
   gameoflife |-> GameOfLife, bobs3d |-> Bobs3D, wireframe |-> Wireframe,
   flatshade |-> FlatShade, flatshadeconvex |-> FlatShadeConvex, blurred3d |-> Blurred3D,
   uvmap |-> UVMap, rotator |-> Rotator, uvmaprgb |-> UVMapRGB,
   bumpmap |-> BumpMap, uvlight |-> UVLight, ball |-> Ball,
   showpchg |-> ShowPCHG, textscroll |-> TextScroll, plasma |-> Plasma,
   stripes |-> Stripes, twisterrgb |-> TwisterRGB, credits |-> Credits,
   layers |-> Layers, gears |-> Gears, tiles16 |-> Tiles16,
   tiles8 |-> Tiles8, highway |-> Highway, multipipe |-> MultiPipe,
   floor |-> Floor, floorold |-> FloorOld, thunders |-> Thunders,
   weave |-> Weave, prisms |-> Prisms, playp61 |-> PlayP61,
   playcinter |-> PlayCinter, playprotracker |-> PlayProtracker, playahx |-> PlayAHX]

Life(e) ==
  [always |-> TRUE,
   steps |-> << [do |-> "load", effect |-> e], [do |-> "init", effect |-> e],
                [do |-> "run", effect |-> e], [do |-> "kill", effect |-> e],
                [do |-> "unload", effect |-> e] >>]

IntroEffects ==
  [logoin |-> LogoIn, tilemover |-> TileMover(FALSE), wireworld |-> Wireworld1,
   vitruvian |-> Vitruvian, life |-> GameOfLifeScene(2), anemones |-> SeaAnemones,
   introweave |-> IntroWeave, uvgut |-> UVGut, tree |-> GreetingTree,
   wireworldbg |-> Wireworld3, lifelogo |-> GameOfLifeScene(4),
   uvtit |-> UVTit, tilemover2 |-> TileMover(TRUE),
   introturmite |-> IntroTurmite, scroll |-> Scroll, logoout |-> LogoOut]

Track ==
  <<"logoin", "tilemover", "wireworld", "vitruvian", "life", "anemones",
    "introweave", "uvgut", "tree", "wireworldbg", "lifelogo", "uvtit",
    "tilemover2", "introturmite", "scroll", "logoout">>
AllEffects ==
  <<"logoin", "logoin", "scroll", "introweave", "introturmite", "tree", "tilemover",
    "anemones", "wireworld", "life", "vitruvian", "uvgut", "uvtit", "logoout">>
ForAll(what, effects) ==
  [i \in DOMAIN effects |-> [do |-> what, effect |-> effects[i]]]
RunEffects ==
  [i \in 1..(3 * Len(Track)) |->
     [do |-> <<"init", "run", "kill">>[((i - 1) % 3) + 1],
      effect |-> Track[((i - 1) \div 3) + 1]]]
Intro ==
  [always |-> FALSE,
   steps |-> ForAll("load", AllEffects) \o RunEffects
               \o ForAll("unload", AllEffects)]

EffectsOfAll == Alone @@ IntroEffects
ProgramsOfAll == [e \in DOMAIN Alone |-> Life(e)] @@ ("intro" :> Intro)

(* Definitions of their own, so that TLC evaluates the two once. *)
MCEffects == EffectsOfAll
MCPrograms == ProgramsOfAll

(* Enough for an effect with a ring of four or five planes to come back to *)
(* the first.                                                              *)
Rings ==
  {"anim", "animpolygons", "shapes", "wireframe", "tilezoomer", "gameoflife",
   "tilemover", "tilemover2", "wireworld", "life", "wireworldbg", "lifelogo"}
MCMaxFrames == [e \in DOMAIN EffectsOfAll |-> IF e \in Rings THEN 6 ELSE 3]

-----------------------------------------------------------------------------
(* The properties hold except in source files that leave it to the length  *)
(* of a frame, or to nobody calling after them, that nothing goes wrong:   *)
(* each set names all of those, and only those.                            *)

(* The handler writes to the copper list before Init and after Kill, or    *)
(* to the player after UnLoad; UnLoad frees data that the linker placed.   *)
HandlesTooEarlyOrLate == {"neons", "playctr"}

(* Kill frees bitmaps with the blitter on and a blit not over, or turns it *)
(* off in the middle of a blit, which goes on when the next effect of the  *)
(* intro turns it on.                                                      *)
FreesUnderBlit ==
  {"bumpmap-rgb", "flatshade", "lines", "textscroll", "tilezoomer",
   "transparency", "uvlight", "uvmap-rgb", "wireframe", "intro/growing-tree",
   "intro/logo", "intro/sea-anemone", "intro/uvmap"}

(* Kill frees the copper list and leaves the copper on. *)
FreesUnderCopper ==
  {"blurred3d", "bobs3d", "circles", "credits", "flatshade",
   "flatshade-convex", "floor", "floor-old", "game-of-life", "gui", "layers",
   "lines", "multipipe", "prisms", "showpchg", "stripes", "textscroll",
   "tilezoomer", "transparency", "turmite", "twister-rgb", "weave",
   "wireframe", "intro/logo"}

(* Kill frees bitmaps that are on display. *)
FreesOnDisplay ==
  {"circles", "credits", "flatshade-convex", "lines", "prisms", "textscroll",
   "tilezoomer", "transparency", "wireframe"}

(* Render does not wait for the frame that shows what it has drawn, or     *)
(* draws on planes that show on purpose.                                   *)
DrawsOnDisplay ==
  {"bobs3d", "game-of-life", "rotator", "shapes", "tilezoomer", "uvmap",
   "intro/game-of-life", "intro/logo", "intro/uvmap"}

(* The processor writes what it has let the blitter clear, or reads what   *)
(* the handler of the blitter still has it compute.                        *)
RacesBlitter == {"game-of-life", "playahx", "playp61", "tilezoomer"}

(* A sequence of blits starts without a wait for the one before, or        *)
(* registers that its blits have in common are written ahead of the wait.  *)
StartsWhileBusy ==
  {"blurred3d", "bumpmap-rgb", "flatshade", "game-of-life", "rotator",
   "tiles8", "tilezoomer", "uvlight", "uvmap", "uvmap-rgb", "intro/uvmap"}

(* UnLoad or Kill forgets a buffer. *)
Leaks == {"tiles16", "tiles8", "turmite", "uvlight"}

-----------------------------------------------------------------------------
Touched(op) ==
  CASE op.kind \in {"cpu", "start"} -> op.from \union op.to
    [] op.kind \in {"build", "patch", "free"} -> op.to
    [] OTHER -> {}

Owned(B, Excused) == \A b \in B : b \in mem \/ b[1] \in Excused

(* The processor uses, and frees, only memory that is allocated: whatever  *)
(* point of the effect's life an interrupt comes at, and whichever effects *)
(* of the intro have shared their statics before.                          *)
UsesOwnMemory ==
  Busy /\ unit \notin HandlesTooEarlyOrLate => Touched(Next1) \subseteq mem

(* A blit at work reads and writes allocated memory. *)
BlitterOwnsMemory ==
  BlitterOn => Owned(blit.from \union blit.to, FreesUnderBlit)

(* The list that the copper takes at the next frame is allocated. *)
CopperOwnsList == "copper" \in dma => Owned({cop1lc} \ {none}, FreesUnderCopper)

(* Bitplanes that the display fetches are allocated. *)
DisplayOwnsPlanes == Fetches => Owned(shown, FreesOnDisplay)

(* After the first buffer has been handed to the display, what is drawn or *)
(* changed next is neither a buffer that the display fetches nor the       *)
(* copper list at work.                                                    *)
DrawsOffScreen ==
  /\ isr = <<>> /\ todo /= <<>> /\ flipped /\ unit \notin DrawsOnDisplay
  /\ Head(todo).kind \in {"cpu", "start", "build", "patch"}
  /\ Fetches
  => Buffers({b \in Head(todo).to : b[3] /= 0}) \intersect
       (shown \union {running}) = {}

(* The processor keeps off what a blit not over yet writes, and does not   *)
(* write what it reads.                                                    *)
CpuWaits ==
  Busy /\ unit \notin RacesBlitter /\ Next1.kind = "cpu" /\ blit /= none
  => /\ (Next1.from \union Next1.to) \intersect blit.to = {}
     /\ Next1.to \intersect blit.from = {}

(* The registers of the blitter are written only when it is idle, whether  *)
(* it is started with them or later.                                       *)
StartsIdle ==
  Busy /\ unit \notin StartsWhileBusy /\ Next1.kind \in {"start", "regs"}
  => blit = none

(* Nothing that was allocated outlives the program. *)
AllReturned == Ended => {b \in mem : b[1] \notin Leaks} = {}

(* Waits for the beam, for the blitter and for the blits of its interrupt  *)
(* end, so that every program gets through the life of its effects.        *)
Ends == <>Ended
=============================================================================
