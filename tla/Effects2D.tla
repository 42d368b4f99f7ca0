------------------------------ MODULE Effects2D ------------------------------
(***************************************************************************)
(* Effects that draw bitmaps, mostly with the blitter: one definition for  *)
(* each function that touches memory, the copper, the blitter or the       *)
(* display, and the structure Effect of each.                              *)
(***************************************************************************)
EXTENDS Script

(* effects/empty *)
EmptyRender == TaskWaitVBlank
Empty == [Effect("empty", 0) EXCEPT !.render = {EmptyRender}]

-----------------------------------------------------------------------------
(* effects/circles *)
CirclesInit ==
  NewBitmap({Buf("screen")}) \o NewCopList({Buf("cp")})
    \o CopSetupBitplanes(Buf("cp"), {Buf("screen")})
    \o CopListActivate(Buf("cp")) \o EnableDMA({"raster"})
CirclesKill == DeleteCopList({Buf("cp")}) \o DeleteBitmap({Buf("screen")})
CirclesRender == Cpu({}, {Buf("screen")}) \o TaskWaitVBlank
Circles == [Effect("circles", 0) EXCEPT !.init = CirclesInit,
              !.kill = CirclesKill, !.render = {CirclesRender}]

-----------------------------------------------------------------------------
(* effects/plotter *)
PlotterInit ==
  NewBitmap(Both("screen")) \o EnableDMA({"blitter"})
    \o NewBitmap({Buf("flare")}) \o BitmapClear(Buf("flare"))
    \o BitmapCopyArea(Buf("flare"), Static)
    \o NewBitmap({Buf("carry")}) \o ForBoth("screen", BitmapClear)
    \o NewCopList({Buf("cp")})
    \o CopSetupBitplanes(Buf("cp"), {Cur("screen")})
    \o CopListActivate(Buf("cp")) \o EnableDMA({"raster"})
(* Mistaken variant: the copper goes on. *)
PlotterKillCopperOn ==
  DisableDMA({"blitter", "raster"})
    \o DeleteBitmap({Buf("flare")}) \o DeleteBitmap({Buf("carry")})
    \o DeleteBitmap(Both("screen")) \o DeleteCopList({Buf("cp")})
PlotterKill ==
  DisableDMA({"copper", "blitter", "raster"})
    \o DeleteBitmap({Buf("flare")}) \o DeleteBitmap({Buf("carry")})
    \o DeleteBitmap(Both("screen")) \o DeleteCopList({Buf("cp")})
PlotterDrawPlotter ==
  BitmapAddSaturated(Cur("screen"), Buf("flare"), Buf("carry"))
(* Mistaken variant: no wait for the frame that shows the planes. *)
PlotterRenderNoWait ==
  BitmapClear(Cur("screen")) \o PlotterDrawPlotter
    \o CopUpdateBitplanes(Buf("cp"), {Cur("screen")}) \o Swap(2)
PlotterRender ==
  BitmapClear(Cur("screen")) \o PlotterDrawPlotter
    \o CopUpdateBitplanes(Buf("cp"), {Cur("screen")})
    \o TaskWaitVBlank \o Swap(2)
Plotter == [Effect("plotter", 0) EXCEPT !.init = PlotterInit,
              !.kill = PlotterKill, !.render = {PlotterRender}]

-----------------------------------------------------------------------------
(* effects/lines *)
LinesLoad ==
  NewBitmap({Buf("screen")}) \o NewCopList({Buf("cp")})
    \o CopSetupBitplanes(Buf("cp"), {Buf("screen")})
LinesUnLoad == DeleteCopList({Buf("cp")}) \o DeleteBitmap({Buf("screen")})
LinesInit == CopListActivate(Buf("cp")) \o EnableDMA({"blitter", "raster"})
LinesRender == BlitterLineSetup(Buf("screen")) \o BlitterLine(Buf("screen"))
Lines == [Effect("lines", 0) EXCEPT !.load = LinesLoad,
            !.unload = LinesUnLoad, !.init = LinesInit,
            !.render = {LinesRender}]

-----------------------------------------------------------------------------
(* effects/anim: four of five planes are on display, the fifth is drawn. *)
AnimInit ==
  NewBitmap(Row("screen", 5)) \o EnableDMA({"blitter"})
    \o BlitPlanes({}, Row("screen", 5)) \o NewCopList({Buf("cp")})
    \o CopSetupBitplanes(Buf("cp"), Row("screen", 4))
    \o CopListActivate(Buf("cp")) \o EnableDMA({"raster"})
AnimKill ==
  DisableDMA({"copper", "raster", "blitter"})
    \o DeleteCopList({Buf("cp")}) \o DeleteBitmap(Row("screen", 5))
AnimPlane(i) == At("screen", i, 5)
(* Mistaken variant: spans are drawn on a plane that is being cleared. *)
AnimDrawSpansNoWait == Cpu({}, {AnimPlane(0)})
AnimDrawSpans == WaitBlitter \o Cpu({}, {AnimPlane(0)})
AnimRender ==
  BlitterClear(AnimPlane(0)) \o AnimDrawSpans \o BlitterFill(AnimPlane(0))
    \o CopUpdateBitplanes(Buf("cp"), {AnimPlane(i) : i \in {2, 3, 4, 0}})
    \o TaskWaitVBlank \o Swap(5)
Anim == [Effect("anim", 0) EXCEPT !.init = AnimInit, !.kill = AnimKill,
           !.render = {AnimRender}]

-----------------------------------------------------------------------------
(* effects/metaballs *)
MetaBallsInit ==
  NewBitmap(Both("screen")) \o EnableDMA({"blitter"})
    \o ForBoth("screen", LAMBDA s : BitmapClear(s) \o BitmapCopy(s, Static))
    \o NewBitmap({Buf("carry")}) \o NewCopList({Buf("cp")})
    \o CopSetupBitplanes(Buf("cp"), {Cur("screen")})
    \o CopListActivate(Buf("cp")) \o EnableDMA({"raster"})
(* Mistaken variant: the bitplanes stay on display. *)
MetaBallsKillRasterOn ==
  DisableDMA({"copper", "blitter"}) \o DeleteBitmap({Buf("carry")})
    \o DeleteCopList({Buf("cp")}) \o DeleteBitmap(Both("screen"))
MetaBallsKill ==
  DisableDMA({"copper", "raster", "blitter"}) \o DeleteBitmap({Buf("carry")})
    \o DeleteCopList({Buf("cp")}) \o DeleteBitmap(Both("screen"))
MetaBallsClearMetaballs == BitmapClear(Cur("screen"))
MetaBallsDrawMetaballs ==
  BitmapCopyFast(Cur("screen"), Static)
    \o BitmapAddSaturated(Cur("screen"), Static, Buf("carry"))
MetaBallsRender ==
  MetaBallsClearMetaballs \o MetaBallsDrawMetaballs
    \o CopUpdateBitplanes(Buf("cp"), {Cur("screen")})
    \o TaskWaitVBlank \o Swap(2)
MetaBalls == [Effect("metaballs", 0) EXCEPT !.init = MetaBallsInit,
                !.kill = MetaBallsKill, !.render = {MetaBallsRender}]

-----------------------------------------------------------------------------
(* effects/shapes: all four planes are on display, in an order that turns. *)
ShapesInit ==
  NewBitmap(Row("screen", 4)) \o EnableDMA({"blitter"})
    \o BlitPlanes({}, Row("screen", 4)) \o NewCopList({Buf("cp")})
    \o CopSetupBitplanes(Buf("cp"), Row("screen", 4))
    \o CopListActivate(Buf("cp")) \o EnableDMA({"raster"})
ShapesKill ==
  DisableDMA({"copper", "raster", "blitter"})
    \o DeleteCopList({Buf("cp")}) \o DeleteBitmap(Row("screen", 4))
ShapesPlane == At("screen", 0, 4)
ShapesDrawShape == BlitterLine(ShapesPlane)
ShapesRender ==
  { BlitterClear(ShapesPlane) \o BlitterLineSetup(ShapesPlane)
      \o ShapesDrawShape \o BlitterFill(ShapesPlane)
      \o CopUpdateBitplanes(Buf("cp"), Row("screen", 4))
      \o TaskWaitVBlank \o next : next \in {<<>>, Swap(4)} }
Shapes == [Effect("shapes", 3) EXCEPT !.init = ShapesInit,
             !.kill = ShapesKill, !.render = ShapesRender]

-----------------------------------------------------------------------------
(* effects/anim-polygons: as effects/anim; may leave a frame out. *)
AnimPolygonsMakeCopperList ==
  NewCopList({Buf("cp")}) \o CopSetupBitplanes(Buf("cp"), Row("screen", 4))
AnimPolygonsInit ==
  NewBitmap(Row("screen", 5)) \o EnableDMA({"blitter"})
    \o BlitPlanes({}, Row("screen", 5)) \o AnimPolygonsMakeCopperList
    \o CopListActivate(Buf("cp")) \o EnableDMA({"raster"})
AnimPolygonsDrawFrame == WaitBlitter \o BlitterLine(AnimPlane(0))
AnimPolygonsRender ==
  { TaskWaitVBlank,
    BlitterClear(AnimPlane(0)) \o BlitterLineSetup(AnimPlane(0))
      \o AnimPolygonsDrawFrame \o BlitterFill(AnimPlane(0))
      \o CopUpdateBitplanes(Buf("cp"), {AnimPlane(i) : i \in {2, 3, 4, 0}})
      \o TaskWaitVBlank \o Swap(5) }
AnimPolygonsKill == AnimKill
AnimPolygons ==
  [Effect("anim-polygons", 0) EXCEPT !.init = AnimPolygonsInit,
     !.kill = AnimPolygonsKill, !.render = AnimPolygonsRender]
-----------------------------------------------------------------------------
(* effects/transparency *)
TransparencyBitplaneCopyFast(d) == Blit({}, d)
TransparencyInit ==
  NewBitmap({Buf("screen")}) \o EnableDMA({"blitter"})
    \o BitmapCopy(Buf("screen"), Static) \o NewCopList({Buf("cp")})
    \o CopSetupBitplanes(Buf("cp"), {Buf("screen")})
    \o CopListActivate(Buf("cp")) \o EnableDMA({"raster"})
TransparencyKill == DeleteBitmap({Buf("screen")}) \o DeleteCopList({Buf("cp")})
TransparencyRender ==
  TransparencyBitplaneCopyFast(Buf("screen")) \o CopInsSet(Buf("cp"))
    \o TaskWaitVBlank
Transparency ==
  [Effect("transparency", 0) EXCEPT !.init = TransparencyInit,
     !.kill = TransparencyKill, !.render = {TransparencyRender}]

-----------------------------------------------------------------------------
(* effects/blurred *)
BlurredMakeCopperList ==
  NewCopList({Buf("cp")})
    \o CopSetupRaster(Buf("cp"), {Cur("screen"), Nth("screen", 0)})
BlurredInit ==
  NewBitmap(Both("screen")) \o EnableDMA({"blitter"})
    \o ForBoth("screen", LAMBDA s :
         BitmapClear(s) \o WaitBlitter \o Cpu({}, {s}) \o BlitterFill(s)
           \o BitmapCopy(s, Static))
    \o NewBitmap({Buf("buffer")}) \o NewBitmap({Buf("carry")})
    \o BlurredMakeCopperList \o CopListActivate(Buf("cp"))
    \o EnableDMA({"raster"})
(* Mistaken variant: the blitter goes on. *)
BlurredKillBlitterOn ==
  DisableDMA({"copper", "raster"}) \o DeleteCopList({Buf("cp")})
    \o DeleteBitmap({Buf("carry")}) \o DeleteBitmap({Buf("buffer")})
    \o DeleteBitmap(Both("screen"))
(* Mistaken variant: the buffer is forgotten. *)
BlurredKillNoBuffer ==
  DisableDMA({"copper", "raster", "blitter"}) \o DeleteCopList({Buf("cp")})
    \o DeleteBitmap({Buf("carry")}) \o DeleteBitmap(Both("screen"))
BlurredKill ==
  DisableDMA({"copper", "raster", "blitter"}) \o DeleteCopList({Buf("cp")})
    \o DeleteBitmap({Buf("carry")}) \o DeleteBitmap({Buf("buffer")})
    \o DeleteBitmap(Both("screen"))
BlurredDrawShape ==
  BlitterClear(Buf("carry")) \o BlitterLineSetup(Buf("carry"))
    \o BlitterLine(Buf("carry")) \o BlitterFill(Buf("carry"))
BlurredRender ==
  { dec \o BlurredDrawShape \o BitmapIncSaturated(Buf("buffer"), Buf("carry"))
      \o BitmapCopy(Cur("screen"), Buf("buffer"))
      \o CopUpdateBitplanes(Buf("cp"), {Cur("screen")})
      \o TaskWaitVBlank \o Swap(2) :
    dec \in {<<>>, BitmapDecSaturated(Buf("buffer"), Buf("carry"))} }
Blurred == [Effect("blurred", 0) EXCEPT !.init = BlurredInit,
              !.kill = BlurredKill, !.render = BlurredRender]

-----------------------------------------------------------------------------
(* effects/glitch *)
GlitchBitplaneCopyFast(d) == Blit({}, d)
GlitchMakeCopperList ==
  NewCopList({Buf("cp")}) \o CopSetupBitplanes(Buf("cp"), {Cur("screen")})
GlitchInit ==
  NewBitmap(Both("screen")) \o GlitchMakeCopperList
    \o CopListActivate(Buf("cp")) \o EnableDMA({"raster", "blitter"})
GlitchKill ==
  DisableDMA({"copper", "raster", "blitter"})
    \o DeleteCopList({Buf("cp")}) \o DeleteBitmap(Both("screen"))
GlitchRender ==
  GlitchBitplaneCopyFast(Cur("screen")) \o CopInsSet(Buf("cp"))
    \o CopUpdateBitplanes(Buf("cp"), {Cur("screen")})
    \o TaskWaitVBlank \o Swap(2)
Glitch == [Effect("glitch", 0) EXCEPT !.init = GlitchInit,
             !.kill = GlitchKill, !.render = {GlitchRender}]

-----------------------------------------------------------------------------
(* effects/neons: the handler of the vertical blank turns the palette.  Its *)
(* pointer into the copper list is NULL until the list has been made.       *)
NeonsLoad == NewBitmap(Both("screen"))
NeonsUnLoad == DeleteBitmap(Both("screen"))
NeonsCustomRotatePalette == CopInsSet(Buf("cp"))
NeonsMakeCopperList ==
  NewCopList({Buf("cp")}) \o CopSetupBitplanes(Buf("cp"), {Cur("screen")})
NeonsInit ==
  EnableDMA({"blitter"})
    \o ForBoth("screen", LAMBDA s : BitmapCopy(s, Static))
    \o ForBoth("screen", BlitterClear) \o NeonsMakeCopperList
    \o CopListActivate(Buf("cp")) \o EnableDMA({"raster"})
NeonsKill ==
  DisableDMA({"copper", "raster", "blitter"}) \o DeleteCopList({Buf("cp")})
NeonsClearCliparts ==
  BlitterClear(Cur("screen")) \o BitmapCopyArea(Cur("screen"), Static)
NeonsDrawCliparts ==
  BitmapCopyArea(Cur("screen"), Static) \o BlitterSetArea(Cur("screen"))
NeonsRender ==
  WaitBlitter \o NeonsClearCliparts \o NeonsDrawCliparts
    \o CopUpdateBitplanes(Buf("cp"), {Cur("screen")})
    \o TaskWaitVBlank \o Swap(2)
Neons == [Effect("neons", 0) EXCEPT !.load = NeonsLoad,
            !.unload = NeonsUnLoad, !.init = NeonsInit, !.kill = NeonsKill,
            !.render = {NeonsRender}, !.vblank = {NeonsCustomRotatePalette}]

-----------------------------------------------------------------------------
(* effects/gui and effects/kbtest, where they touch the screen *)
GuiMakeCopperList ==
  NewCopList({Buf("cp")}) \o CopSetupBitplanes(Buf("cp"), {Buf("screen")})
GuiRedraw == BitmapClear(Buf("screen")) \o BlitterLineSetup(Buf("screen"))
  \o BlitterLine(Buf("screen")) \o BlitterCopyArea(Buf("screen"), Static)
GuiInit ==
  NewBitmap({Buf("screen")}) \o GuiMakeCopperList
    \o CopListActivate(Buf("cp")) \o EnableDMA({"raster", "blitter", "sprite"})
    \o GuiRedraw
GuiKill ==
  DisableDMA({"raster", "blitter", "sprite"}) \o DeleteCopList({Buf("cp")})
    \o DeleteBitmap({Buf("screen")})
GuiRender == {<<>>, GuiRedraw}
GUI == [Effect("gui", 0) EXCEPT !.init = GuiInit, !.kill = GuiKill,
          !.render = GuiRender]

KbdTestInit ==
  NewBitmap({Buf("screen")}) \o NewCopList({Buf("cp")})
    \o CopSetupBitplanes(Buf("cp"), {Buf("screen")})
    \o CopListActivate(Buf("cp")) \o EnableDMA({"raster"})
    \o Cpu({}, {Buf("screen")})
KbdTestKill ==
  DisableDMA({"copper", "raster"}) \o DeleteCopList({Buf("cp")})
    \o DeleteBitmap({Buf("screen")})
KbdTestRender == {<<>>, Cpu({}, {Buf("screen")})}
KbdTest == [Effect("kbtest", 0) EXCEPT !.init = KbdTestInit,
              !.kill = KbdTestKill, !.render = KbdTestRender]
-----------------------------------------------------------------------------
(* effects/turmite *)
TurmiteInit ==
  NewBitmap({Buf("screen")}) \o NewCopList({Buf("cp")})
    \o CopSetupBitplanes(Buf("cp"), {Buf("screen")})
    \o CopListActivate(Buf("cp")) \o EnableDMA({"raster"})
TurmiteKill == DisableDMA({"raster"}) \o DeleteCopList({Buf("cp")})
TurmiteSimulateTurmite == Cpu({}, {Buf("screen")})
TurmiteRender == TurmiteSimulateTurmite \o WaitVBlank
Turmite == [Effect("turmite", 0) EXCEPT !.init = TurmiteInit,
              !.kill = TurmiteKill, !.render = {TurmiteRender}]

-----------------------------------------------------------------------------
(* effects/growing-tree *)
TreeGreetsInit == BlitterLineSetup(Buf("screen"))
TreeInit ==
  NewBitmap({Buf("screen")}) \o TreeGreetsInit \o NewCopList({Buf("cp")})
    \o CopSetupBitplanes(Buf("cp"), {Buf("screen")})
    \o CopListActivate(Buf("cp")) \o EnableDMA({"raster", "blitter"})
TreeKill ==
  DisableDMA({"copper", "blitter", "raster"})
    \o DeleteBitmap({Buf("screen")}) \o DeleteCopList({Buf("cp")})
TreeCopyFruit == Blit({Buf("screen")}, Buf("screen"))
TreeDrawBranch == Blit({Buf("screen")}, Buf("screen"))
TreeGrowingTree == TreeDrawBranch \o TreeCopyFruit
TreeRender ==
  { TaskWaitVBlank,
    BitmapClear(Buf("screen")) \o TreeGrowingTree \o TaskWaitVBlank,
    TreeGrowingTree \o TreeDrawBranch \o TaskWaitVBlank }
GrowingTree == [Effect("growing-tree", 0) EXCEPT !.init = TreeInit,
                  !.kill = TreeKill, !.render = TreeRender]

-----------------------------------------------------------------------------
(* effects/sea-anemone *)
(* Mistaken variant: the wait comes after the channel is off. *)
AnemoneLoadWaitsLate ==
  EnableDMA({"blitter"})
    \o ForBoth("circles", LAMBDA c :
         NewBitmap({c}) \o Cpu({}, {c}) \o BlitterFill(c))
    \o DisableDMA({"blitter"}) \o WaitBlitter
AnemoneLoad ==
  EnableDMA({"blitter"})
    \o ForBoth("circles", LAMBDA c :
         NewBitmap({c}) \o Cpu({}, {c}) \o BlitterFill(c))
    \o WaitBlitter \o DisableDMA({"blitter"})
AnemoneUnLoad == DeleteBitmap(Both("circles"))
AnemoneInit ==
  NewBitmap({Buf("screen")}) \o NewCopList({Buf("cp")})
    \o CopSetupBitplanes(Buf("cp"), {Buf("screen")})
    \o CopListActivate(Buf("cp")) \o EnableDMA({"raster", "blitter"})
    \o WaitBlitter
AnemoneKill ==
  DisableDMA({"copper", "blitter", "raster"})
    \o DeleteBitmap({Buf("screen")}) \o DeleteCopList({Buf("cp")})
AnemoneDrawCircle(c) == WaitBlitter \o Blit({c, Buf("screen")}, Buf("screen"))
AnemoneSeaAnemone == ForBoth("circles", AnemoneDrawCircle)
AnemoneRender == {TaskWaitVBlank, AnemoneSeaAnemone \o TaskWaitVBlank}
SeaAnemone == [Effect("sea-anemone", 0) EXCEPT !.load = AnemoneLoad,
                 !.unload = AnemoneUnLoad, !.init = AnemoneInit,
                 !.kill = AnemoneKill, !.render = AnemoneRender]

-----------------------------------------------------------------------------
(* effects/tilezoomer: five planes, of which the last four are shown. *)
ZoomerMakeCopperList ==
  NewCopList({Buf("cp")})
    \o CopSetupBitplanes(Buf("cp"), {At("screen", i, 5) : i \in 0..3})
ZoomerInit ==
  NewBitmap(Row("screen", 5)) \o ZoomerMakeCopperList
    \o CopListActivate(Buf("cp")) \o EnableDMA({"raster", "blitter"})
ZoomerKill == DeleteBitmap(Row("screen", 5)) \o DeleteCopList({Buf("cp")})
ZoomerDrawSeed == Cpu({}, {At("screen", 0, 5)})
ZoomerMoveTiles == SetBlitter \o Blit({At("screen", 4, 5)}, At("screen", 0, 5))
ZoomerUpdateBitplanePointers ==
  CopUpdateBitplanes(Buf("cp"), {At("screen", i, 5) : i \in {0, 4, 3, 2}})
ZoomerRender ==
  { seed \o Swap(5) \o ZoomerMoveTiles \o ZoomerUpdateBitplanePointers
      \o TaskWaitVBlank : seed \in {<<>>, ZoomerDrawSeed} }
TileZoomer == [Effect("tilezoomer", 0) EXCEPT !.init = ZoomerInit,
                 !.kill = ZoomerKill, !.render = ZoomerRender]

-----------------------------------------------------------------------------
(* effects/game-of-life: a sequence of blits on the boards, in the handler *)
(* of the blitter's interrupt, and five states of which four are shown.    *)
(* The processor reads the board that the last of the blits writes.        *)
GameState(i) == At("prev_states", i, 5)
GameBoards == Bufs({"board", "boards"})
GameMakeCopperList ==
  NewCopList({Buf("cp")}) \o CopSetupBitplanes(Buf("cp"),
    {GameState(i) : i \in 0..3})
GameMakePixelDoublingCode == Cpu({}, {Buf("PixelDouble")})
GameInit ==
  NewBitmap(GameBoards) \o BitmapCopy(Buf("boards"), Static)
    \o EnableDMA({"blitter"}) \o NewBitmap(Row("prev_states", 5))
    \o BitmapClear(GameState(0)) \o BitmapClear(GameState(1))
    \o MemAlloc({Buf("PixelDouble")}) \o GameMakePixelDoublingCode
    \o BitmapClear(Buf("board")) \o WaitBlitter \o GameMakeCopperList
    \o CopListActivate(Buf("cp")) \o EnableDMA({"raster"}) \o EnableBlitInt
GameKill ==
  DisableDMA({"raster", "blitter"}) \o DisableBlitInt
    \o DeleteBitmap(GameBoards) \o DeleteBitmap(Row("prev_states", 5))
    \o MemFree({Buf("PixelDouble")}) \o DeleteCopList({Buf("cp")})
GameUpdateBitplanePointers ==
  CopUpdateBitplanes(Buf("cp"), {GameState(i) : i \in {2, 3, 4, 0}})
GameBlit(b) == Start(GameBoards, b)
GameOfLifePhases == Phases(GameBlit(Buf("boards")) \o GameBlit(Buf("board")))
GameSpawnElectrons == Cpu({}, GameBoards)
GameGolStep ==
  { Cpu(Bufs({"board", "PixelDouble"}), {GameState(0)})
      \o GameUpdateBitplanePointers \o Swap(5) \o GameOfLifePhases
      \o CopInsSet(Buf("cp")) \o spawn : spawn \in {<<>>, GameSpawnElectrons} }
GameOfLife == [Effect("game-of-life", 0) EXCEPT !.init = GameInit,
                 !.kill = GameKill, !.render = GameGolStep]
=============================================================================
