---------------------------- MODULE EffectsIntro ----------------------------
(***************************************************************************)
(* The effects of the intro, and its track.  Some keep, in variables that  *)
(* outlive Kill, how often they have run: these have one record for each   *)
(* time that the track has them.  Handlers of the vertical blank that only *)
(* write colour registers are left out.                                    *)
(***************************************************************************)
EXTENDS Script

(* intro/main.c: the bitmap is static; planes are a buffer on the way. *)
PixmapToBitmap ==
  MemAlloc(Bufs({"planes"})) \o Cpu({}, Bufs({"planes"}))
    \o MemFree(Bufs({"planes"}))

-----------------------------------------------------------------------------
(* intro/logo.c: the first logo has no Kill.  It stays on display until    *)
(* the next effect, and in memory until TileMover starts again: so the two *)
(* share a unit here.                                                      *)
LogoScreen == Buf("logo.screen")
LogoCp == Buf("logo.cp")
LogoSharedInit ==
  NewBitmap({LogoScreen}) \o EnableDMA({"blitter"})
    \o BitmapCopy(LogoScreen, Static) \o WaitBlitter
    \o DisableDMA({"blitter"}) \o NewCopList({LogoCp})
    \o CopSetupBitplanes(LogoCp, {LogoScreen}) \o CopListActivate(LogoCp)
    \o EnableDMA({"raster"})
LogoKill ==
  DisableDMA({"raster"}) \o DeleteCopList({LogoCp})
    \o DeleteBitmap({LogoScreen})
KillLogo(enabled) == IF enabled THEN LogoKill ELSE <<>>
LogoRender == TaskWaitVBlank
LogoIn == [Effect("intro/logo", 0) EXCEPT !.load = PixmapToBitmap,
             !.init = LogoSharedInit, !.render = {LogoRender}]
LogoOut == [LogoIn EXCEPT !.load = <<>>, !.kill = LogoKill]

-----------------------------------------------------------------------------
(* intro/tilemover.c: five planes, of which the last four are shown. *)
MoverPlane(i) == At("screen", i, 5)
MoverShown == {MoverPlane(i) : i \in {0, 4, 3, 2}}
MoverLoad ==
  EnableDMA({"blitter"}) \o NewBitmap(Bufs({"logo_blit"}))
    \o Start({Static}, Buf("logo_blit")) \o WaitBlitter
    \o DisableDMA({"blitter"})
MoverUnLoad == DeleteBitmap(Bufs({"logo_blit"}))
MoverBlitBitmap(b) ==
  WaitBlitter \o Blit({b, MoverPlane(0)}, MoverPlane(0))
    \o Blit({b, MoverPlane(2)}, MoverPlane(2))
MoverUpdateBitplanePointers == CopUpdateBitplanes(Buf("cp"), MoverShown)
MoverInit(again) ==
  NewBitmap(Row("screen", 5)) \o EnableDMA({"blitter"})
    \o (IF again THEN <<>> ELSE MoverBlitBitmap(Buf("logo_blit")))
    \o WaitBlitter \o DisableDMA({"blitter"}) \o KillLogo(again)
    \o NewCopList({Buf("cp")})
    \o CopSetupBitplanes(Buf("cp"), Row("screen", 4))
    \o CopListActivate(Buf("cp")) \o MoverUpdateBitplanePointers
    \o EnableDMA({"raster", "blitter"})
MoverKill ==
  DisableDMA({"copper", "raster", "blitter"})
    \o DeleteBitmap(Row("screen", 5)) \o DeleteCopList({Buf("cp")})
MoverMoveTiles == WaitBlitter \o Blit({MoverPlane(4)}, MoverPlane(0))
MoverBlitShape == MoverBlitBitmap(Static)
MoverRender ==
  { shape \o Swap(5) \o BlitterClear(MoverPlane(0)) \o MoverMoveTiles
      \o MoverUpdateBitplanePointers \o TaskWaitVBlank
      : shape \in {<<>>, MoverBlitShape, BlitPlanes({}, Row("screen", 5))} }
TileMover(again) ==
  [Effect("intro/logo", 0) EXCEPT
     !.load = IF again THEN <<>> ELSE MoverLoad,
     !.unload = IF again THEN <<>> ELSE MoverUnLoad,
     !.active = IF again THEN 0..4 ELSE {0},
     !.init = MoverInit(again), !.kill = MoverKill, !.render = MoverRender]

-----------------------------------------------------------------------------
(* intro/textscroll.c *)
ScrollMakeCopperList(c) ==
  NewCopList({c}) \o CopSetupBitplanes(c, {Buf("scroll")})
ScrollInit ==
  NewBitmap({Buf("scroll")}) \o MemAlloc(Bufs({"linebpl"}))
    \o ForBoth("cp", ScrollMakeCopperList) \o Cpu({}, Bufs({"linebpl"}))
    \o CopListActivate(Cur("cp")) \o EnableDMA({"raster", "blitter"})
ScrollKill ==
  DisableDMA({"raster", "blitter", "copper"}) \o DeleteCopList(Both("cp"))
    \o MemFree(Bufs({"linebpl"})) \o DeleteBitmap({Buf("scroll")})
ScrollRenderLine == Cpu({}, {Buf("scroll")})
ScrollSetupLinePointers ==
  Cpu(Bufs({"linebpl"}), {}) \o CopUpdateBitplanes(Cur("cp"), {Buf("scroll")})
ScrollRenderNextLineIfNeeded ==
  {<<>>, BitmapClear(Buf("scroll")) \o WaitBlitter \o ScrollRenderLine}
ScrollRender ==
  { ScrollSetupLinePointers \o line \o CopListRun(Cur("cp"))
      \o TaskWaitVBlank \o Swap(2) : line \in ScrollRenderNextLineIfNeeded }
Scroll == [Effect("intro/textscroll", 0) EXCEPT !.init = ScrollInit,
             !.kill = ScrollKill, !.render = ScrollRender]

-----------------------------------------------------------------------------
(* intro/vitruvian.c *)
VitruvianInit ==
  NewBitmap({Buf("screen")}) \o Cpu({}, {Buf("screen")})
    \o NewCopList({Buf("cp")})
    \o CopSetupBitplanes(Buf("cp"), {Buf("screen")})
    \o CopListActivate(Buf("cp")) \o EnableDMA({"raster"})
VitruvianKill ==
  DisableDMA({"copper", "raster"}) \o DeleteCopList({Buf("cp")})
    \o DeleteBitmap({Buf("screen")})
VitruvianRender == TaskWaitVBlank
Vitruvian ==
  [Effect("intro/vitruvian", 0) EXCEPT !.load = PixmapToBitmap,
     !.init = VitruvianInit, !.kill = VitruvianKill,
     !.render = {VitruvianRender}]

-----------------------------------------------------------------------------
(* intro/turmite.c *)
IntroTurmiteBitmapToBoard == Cpu({}, Bufs({"board"}))
IntroTurmiteChooseTurmiteBoard ==
  BitmapClear(Buf("screen")) \o WaitBlitter \o Cpu({}, {Buf("screen")})
    \o IntroTurmiteBitmapToBoard
IntroTurmiteInit ==
  MemAlloc(Bufs({"board"})) \o NewBitmap({Buf("screen")})
    \o EnableDMA({"blitter"}) \o IntroTurmiteChooseTurmiteBoard
    \o NewCopList({Buf("cp")})
    \o CopSetupBitplanes(Buf("cp"), {Buf("screen")})
    \o CopListActivate(Buf("cp")) \o EnableDMA({"raster"})
IntroTurmiteKill ==
  DisableDMA({"raster", "copper"}) \o DeleteCopList({Buf("cp")})
    \o DeleteBitmap({Buf("screen")}) \o MemFree(Bufs({"board"}))
IntroTurmiteSimulateTurmite == Cpu(Bufs({"board"}), Bufs({"board", "screen"}))
IntroTurmiteRender ==
  {TaskWaitVBlank, IntroTurmiteChooseTurmiteBoard \o TaskWaitVBlank,
   IntroTurmiteSimulateTurmite \o TaskWaitVBlank}
IntroTurmite ==
  [Effect("intro/turmite", 0) EXCEPT !.init = IntroTurmiteInit, !.kill = IntroTurmiteKill,
     !.render = IntroTurmiteRender]

-----------------------------------------------------------------------------
(* intro/growing-tree.c *)
GreetsInit ==
  MemAlloc(Bufs({"branches"})) \o NewBitmap({Buf("screen")})
    \o NewCopList({Buf("cp")})
    \o CopSetupBitplanes(Buf("cp"), {Buf("screen")})
    \o CopListActivate(Buf("cp"))
    \o EnableDMA({"raster", "sprite", "blitter"})
GreetsKill ==
  DisableDMA({"copper", "blitter", "raster", "sprite"})
    \o MemFree(Bufs({"branches"})) \o DeleteBitmap({Buf("screen")})
    \o DeleteCopList({Buf("cp")})
GreetsCopyFruit == Blit({Buf("screen")}, Buf("screen"))
GreetsDrawBranch == Blit({Buf("screen")}, Buf("screen"))
GreetsSplitBranch == Cpu(Bufs({"branches"}), Bufs({"branches"}))
GreetsGrowingTree ==
  GreetsSplitBranch \o GreetsDrawBranch
    \o GreetsCopyFruit
GreetsHandleDrawingGreets == GreetsDrawBranch
GreetsRender ==
  { clear \o GreetsGrowingTree \o GreetsHandleDrawingGreets \o TaskWaitVBlank
      : clear \in {<<>>, BitmapClear(Buf("screen")) \o CopInsSet(Buf("cp"))
                           \o Cpu({}, Bufs({"branches"}))} }
GreetingTree ==
  [Effect("intro/growing-tree", 0) EXCEPT !.init = GreetsInit,
     !.kill = GreetsKill, !.render = GreetsRender]
-----------------------------------------------------------------------------
(* intro/sea-anemone.c *)
AnemonesMakeCopperList(c) ==
  NewCopList({c}) \o CopSetupBitplanes(c, {Buf("screen")})
AnemonesGradientUpdate == Cpu({}, Both("cp"))
AnemonesGradientClear == Cpu({}, Both("cp"))
AnemonesVBlank == {<<>>, AnemonesGradientClear, AnemonesGradientUpdate}
AnemonesInit ==
  NewBitmap({Buf("screen")}) \o ForBoth("cp", AnemonesMakeCopperList)
    \o AnemonesGradientUpdate \o CopListActivate(Nth("cp", 0))
    \o EnableDMA({"raster", "blitter"}) \o WaitBlitter
AnemonesKill ==
  DisableDMA({"copper", "blitter", "raster"}) \o ResetSprites
    \o DeleteCopList(Both("cp")) \o DeleteBitmap({Buf("screen")})
AnemonesDrawShape ==
  WaitBlitter \o Blit({Static, Buf("screen")}, Buf("screen"))
AnemonesRender ==
  { Swap(2) \o clear \o sprites \o AnemonesDrawShape
      \o CopListRun(Cur("cp")) \o TaskWaitVBlank
      : clear \in {<<>>, BitmapClear(Buf("screen"))},
        sprites \in {ResetSprites,
          CopUpdateBitplanes(Cur("cp"), {Buf("screen")})
            \o EnableDMA({"sprite"})} }
SeaAnemones ==
  [Effect("intro/sea-anemone", 0) EXCEPT !.init = AnemonesInit,
     !.kill = AnemonesKill, !.render = AnemonesRender,
     !.vblank = AnemonesVBlank]

-----------------------------------------------------------------------------
(* intro/weave.c: two pairs of copper lists, one for the beginning and the *)
(* end.  The handler changes colours in the list that is not drawn.        *)
IntroWeaveFull == Bufs({"stateFull"})
IntroWeaveMakeCopperListFull(c) ==
  NewCopList({c}) \o CopSetupBitplanes(c, {Buf("sprdat")})
IntroWeaveMakeCopperListBars(c) == CopSetupBitplanes(c, {Static})
IntroWeaveUpdateBarState(c) == CopInsSet(c)
IntroWeaveUpdateBarColor(c) == CopInsSet(c)
IntroWeaveUpdateSpriteState(c) == CopUpdateBitplanes(c, {Buf("sprdat")})
IntroWeaveUpdateStripeState(c) == CopInsSet(c)
IntroWeaveZeroSpriteTiles == Cpu({}, Bufs({"sprdat"}))
IntroWeaveCopySpriteTiles == Cpu({}, Bufs({"sprdat"}))
IntroWeaveControlStripes ==
  {<<>>, IntroWeaveCopySpriteTiles, IntroWeaveZeroSpriteTiles}
IntroWeaveVBlank == Cpu(IntroWeaveFull, {Other("full")})
IntroWeaveInit ==
  MemAlloc(Bufs({"sprdat"})) \o MemAlloc(IntroWeaveFull)
    \o ForBoth("full", IntroWeaveMakeCopperListFull)
    \o MemAlloc(Bufs({"stateBars"}))
    \o ForBoth("bars", LAMBDA c : NewCopList({c}) \o IntroWeaveMakeCopperListBars(c))
    \o IntroWeaveUpdateBarState(Nth("bars", 0))
    \o IntroWeaveUpdateSpriteState(Nth("full", 0))
    \o CopListActivate(Nth("bars", 0)) \o EnableDMA({"raster"})
IntroWeaveKill ==
  ResetSprites \o DisableDMA({"raster", "copper"})
    \o DeleteCopList(Both("full")) \o MemFree(IntroWeaveFull)
    \o DeleteCopList(Both("bars")) \o MemFree(Bufs({"stateBars"}))
    \o MemFree(Bufs({"sprdat"}))
IntroWeaveRender ==
  { list \o WaitVBlank \o Swap(2) : list \in
      { ResetSprites \o IntroWeaveMakeCopperListBars(Cur("bars"))
          \o IntroWeaveUpdateBarState(Cur("bars")) \o CopListRun(Cur("bars")),
        ResetSprites \o IntroWeaveUpdateBarColor(Cur("full"))
          \o IntroWeaveUpdateBarState(Cur("full")) \o CopListRun(Cur("full")) }
      \union
      { EnableDMA({"sprite"}) \o stripes \o IntroWeaveUpdateBarState(Cur("full"))
          \o IntroWeaveUpdateSpriteState(Cur("full"))
          \o IntroWeaveUpdateStripeState(Cur("full")) \o CopListRun(Cur("full"))
          : stripes \in IntroWeaveControlStripes } }
IntroWeave ==
  [Effect("intro/weave", 0) EXCEPT !.load = PixmapToBitmap,
     !.init = IntroWeaveInit, !.kill = IntroWeaveKill, !.render = IntroWeaveRender, !.vblank = {IntroWeaveVBlank}]

-----------------------------------------------------------------------------
(* intro/uvmap.c: as effects/uvmap, but waits for the blits of the frame   *)
(* before.  The second effect of the unit has the handler, which only      *)
(* turns sprites on and off.                                               *)
TunnelTextures == Bufs({"texFstHi", "texFstLo", "texSndHi", "texSndLo"})
TunnelScrambleUVMap == Cpu({}, Bufs({"uvmap"}))
TunnelLoad ==
  MemAlloc(Bufs({"uvmap"})) \o TunnelScrambleUVMap
    \o MemFree(Bufs({"uvmap"}))
TunnelChunkyToPlanar ==
  Phases(Start({Cur("screen")}, Cur("screen"))
           \o Start({Cur("screen")}, Cur("screen"))
           \o CopUpdateBitplanes(Buf("cp"), {Cur("screen")}))
TunnelMakeCopperList ==
  NewCopList({Buf("cp")}) \o CopSetupBitplanes(Buf("cp"), {Cur("screen")})
TunnelVBlank == {<<>>, EnableDMA({"sprite"}), ResetSprites}
TunnelMakeUVMapRenderCode == Cpu({}, Bufs({"UVMapRender"}))
TunnelInit ==
  MemAlloc(Bufs({"UVMapRender"})) \o TunnelMakeUVMapRenderCode
    \o NewBitmap(Both("screen")) \o MemAlloc(TunnelTextures)
    \o EnableDMA({"blitter"}) \o ForBoth("screen", BitmapClear)
    \o TunnelMakeCopperList \o CopListActivate(Buf("cp"))
    \o CopInsSet(Buf("cp")) \o EnableDMA({"raster"}) \o Rewind \o EnableBlitInt
TunnelKill ==
  ResetSprites \o DisableDMA({"copper", "raster", "blitter"})
    \o DisableBlitInt \o DeleteCopList({Buf("cp")}) \o MemFree(TunnelTextures)
    \o MemFree(Bufs({"UVMapRender"})) \o DeleteBitmap(Both("screen"))
TunnelCopyTexture == Cpu({}, TunnelTextures)
TunnelControlTexture == {<<>>, TunnelCopyTexture}
TunnelRender ==
  { textures \o Cpu(Bufs({"UVMapRender"}) \union TunnelTextures, {Cur("screen")})
      \o WaitPhases \o TunnelChunkyToPlanar \o Swap(2)
      : textures \in TunnelControlTexture }
UVGut == [Effect("intro/uvmap", 0) EXCEPT !.load = TunnelLoad, !.init = TunnelInit,
            !.kill = TunnelKill, !.render = TunnelRender]
UVTit == [UVGut EXCEPT !.load = <<>>, !.vblank = TunnelVBlank]
-----------------------------------------------------------------------------
(* intro/game-of-life.c: two effects that share their statics, each on the *)
(* track twice; scene is how often one of them has started.  board is the  *)
(* one that the processor shows and only the last blit writes.  With a     *)
(* background the list shows three of four states, else four of five.      *)
LifeBoards == Bufs({"board", "boards"})
LifeBackground(i) == Nth("background", i)
LifeMakeCopperList ==
  NewCopList({Buf("cp")})
    \o CopSetupBitplanes(Buf("cp"), Row("prev_states", 4))
LifeUpdateBitplanePointers(depth, background) ==
  CopUpdateBitplanes(Buf("cp"),
    {At("prev_states", i, depth) : i \in {0} \union 2..(depth - 1)}
      \union background) \o Swap(depth)
LifeBlit(b) == Start(LifeBoards, b)
LifeGameOfLife == Phases(LifeBlit(Buf("boards")) \o LifeBlit(Buf("boards")))
LifeLoadBackground(i) ==
  NewBitmap(Bufs({"tmp"})) \o BitmapClear(Buf("tmp"))
    \o BitmapCopy(Buf("tmp"), Static) \o WaitBlitter
    \o Cpu(Bufs({"tmp", "PixelDouble"}), {LifeBackground(i)})
    \o DeleteBitmap(Bufs({"tmp"}))
LifeMakePixelDoublingCode == Cpu({}, Bufs({"PixelDouble"}))
LifeSharedPreInit(scene) ==
  (IF scene = 1 THEN MemAlloc(Bufs({"PixelDouble"}))
                       \o LifeMakePixelDoublingCode ELSE <<>>)
    \o NewBitmap(LifeBoards) \o NewBitmap(Row("prev_states", 5))
    \o NewBitmap(Both("background")) \o Rewind \o EnableDMA({"blitter"})
    \o BlitPlanes({}, Row("prev_states", 5)) \o BitmapClear(Buf("boards"))
    \o LifeMakeCopperList \o CopListActivate(Buf("cp"))
    \o EnableDMA({"raster", "sprite"})
LifeSharedPostInit == WaitBlitter \o EnableBlitInt
LifeInitWireworld(scene, background) ==
  LifeSharedPreInit(scene)
    \o (IF background
          THEN LifeLoadBackground(0) \o BitmapClear(LifeBackground(1))
                 \o WaitBlitter \o CopUpdateBitplanes(Buf("cp"),
                      Row("prev_states", 3) \union {LifeBackground(1)})
          ELSE <<>>)
    \o BitmapCopy(Buf("boards"), Static) \o BitmapClear(Buf("board"))
    \o LifeSharedPostInit
LifeInitGameOfLife(scene) ==
  LifeSharedPreInit(scene) \o CopInsSet(Buf("cp")) \o LifeLoadBackground(0)
    \o LifeLoadBackground(1) \o BitmapClear(Buf("board"))
    \o BitmapCopy(Buf("board"), Static) \o LifeSharedPostInit
(* Mistaken variant: what all scenes share is freed one scene too early. *)
LifeKillEarly(scene) ==
  ResetSprites \o DisableDMA(Channels) \o DisableBlitInt
    \o DeleteBitmap(LifeBoards) \o DeleteBitmap(Row("prev_states", 5))
    \o DeleteBitmap(Both("background"))
    \o (IF scene = 3 THEN MemFree(Bufs({"PixelDouble"})) ELSE <<>>)
    \o DeleteCopList({Buf("cp")})
LifeKill(scene) ==
  ResetSprites \o DisableDMA(Channels) \o DisableBlitInt
    \o DeleteBitmap(LifeBoards) \o DeleteBitmap(Row("prev_states", 5))
    \o DeleteBitmap(Both("background"))
    \o (IF scene = 4 THEN MemFree(Bufs({"PixelDouble"})) ELSE <<>>)
    \o DeleteCopList({Buf("cp")})
LifeBoardFadeIn == Cpu({LifeBackground(0)}, {LifeBackground(1)})
LifeChipFadeIn == CopInsSet(Buf("cp"))
LifeSpawnElectrons == Cpu({}, LifeBoards)
LifeGolStep(spawn, depth, background) ==
  spawn \o LifeGameOfLife
    \o Cpu(Bufs({"board", "PixelDouble"}), {At("prev_states", 0, depth)})
    \o WaitPhases \o WaitBlitter \o LifeBlit(Buf("board"))
    \o CopInsSet(Buf("cp")) \o WaitBlitter
    \o LifeUpdateBitplanePointers(depth, background)
LifeScene(scene) ==
  [Effect("intro/game-of-life", 0) EXCEPT !.kill = LifeKill(scene)]
Wireworld1 ==
  [LifeScene(1) EXCEPT !.init = LifeInitWireworld(1, FALSE),
     !.render = {LifeGolStep(LifeSpawnElectrons, 5, {})}]
Wireworld3 ==
  [LifeScene(3) EXCEPT !.init = LifeInitWireworld(3, TRUE),
     !.render = {LifeBoardFadeIn, LifeChipFadeIn,
                 LifeGolStep(LifeSpawnElectrons, 4, {LifeBackground(1)})}]
GameOfLifeScene(scene) ==
  [LifeScene(scene) EXCEPT !.init = LifeInitGameOfLife(scene),
     !.render = {LifeGolStep(<<>>, 4, {LifeBackground(i)}) : i \in 0..1}]
=============================================================================
