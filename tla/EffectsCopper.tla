---------------------------- MODULE EffectsCopper ----------------------------
(***************************************************************************)
(* Effects whose picture is in the copper list: they write one of two      *)
(* lists while the copper runs the other.                                  *)
(***************************************************************************)
EXTENDS Script

(* effects/showpchg *)
ShowPCHGMakeCopperList ==
  NewCopList({Buf("cp")}) \o CopSetupBitplanes(Buf("cp"), {Static})
ShowPCHGInit ==
  ShowPCHGMakeCopperList \o CopListActivate(Buf("cp")) \o EnableDMA({"raster"})
ShowPCHGKill == DeleteCopList({Buf("cp")})
ShowPCHG == [Effect("showpchg", 0) EXCEPT !.init = ShowPCHGInit,
               !.kill = ShowPCHGKill]

-----------------------------------------------------------------------------
(* effects/textscroll: both lists show the one bitmap. *)
TextScrollMakeCopperList(c) ==
  NewCopList({c}) \o CopSetupBitplanes(c, {Buf("scroll")})
TextScrollInit ==
  NewBitmap({Buf("scroll")}) \o EnableDMA({"blitter"})
    \o BitmapClear(Buf("scroll"))
    \o ForBoth("cp", TextScrollMakeCopperList)
    \o CopListActivate(Cur("cp")) \o EnableDMA({"raster"})
TextScrollKill == DeleteCopList(Both("cp")) \o DeleteBitmap({Buf("scroll")})
TextScrollSetupLinePointers ==
  CopUpdateBitplanes(Cur("cp"), {Buf("scroll")})
TextScrollRenderLine == Cpu({}, {Buf("scroll")})
TextScrollRenderNextLineIfNeeded ==
  {<<>>, BitmapClear(Buf("scroll")) \o WaitBlitter \o TextScrollRenderLine}
TextScrollRender ==
  { TextScrollSetupLinePointers \o line \o CopListRun(Cur("cp"))
      \o TaskWaitVBlank \o Swap(2) : line \in TextScrollRenderNextLineIfNeeded }
TextScroll == [Effect("textscroll", 0) EXCEPT !.init = TextScrollInit,
                 !.kill = TextScrollKill, !.render = TextScrollRender]

-----------------------------------------------------------------------------
(* effects/plasma *)
PlasmaMakeCopperList(c) == NewCopList({c}) \o CopSetupBitplanes(c, {})
PlasmaInit ==
  ForBoth("cp", PlasmaMakeCopperList) \o CopListActivate(Nth("cp", 1))
PlasmaKill == DisableDMA({"copper"}) \o DeleteCopList(Both("cp"))
PlasmaUpdateChunky == CopInsSet(Cur("cp"))
PlasmaRender ==
  PlasmaUpdateChunky \o CopListRun(Cur("cp")) \o TaskWaitVBlank \o Swap(2)
Plasma == [Effect("plasma", 0) EXCEPT !.init = PlasmaInit,
             !.kill = PlasmaKill, !.render = {PlasmaRender}]

-----------------------------------------------------------------------------
(* effects/stripes *)
StripesMakeCopperList(c) == NewCopList({c}) \o CopSetupBitplanes(c, {})
StripesInit ==
  ForBoth("cp", StripesMakeCopperList) \o CopListActivate(Nth("cp", 0))
StripesKill == DeleteCopList(Both("cp"))
StripesClearLineColor == CopInsSet(Cur("cp"))
StripesSetLineColor == CopInsSet(Cur("cp"))
StripesRenderStripes == StripesClearLineColor \o StripesSetLineColor
StripesRender ==
  StripesRenderStripes \o CopListRun(Cur("cp")) \o TaskWaitVBlank \o Swap(2)
Stripes == [Effect("stripes", 0) EXCEPT !.init = StripesInit,
              !.kill = StripesKill, !.render = {StripesRender}]

-----------------------------------------------------------------------------
(* effects/twister-rgb: its lists turn the channel of the bitplanes on. *)
TwisterRGBMakeCopperList(c) == NewCopList({c}) \o CopSetupRaster(c, {Static})
TwisterRGBInit ==
  EnableDMA({"blitter"}) \o ForBoth("cp", TwisterRGBMakeCopperList)
    \o CopListActivate(Nth("cp", 1)) \o EnableDMA({"raster", "sprite"})
TwisterRGBKill == DeleteCopList(Both("cp"))
TwisterRGBSetupLines == CopUpdateBitplanes(Cur("cp"), {Static})
TwisterRGBSetupTexture == CopInsSet(Cur("cp"))
TwisterRGBRender ==
  TwisterRGBSetupLines \o TwisterRGBSetupTexture \o CopListRun(Cur("cp"))
    \o TaskWaitVBlank \o Swap(2)
TwisterRGB == [Effect("twister-rgb", 0) EXCEPT !.init = TwisterRGBInit,
                 !.kill = TwisterRGBKill, !.render = {TwisterRGBRender}]

-----------------------------------------------------------------------------
(* effects/credits: the lists turn the bitplanes off and on, every frame   *)
(* writes a whole list, and the bitmap in the foreground is not doubled.   *)
CreditsMakeCopperList(c) == CopSetupRaster(c, {Static, Buf("foreground")})
CreditsInit ==
  NewBitmap({Buf("foreground")}) \o NewCopList(Both("cp"))
    \o CreditsMakeCopperList(Nth("cp", 0)) \o CopListActivate(Nth("cp", 0))
    \o EnableDMA({"raster", "blitter"})
CreditsKill ==
  DisableDMA({"raster", "blitter"}) \o DeleteCopList(Both("cp"))
    \o DeleteBitmap({Buf("foreground")})
CreditsRender ==
  { draw \o CreditsMakeCopperList(Cur("cp")) \o CopListRun(Cur("cp"))
      \o TaskWaitVBlank \o Swap(2) :
    draw \in {<<>>, BitmapCopy(Buf("foreground"), Static)} }
Credits == [Effect("credits", 0) EXCEPT !.init = CreditsInit,
              !.kill = CreditsKill, !.render = CreditsRender]

-----------------------------------------------------------------------------
(* effects/layers *)
LayersMakeCopperList(c) == CopSetupBitplanes(c, {Static})
LayersInit ==
  NewCopList(Both("cp")) \o LayersMakeCopperList(Nth("cp", 0))
    \o CopListActivate(Nth("cp", 0)) \o EnableDMA({"raster"})
LayersKill == DisableDMA({"raster"}) \o DeleteCopList(Both("cp"))
LayersRender ==
  LayersMakeCopperList(Cur("cp")) \o CopListRun(Cur("cp"))
    \o TaskWaitVBlank \o Swap(2)
Layers == [Effect("layers", 0) EXCEPT !.init = LayersInit,
             !.kill = LayersKill, !.render = {LayersRender}]
-----------------------------------------------------------------------------
(* effects/butterfly-gears: the colours of the list at work are changed;    *)
(* the list turns the bitplanes on.                                         *)
GearsInitCopperListBall == CopInsSet(Buf("cp"))
GearsMakeBallCopperList ==
  NewCopList({Buf("cp")}) \o CopSetupRaster(Buf("cp"), {Static})
    \o GearsInitCopperListBall
GearsInit == GearsMakeBallCopperList \o CopListActivate(Buf("cp"))
GearsKill == DisableDMA({"raster", "copper"}) \o DeleteCopList({Buf("cp")})
GearsDrawCopperBall == CopInsSet(Buf("cp"))
GearsRender == GearsDrawCopperBall \o TaskWaitVBlank
Gears == [Effect("butterfly-gears", 0) EXCEPT !.init = GearsInit,
            !.kill = GearsKill, !.render = {GearsRender}]

-----------------------------------------------------------------------------
(* effects/tiles16: tileptrs is never freed. *)
Tiles16Load == MemAlloc({Buf("tileptrs")}) \o Cpu({}, {Buf("tileptrs")})
Tiles16MakeCopperList(i) ==
  NewCopList({Nth("cp", i)})
    \o CopSetupBitplanes(Nth("cp", i), {Nth("screen", i)})
Tiles16Init ==
  NewBitmap(Both("screen")) \o Tiles16MakeCopperList(0)
    \o Tiles16MakeCopperList(1) \o CopListActivate(Nth("cp", 1))
    \o EnableDMA({"raster", "blitter"})
Tiles16Kill ==
  DisableDMA({"copper", "raster", "blitter"}) \o DeleteCopList(Both("cp"))
    \o DeleteBitmap(Both("screen"))
Tiles16UpdateTiles ==
  WaitBlitter \o Cpu({Buf("tileptrs")}, {}) \o Blit({}, Cur("screen"))
Tiles16Render ==
  Tiles16UpdateTiles \o CopUpdateBitplanes(Cur("cp"), {Cur("screen")})
    \o CopListRun(Cur("cp")) \o TaskWaitVBlank \o Swap(2)
Tiles16 == [Effect("tiles16", 0) EXCEPT !.load = Tiles16Load,
              !.init = Tiles16Init, !.kill = Tiles16Kill,
              !.render = {Tiles16Render}]

-----------------------------------------------------------------------------
(* effects/tiles8: blits are started without a wait; neither tilescr nor    *)
(* the bitmaps are freed.                                                   *)
Tiles8Load == MemAlloc({Buf("tilescr")}) \o Cpu({}, {Buf("tilescr")})
Tiles8MakeCopperList ==
  NewCopList({Buf("cp")}) \o CopSetupBitplanes(Buf("cp"), {Nth("screen", 1)})
Tiles8Init ==
  NewBitmap(Both("screen")) \o Tiles8MakeCopperList
    \o CopListActivate(Buf("cp")) \o EnableDMA({"raster", "blitter"})
Tiles8Kill ==
  DisableDMA({"copper", "raster", "blitter"}) \o DeleteCopList({Buf("cp")})
Tiles8UpdateChunky == CopInsSet(Buf("cp"))
Tiles8UpdateTiles == Cpu({}, {Buf("tilescr")})
Tiles8RenderTiles == Cpu({Buf("tilescr")}, {}) \o Start({}, Cur("screen"))
Tiles8Render ==
  Tiles8UpdateChunky \o Tiles8UpdateTiles \o Tiles8RenderTiles
    \o CopUpdateBitplanes(Buf("cp"), {Cur("screen")})
    \o TaskWaitVBlank \o Swap(2)
Tiles8 == [Effect("tiles8", 0) EXCEPT !.load = Tiles8Load,
             !.init = Tiles8Init, !.kill = Tiles8Kill,
             !.render = {Tiles8Render}]

-----------------------------------------------------------------------------
(* effects/highway *)
HighwayMakeCopperList ==
  NewCopList({Buf("cp")}) \o CopSetupRaster(Buf("cp"), {Static, Cur("lanes")})
HighwayInit ==
  NewBitmap(Both("lanes")) \o NewBitmap({Buf("carry")})
    \o HighwayMakeCopperList \o CopListActivate(Buf("cp"))
    \o EnableDMA({"raster", "blitter", "sprite"})
HighwayKill ==
  DisableDMA({"copper", "raster", "blitter", "sprite"})
    \o DeleteBitmap(Both("lanes")) \o DeleteBitmap({Buf("carry")})
    \o DeleteCopList({Buf("cp")})
HighwayDrawCars ==
  {<<>>, BitmapAddSaturated(Cur("lanes"), Static, Buf("carry"))}
HighwayRender ==
  { BitmapCopy(Cur("lanes"), Static) \o cars
      \o CopUpdateBitplanes(Buf("cp"), {Static, Cur("lanes")})
      \o TaskWaitVBlank \o Swap(2) : cars \in HighwayDrawCars }
Highway == [Effect("highway", 0) EXCEPT !.init = HighwayInit,
              !.kill = HighwayKill, !.render = HighwayRender]

-----------------------------------------------------------------------------
(* effects/multipipe: the lists show lines of a cache. *)
MultiPipeCalcLines == Cpu({}, {Buf("cache")})
MultiPipeLoad == MemAlloc({Buf("cache")})
MultiPipeUnLoad == MemFree({Buf("cache")})
MultiPipeMakeCopperList(c) ==
  NewCopList({c}) \o CopSetupBitplanes(c, {Buf("cache")})
MultiPipeInit ==
  MultiPipeCalcLines \o ForBoth("cp", MultiPipeMakeCopperList)
    \o CopListActivate(Nth("cp", 0)) \o EnableDMA({"raster"})
MultiPipeKill == DisableDMA({"raster"}) \o DeleteCopList(Both("cp"))
MultiPipeRenderPipes == CopUpdateBitplanes(Cur("cp"), {Buf("cache")})
MultiPipeRender ==
  MultiPipeRenderPipes \o CopListRun(Cur("cp")) \o TaskWaitVBlank \o Swap(2)
MultiPipe == [Effect("multipipe", 1) EXCEPT !.load = MultiPipeLoad,
                !.unload = MultiPipeUnLoad, !.init = MultiPipeInit,
                !.kill = MultiPipeKill, !.render = {MultiPipeRender}]
-----------------------------------------------------------------------------
(* effects/floor: lines and colours of the list are changed. *)
FloorMakeCopperList(c) == NewCopList({c}) \o CopSetupBitplanes(c, {Static})
FloorInit ==
  ForBoth("cp", FloorMakeCopperList) \o CopListActivate(Other("cp"))
    \o EnableDMA({"raster"})
FloorKill == DisableDMA({"raster"}) \o DeleteCopList(Both("cp"))
FloorColorizeStripes == CopInsSet(Cur("cp"))
FloorShiftStripes == CopInsSet(Cur("cp"))
FloorRender ==
  FloorColorizeStripes \o FloorShiftStripes \o CopListRun(Cur("cp"))
    \o TaskWaitVBlank \o Swap(2)
Floor == [Effect("floor", 0) EXCEPT !.init = FloorInit, !.kill = FloorKill,
            !.render = {FloorRender}]

-----------------------------------------------------------------------------
(* effects/floor-old *)
FloorOldMakeCopperList(num) ==
  NewCopList({Nth("cp", num)})
    \o CopSetupBitplanes(Nth("cp", num), {Nth("screen", num)})
FloorOldInit ==
  NewBitmap(Both("screen")) \o EnableDMA({"blitter"})
    \o ForBoth("screen", LAMBDA s : BitmapClear(s) \o BlitterSetArea(s)
                                      \o BitmapCopy(s, Static)
                                      \o BlitterSetArea(s))
    \o FloorOldMakeCopperList(0) \o FloorOldMakeCopperList(1)
    \o CopListActivate(Cur("cp")) \o EnableDMA({"raster"})
FloorOldKill ==
  DisableDMA({"raster", "blitter"}) \o DeleteCopList(Both("cp"))
    \o DeleteBitmap(Both("screen"))
FloorOldClearFloor == Blit({}, Cur("screen"))
FloorOldDrawStripesCopper == CopInsSet(Cur("cp"))
FloorOldDrawStripes ==
  BlitterLineSetup(Cur("screen")) \o BlitterLine(Cur("screen"))
    \o WaitBlitter \o BlitterLineSetup(Cur("screen"))
    \o BlitterLine(Cur("screen"))
FloorOldAssignColorToTileColumn == CopInsSet(Cur("cp"))
FloorOldFillStripes ==
  Blit({Cur("screen")}, Cur("screen")) \o FloorOldAssignColorToTileColumn
    \o Blit({Cur("screen")}, Cur("screen"))
FloorOldHorizontalStripes == Blit({}, Cur("screen"))
FloorOldRender ==
  FloorOldClearFloor \o FloorOldDrawStripesCopper \o FloorOldDrawStripes
    \o FloorOldHorizontalStripes \o FloorOldFillStripes
    \o CopListRun(Cur("cp")) \o TaskWaitVBlank \o Swap(2)
FloorOld == [Effect("floor-old", 0) EXCEPT !.init = FloorOldInit,
               !.kill = FloorOldKill, !.render = {FloorOldRender}]

-----------------------------------------------------------------------------
(* effects/thunders: a whole list is written every frame. *)
ThundersMakeCopperList(i) ==
  NewCopList({Nth("cp", i)})
    \o CopSetupBitplanes(Nth("cp", i), {Nth("screen", i)})
ThundersInit ==
  NewBitmap(Both("screen")) \o ThundersMakeCopperList(0)
    \o ThundersMakeCopperList(1) \o CopListActivate(Nth("cp", 1))
    \o EnableDMA({"raster", "sprite", "blitter"})
ThundersKill ==
  DisableDMA({"copper", "raster", "sprite", "blitter"})
    \o DeleteCopList(Both("cp")) \o DeleteBitmap(Both("screen"))
ThundersDrawLine(data) == Blit({data}, data)
ThundersDrawStripes == WaitBlitter \o ThundersDrawLine(Cur("screen"))
ThundersFillStripes == Blit({Cur("screen")}, Cur("screen"))
ThundersMakeFloorCopperList ==
  CopSetupBitplanes(Cur("cp"), {Cur("screen")})
ThundersRender ==
  BlitterClear(Cur("screen")) \o ThundersDrawStripes \o ThundersFillStripes
    \o ThundersMakeFloorCopperList \o CopListRun(Cur("cp"))
    \o TaskWaitVBlank \o Swap(2)
Thunders == [Effect("thunders", 0) EXCEPT !.init = ThundersInit,
               !.kill = ThundersKill, !.render = {ThundersRender}]

-----------------------------------------------------------------------------
(* effects/weave: Render waits for line 303. *)
WeaveMakeCopperList(c) == NewCopList({c}) \o CopSetupBitplanes(c, {Static})
WeaveInit ==
  ForBoth("cp", WeaveMakeCopperList) \o CopListActivate(Nth("cp", 0))
    \o EnableDMA({"raster", "sprite"})
WeaveKill == DisableDMA({"raster", "sprite"}) \o DeleteCopList(Both("cp"))
WeaveUpdateBarState == CopUpdateBitplanes(Cur("cp"), {Static})
WeaveUpdateSpriteState == CopInsSet(Cur("cp"))
WeaveUpdateStripeState == CopInsSet(Cur("cp"))
WeaveRender ==
  WeaveUpdateBarState \o WeaveUpdateSpriteState \o WeaveUpdateStripeState
    \o CopListRun(Cur("cp")) \o WaitVBlank \o Swap(2)
Weave == [Effect("weave", 1) EXCEPT !.init = WeaveInit, !.kill = WeaveKill,
            !.render = {WeaveRender}]

-----------------------------------------------------------------------------
(* effects/prisms: the lists show lines of one bitmap. *)
PrismsGenerateLines ==
  EnableDMA({"blitter"}) \o BlitterLineSetup(Buf("stripes"))
    \o BlitterLine(Buf("stripes")) \o BlitterFill(Buf("stripes"))
    \o WaitBlitter \o DisableDMA({"blitter"})
PrismsMakeCopperList(c) ==
  NewCopList({c}) \o CopSetupBitplanes(c, {Buf("stripes")})
PrismsInit ==
  NewBitmap({Buf("stripes")}) \o PrismsGenerateLines
    \o ForBoth("cp", PrismsMakeCopperList) \o CopListActivate(Nth("cp", 0))
    \o EnableDMA({"raster", "sprite"})
PrismsKill == DeleteBitmap({Buf("stripes")}) \o DeleteCopList(Both("cp"))
PrismsDrawVisibleSpans == CopUpdateBitplanes(Cur("cp"), {Buf("stripes")})
PrismsRender ==
  PrismsDrawVisibleSpans \o CopListRun(Cur("cp")) \o TaskWaitVBlank \o Swap(2)
Prisms == [Effect("prisms", 0) EXCEPT !.init = PrismsInit,
             !.kill = PrismsKill, !.render = {PrismsRender}]
=============================================================================
